----------------------------- MODULE BoardLease -----------------------------
(***************************************************************************)
(* The board-lease core of ostool-server: AppState (state.rs), the session *)
(* actor (session.rs), the release coordinator and its retrying release    *)
(* jobs, the serial WebSocket task that powers the board on (serial/ws.rs) *)
(* and the API handlers that check a session in one step and act on it in  *)
(* a later one (api/router.rs, admin_power.rs).                            *)
(*                                                                         *)
(* Every handler runs as a task of a multi-threaded runtime, so a handler  *)
(* is one action for each stretch in which it holds a lock or touches no   *)
(* shared state; what it read before an await is kept in a variable and    *)
(* used after it.  A handler the HTTP server awaits is dropped at its next *)
(* await when the client's connection closes; the tasks it spawned are not.*)
(*                                                                         *)
(* An operator named Mutant_... is the definition after it with a          *)
(* plausible bug; nothing uses it but the test that a property notices.    *)
(***************************************************************************)
EXTENDS Naturals, FiniteSets

CONSTANTS
  Boards,          \* the configured boards, each with a power resource of its own
  Sessions,        \* session ids; an id (a UUID) is used at most once
  Automatic,       \* the boards of boot kind UefiHttp, whose serial port is bound later
  NoSession,       \* Option::None for a session id
  NoBoard,         \* board of a session that does not exist yet
  RetryAttempts,   \* RELEASE_RETRY_ATTEMPTS
  MaxFaults,       \* bound: failing relay, command or file operations, dropped creations
  MaxRequests,     \* bound: client requests that stay in flight
  MaxRestarts      \* bound: process restarts

ASSUME NullAssumption == NoSession \notin Sessions /\ NoBoard \notin Boards
ASSUME AutomaticAssumption == Automatic \subseteq Boards
ASSUME BoundsAssumption ==
  /\ RetryAttempts \in Nat \ {0}
  /\ MaxFaults \in Nat
  /\ MaxRequests \in Nat
  /\ MaxRestarts \in Nat

VARIABLES
  lease,            \* BoardRuntimeState.lease_state
  active,           \* BoardRuntimeState.active_session_id
  disabled,         \* boards disabled for this process after a failed start-up power-off
  gate,             \* board_inventory_gate: the create_session call holding it, or NoSession
  sessions,         \* keys of AppState.sessions
  board,            \* SessionState.board
  lifecycle,        \* SessionState.lifecycle_state
  stop_requested,   \* sessions with SessionState.stop_requested
  expired,          \* sessions with expires_at <= now
  sweeping,         \* session the sweeper found expired and is about to stop
  shutdown,         \* sessions whose shutdown watch channel holds true
  actor,            \* run_session_actor: where it is
  step,             \* process_release_job: where it is
  done,             \* its flags: the release steps that have succeeded
  failed,           \* its list of errors of this round is not empty
  attempt,          \* attempt of retry_release_step
  serial_connected, \* sessions with SessionState.serial_connected
  handshake,        \* serial_ws calls between the is_releasing check and the claim
  ws,               \* run_serial_ws: where it is
  power_on_task,    \* the automatic power-on task it spawned is running
  owned,            \* sessions whose serial runtime holds a SerialManager lease
  power_call,       \* run_board_power_action past its check: the action, or "none"
  file_call,        \* session file handler past its check: "put", "kernel", "delete", "none"
  admin,            \* running admin power action of a board, or "none"
  power,            \* the boards that are powered
  files,            \* sessions whose TFTP directory holds a file
  relit,            \* history: boards powered on after their last release powered them off
  offs,             \* history: power-offs each release job has completed
  faults, requests, restarts  \* consumed budgets

leaseVars == <<lease, active, disabled, gate, sessions, board>>
sessionVars == <<lifecycle, stop_requested, expired, sweeping, shutdown, actor>>
jobVars == <<step, done, failed, attempt>>
wsVars == <<serial_connected, handshake, ws, power_on_task, owned>>
callVars == <<power_call, file_call, admin>>
worldVars == <<power, files, relit, offs>>
budgetVars == <<faults, requests, restarts>>
vars == <<leaseVars, sessionVars, jobVars, wsVars, callVars, worldVars, budgetVars>>

BoardLeaseState == {"Idle", "Using", "Releasing", "Error"}
SessionLifecycleState == {"Unborn", "Dropped", "Active", "Releasing", "Lost"}
ActorState == {"none", "recv", "begun", "marked", "done"}
ReleaseStep == {"tasks", "power", "settle", "tftp"}
JobState == {"none", "queued", "tasks", "owner", "power", "settle", "tftp", "complete", "done"}
WsState == {"none", "upgrading", "opening", "open", "finalizing", "stopping", "clearing"}
PowerCall == {"none", "on", "off"}

TypeOK ==
  /\ lease \in [Boards -> BoardLeaseState]
  /\ active \in [Boards -> Sessions \cup {NoSession}]
  /\ disabled \in SUBSET Boards
  /\ gate \in Sessions \cup {NoSession}
  /\ sessions \in SUBSET Sessions
  /\ board \in [Sessions -> Boards \cup {NoBoard}]
  /\ lifecycle \in [Sessions -> SessionLifecycleState]
  /\ stop_requested \in SUBSET Sessions
  /\ expired \in SUBSET Sessions
  /\ sweeping \in Sessions \cup {NoSession}
  /\ shutdown \in SUBSET Sessions
  /\ actor \in [Sessions -> ActorState]
  /\ step \in [Sessions -> JobState]
  /\ done \in [Sessions -> SUBSET ReleaseStep]
  /\ failed \in SUBSET Sessions
  /\ attempt \in [Sessions -> 1..RetryAttempts]
  /\ serial_connected \in SUBSET Sessions
  /\ handshake \in SUBSET Sessions
  /\ ws \in [Sessions -> WsState]
  /\ power_on_task \in SUBSET Sessions
  /\ owned \in SUBSET Sessions
  /\ power_call \in [Sessions -> PowerCall]
  /\ file_call \in [Sessions -> {"none", "put", "kernel", "delete"}]
  /\ admin \in [Boards -> PowerCall]
  /\ power \in SUBSET Boards
  /\ files \in SUBSET Sessions
  /\ relit \in SUBSET Boards
  /\ offs \in [Sessions -> Nat]
  /\ faults \in Nat
  /\ requests \in Nat
  /\ restarts \in Nat

(***************************************************************************)
(* build_app_state on an empty data directory; the boards are off.         *)
(***************************************************************************)
Init ==
  /\ lease = [b \in Boards |-> "Idle"]
  /\ active = [b \in Boards |-> NoSession]
  /\ disabled = {}
  /\ gate = NoSession
  /\ sessions = {}
  /\ board = [s \in Sessions |-> NoBoard]
  /\ lifecycle = [s \in Sessions |-> "Unborn"]
  /\ stop_requested = {}
  /\ expired = {}
  /\ sweeping = NoSession
  /\ shutdown = {}
  /\ actor = [s \in Sessions |-> "none"]
  /\ step = [s \in Sessions |-> "none"]
  /\ done = [s \in Sessions |-> {}]
  /\ failed = {}
  /\ attempt = [s \in Sessions |-> 1]
  /\ serial_connected = {}
  /\ handshake = {}
  /\ ws = [s \in Sessions |-> "none"]
  /\ power_on_task = {}
  /\ owned = {}
  /\ power_call = [s \in Sessions |-> "none"]
  /\ file_call = [s \in Sessions |-> "none"]
  /\ admin = [b \in Boards |-> "none"]
  /\ power = {}
  /\ files = {}
  /\ relit = {}
  /\ offs = [s \in Sessions |-> 0]
  /\ faults = 0
  /\ requests = 0
  /\ restarts = 0

(***************************************************************************)
(* Helpers.                                                                *)
(***************************************************************************)
Goto(pc, s, to) == [pc EXCEPT ![s] = to]

\* An operation of the outside world fails: a relay write, a shell command, a file operation.
Fault ==
  /\ faults < MaxFaults
  /\ faults' = faults + 1
  /\ UNCHANGED <<requests, restarts>>

\* A client sends one more request that can stay in flight.
Request ==
  /\ requests < MaxRequests
  /\ requests' = requests + 1
  /\ UNCHANGED <<faults, restarts>>

is_releasing(s) == lifecycle[s] = "Releasing"

\* request_stop: a no-op once the session is releasing; the first caller wins the
\* compare-exchange and sends the one Stop that the actor's channel ever holds.
request_stop(s) ==
  stop_requested' = IF is_releasing(s) THEN stop_requested ELSE stop_requested \cup {s}

\* The power action of session s reaches its board. relit remembers a power-on that
\* lands after the release job of s has powered the board off.
PowerEffect(s, on) ==
  /\ power' = IF on THEN power \cup {board[s]} ELSE power \ {board[s]}
  /\ relit' = IF on /\ "power" \in done[s] THEN relit \cup {board[s]} ELSE relit
  /\ UNCHANGED <<files, offs>>

(***************************************************************************)
(* Sessions: allocation, heartbeat, expiry, stop.                          *)
(***************************************************************************)
\* allocate_board: an enabled board that is Idle and whose power resource no admin action drives.
allocatable(b) == lease[b] = "Idle" /\ b \notin disabled /\ admin[b] = "none"

\* create_session_inner up to the claim: under the inventory gate, an allocatable board is
\* claimed for a fresh id.
ClaimBoard(s, b) ==
  /\ gate = NoSession
  /\ lifecycle[s] = "Unborn"
  /\ allocatable(b)
  /\ gate' = s
  /\ lease' = [lease EXCEPT ![b] = "Using"]
  /\ active' = [active EXCEPT ![b] = s]
  /\ board' = [board EXCEPT ![s] = b]
  /\ UNCHANGED <<disabled, sessions, sessionVars, jobVars, wsVars, callVars, worldVars, budgetVars>>

\* create_session_inner after the claim: the session and its actor exist, the session
\* enters the map, the gate is dropped.
InsertSession(s) ==
  /\ gate = s
  /\ gate' = NoSession
  /\ sessions' = sessions \cup {s}
  /\ lifecycle' = Goto(lifecycle, s, "Active")
  /\ actor' = Goto(actor, s, "recv")
  /\ UNCHANGED <<lease, active, disabled, board, stop_requested, expired, sweeping, shutdown,
                 jobVars, wsVars, callVars, worldVars, budgetVars>>

\* External (axum): the client goes away while create_session_inner waits for a lock after the
\* claim, and the handler is dropped. The gate is free again; the session never enters the map,
\* so nobody can reach it and its actor waits for a Stop that is never sent.
CreateDropped(s) ==
  /\ gate = s
  /\ Fault
  /\ gate' = NoSession
  /\ lifecycle' = Goto(lifecycle, s, "Dropped")
  /\ UNCHANGED <<lease, active, disabled, sessions, board, stop_requested, expired, sweeping, shutdown,
                 actor, jobVars, wsVars, callVars, worldVars>>

\* heartbeat_session, and the heartbeat the WebSocket transport sends while it is open.
Heartbeat(s) ==
  /\ s \in expired
  /\ \/ s \in sessions /\ ~is_releasing(s)
     \/ ws[s] = "open"
  /\ expired' = expired \ {s}
  /\ UNCHANGED <<leaseVars, lifecycle, stop_requested, sweeping, shutdown, actor,
                 jobVars, wsVars, callVars, worldVars, budgetVars>>

\* SESSION_TTL passes without a heartbeat.
Expire(s) ==
  /\ s \in sessions \ expired
  /\ expired' = expired \cup {s}
  /\ UNCHANGED <<leaseVars, lifecycle, stop_requested, sweeping, shutdown, actor,
                 jobVars, wsVars, callVars, worldVars, budgetVars>>

\* cleanup_expired_sessions reads a snapshot of one session ...
is_sweepable(s) == s \in sessions \cap expired /\ ~is_releasing(s)

SweepSnapshot(s) ==
  /\ sweeping = NoSession
  /\ is_sweepable(s)
  /\ sweeping' = s
  /\ UNCHANGED <<leaseVars, lifecycle, stop_requested, expired, shutdown, actor,
                 jobVars, wsVars, callVars, worldVars, budgetVars>>

\* ... and stops it on what the snapshot said.
SweepStop(s) ==
  /\ sweeping = s
  /\ sweeping' = NoSession
  /\ request_stop(s)
  /\ UNCHANGED <<leaseVars, lifecycle, expired, shutdown, actor,
                 jobVars, wsVars, callVars, worldVars, budgetVars>>

\* delete_session, delete_admin_session.
DeleteSession(s) ==
  /\ s \in sessions
  /\ request_stop(s)
  /\ UNCHANGED <<leaseVars, lifecycle, expired, sweeping, shutdown, actor,
                 jobVars, wsVars, callVars, worldVars, budgetVars>>

(***************************************************************************)
(* run_session_actor: it receives one Stop.                                *)
(***************************************************************************)
\* External (tokio): watch::Sender::send stores the value only while some Receiver lives.
\* Receivers are the open WebSocket and the serial runtime.
ShutdownReceived(s) == ws[s] \in {"open", "finalizing"} \/ s \in owned

Mutant_begin_release_lost(s) == UNCHANGED lifecycle
begin_release(s) == lifecycle' = Goto(lifecycle, s, "Releasing")

\* begin_release and signal_shutdown.
ActorBegin(s) ==
  /\ actor[s] = "recv" /\ s \in stop_requested
  /\ begin_release(s)
  /\ actor' = Goto(actor, s, "begun")
  /\ shutdown' = IF ShutdownReceived(s) THEN shutdown \cup {s} ELSE shutdown
  /\ UNCHANGED <<leaseVars, stop_requested, expired, sweeping,
                 jobVars, wsVars, callVars, worldVars, budgetVars>>

\* transition_board_to_releasing: a board the session does not own is left alone.
ActorMark(s) ==
  LET b == board[s] IN
  /\ actor[s] = "begun"
  /\ actor' = Goto(actor, s, "marked")
  /\ lease' = IF lease[b] = "Using" /\ active[b] = s
                THEN [lease EXCEPT ![b] = "Releasing"] ELSE lease
  /\ UNCHANGED <<active, disabled, gate, sessions, board, lifecycle, stop_requested,
                 expired, sweeping, shutdown, jobVars, wsVars, callVars, worldVars, budgetVars>>

\* enqueue_release.
ActorEnqueue(s) ==
  /\ actor[s] = "marked"
  /\ actor' = Goto(actor, s, "done")
  /\ step' = Goto(step, s, "queued")
  /\ UNCHANGED <<leaseVars, lifecycle, stop_requested, expired, sweeping, shutdown,
                 done, failed, attempt, wsVars, callVars, worldVars, budgetVars>>

(***************************************************************************)
(* process_release_job, one task for each ReleaseJob.  A round runs the    *)
(* steps whose flag is not set; a round with an error marks the board and  *)
(* is followed by another round RELEASE_RECOVERY_RETRY_DELAY later.        *)
(***************************************************************************)
\* A step whose flag is not set yet.
Mutant_pending_always(s, x) == TRUE
pending(s, x) == x \notin done[s]

\* run_release_coordinator spawns the job.
JobStart(s) ==
  /\ step[s] = "queued"
  /\ step' = Goto(step, s, "tasks")
  /\ UNCHANGED <<leaseVars, sessionVars, done, failed, attempt, wsVars, callVars, worldVars, budgetVars>>

\* wait_for_session_tasks_to_stop sees no serial WebSocket (or the flag is set already).
JobTasks(s) ==
  /\ step[s] = "tasks"
  /\ \/ ~pending(s, "tasks") /\ step' = Goto(step, s, "power")
     \/ pending(s, "tasks") /\ s \notin serial_connected /\ step' = Goto(step, s, "owner")
  /\ UNCHANGED <<leaseVars, sessionVars, done, failed, attempt, wsVars, callVars, worldVars, budgetVars>>

\* wait_owner_released answers.
JobOwner(s) ==
  /\ step[s] = "owner" /\ s \notin owned
  /\ step' = Goto(step, s, "power")
  /\ done' = [done EXCEPT ![s] = @ \cup {"tasks"}]
  /\ UNCHANGED <<leaseVars, sessionVars, failed, attempt, wsVars, callVars, worldVars, budgetVars>>

\* RELEASE_WAIT_TIMEOUT passes in either wait.
JobTasksTimeout(s) ==
  /\ \/ step[s] = "tasks" /\ pending(s, "tasks") /\ s \in serial_connected
     \/ step[s] = "owner" /\ s \in owned
  /\ step' = Goto(step, s, "power")
  /\ failed' = failed \cup {s}
  /\ UNCHANGED <<leaseVars, sessionVars, done, attempt, wsVars, callVars, worldVars, budgetVars>>

\* attempt == RELEASE_RETRY_ATTEMPTS
attempts_left(s) == attempt[s] < RetryAttempts

\* retry_release_step: one attempt of the step `from` fails; after the last one the
\* error is recorded and the round goes on.
RetryFails(s, from, to) ==
  /\ step[s] = from /\ pending(s, from)
  /\ Fault
  /\ IF attempts_left(s)
       THEN attempt' = [attempt EXCEPT ![s] = @ + 1] /\ UNCHANGED <<step, failed>>
       ELSE /\ attempt' = [attempt EXCEPT ![s] = 1]
            /\ failed' = failed \cup {s}
            /\ step' = Goto(step, s, to)
  /\ UNCHANGED <<leaseVars, sessionVars, done, wsVars, callVars, worldVars>>

\* execute_board_power_action(Off) succeeds, or the flag board_powered_off is set.
JobPowerOff(s) ==
  /\ step[s] = "power"
  /\ step' = Goto(step, s, "settle")
  /\ attempt' = [attempt EXCEPT ![s] = 1]
  /\ IF pending(s, "power")
       THEN /\ done' = [done EXCEPT ![s] = @ \cup {"power"}]
            /\ power' = power \ {board[s]}
            /\ relit' = relit \ {board[s]}
            /\ offs' = [offs EXCEPT ![s] = @ + 1]
            /\ UNCHANGED files
       ELSE UNCHANGED <<done, worldVars>>
  /\ UNCHANGED <<leaseVars, sessionVars, failed, wsVars, callVars, budgetVars>>

JobPowerOffFails(s) == RetryFails(s, "power", "settle")

\* The relay's settle delay, waited once tasks and power are done.
JobSettle(s) ==
  /\ step[s] = "settle"
  /\ step' = Goto(step, s, "tftp")
  /\ done' = IF {"tasks", "power"} \subseteq done[s]
               THEN [done EXCEPT ![s] = @ \cup {"settle"}] ELSE done
  /\ UNCHANGED <<leaseVars, sessionVars, failed, attempt, wsVars, callVars, worldVars, budgetVars>>

\* remove_session_dir succeeds, or the flag tftp_cleaned is set.
JobCleanFiles(s) ==
  /\ step[s] = "tftp"
  /\ step' = Goto(step, s, "complete")
  /\ attempt' = [attempt EXCEPT ![s] = 1]
  /\ IF pending(s, "tftp")
       THEN /\ done' = [done EXCEPT ![s] = @ \cup {"tftp"}]
            /\ files' = files \ {s}
       ELSE UNCHANGED <<done, files>>
  /\ UNCHANGED <<leaseVars, sessionVars, failed, wsVars, callVars, power, relit, offs, budgetVars>>

JobCleanFilesFails(s) == RetryFails(s, "tftp", "complete")

Mutant_complete_anyway(s) == active[board[s]] = s /\ s \in sessions

\* complete_session_release would succeed: no error, every flag set, the board still
\* belongs to the session and the session is still in the map.
CanComplete(s) ==
  /\ s \notin failed
  /\ done[s] = ReleaseStep
  /\ active[board[s]] = s
  /\ s \in sessions

\* complete_session_release, both maps locked.
JobComplete(s) ==
  /\ step[s] = "complete" /\ CanComplete(s)
  /\ lease' = [lease EXCEPT ![board[s]] = "Idle"]
  /\ active' = [active EXCEPT ![board[s]] = NoSession]
  /\ sessions' = sessions \ {s}
  /\ step' = Goto(step, s, "done")
  /\ UNCHANGED <<disabled, gate, board, sessionVars, done, failed, attempt,
                 wsVars, callVars, worldVars, budgetVars>>

\* What follows a round with an error: RELEASE_RECOVERY_RETRY_DELAY, then another round.
Mutant_give_up(s) == Goto(step, s, "done")
next_round(s) == Goto(step, s, "tasks")

\* mark_board_error, then the next round.
JobMarkError(s) ==
  /\ step[s] = "complete" /\ ~CanComplete(s)
  /\ lease' = IF active[board[s]] = s THEN [lease EXCEPT ![board[s]] = "Error"] ELSE lease
  /\ step' = next_round(s)
  /\ failed' = failed \ {s}
  /\ UNCHANGED <<active, disabled, gate, sessions, board, sessionVars, done, attempt,
                 wsVars, callVars, worldVars, budgetVars>>

(***************************************************************************)
(* The serial WebSocket: serial_ws and run_serial_ws.                      *)
(***************************************************************************)
\* serial_ws finds the session and sees that it is not releasing ...
WsHandshake(s) ==
  /\ s \in sessions \ handshake /\ ~is_releasing(s)
  /\ Request
  /\ handshake' = handshake \cup {s}
  /\ UNCHANGED <<leaseVars, sessionVars, jobVars, serial_connected, ws, power_on_task, owned,
                 callVars, worldVars>>

\* ... then claims serial_connected, or answers 409.
WsClaim(s) ==
  /\ s \in handshake
  /\ handshake' = handshake \ {s}
  /\ IF s \in serial_connected
       THEN UNCHANGED <<serial_connected, ws>>
       ELSE /\ serial_connected' = serial_connected \cup {s}
            /\ ws' = Goto(ws, s, "upgrading")
  /\ UNCHANGED <<leaseVars, sessionVars, jobVars, power_on_task, owned, callVars, worldVars, budgetVars>>

\* External (axum): WebSocketUpgrade::on_upgrade runs its callback only when the
\* connection upgrades; when the peer is gone the callback is dropped, and with it the
\* only code that clears serial_connected.
WsUpgraded(s) ==
  /\ ws[s] = "upgrading"
  /\ ws' = Goto(ws, s, "opening")
  /\ UNCHANGED <<leaseVars, sessionVars, jobVars, serial_connected, handshake, power_on_task,
                 owned, callVars, worldVars, budgetVars>>

WsUpgradeFails(s) ==
  /\ ws[s] = "upgrading"
  /\ Fault
  /\ ws' = Goto(ws, s, "none")
  /\ UNCHANGED <<leaseVars, sessionVars, jobVars, serial_connected, handshake, power_on_task,
                 owned, callVars, worldVars>>

\* The serial port opens (or the runtime attaches) and the power-on task is spawned.
WsOpened(s) ==
  /\ ws[s] = "opening"
  /\ ws' = Goto(ws, s, "open")
  /\ power_on_task' = power_on_task \cup {s}
  /\ UNCHANGED <<leaseVars, sessionVars, jobVars, serial_connected, handshake, owned,
                 callVars, worldVars, budgetVars>>

WsOpenFails(s) ==
  /\ ws[s] = "opening"
  /\ Fault
  /\ ws' = Goto(ws, s, "stopping")
  /\ UNCHANGED <<leaseVars, sessionVars, jobVars, serial_connected, handshake, power_on_task,
                 owned, callVars, worldVars>>

\* The power-on task completes.
PowerOnTask(s) ==
  /\ s \in power_on_task
  /\ power_on_task' = power_on_task \ {s}
  /\ PowerEffect(s, TRUE)
  /\ UNCHANGED <<leaseVars, sessionVars, jobVars, serial_connected, handshake, ws, owned,
                 callVars, budgetVars>>

\* The power-on task fails, which ends the transport if it still runs.
PowerOnTaskFails(s) ==
  /\ s \in power_on_task
  /\ Fault
  /\ power_on_task' = power_on_task \ {s}
  /\ ws' = IF ws[s] = "open" THEN Goto(ws, s, "finalizing") ELSE ws
  /\ UNCHANGED <<leaseVars, sessionVars, jobVars, serial_connected, handshake, owned,
                 callVars, worldVars>>

\* The select of run_serial_ws_inner ends: the peer closes or the transport fails ...
WsTransportEnds(s) ==
  /\ ws[s] = "open"
  /\ ws' = Goto(ws, s, "finalizing")
  /\ UNCHANGED <<leaseVars, sessionVars, jobVars, serial_connected, handshake, power_on_task,
                 owned, callVars, worldVars, budgetVars>>

\* ... or the session signals shutdown.
WsShutdown(s) == s \in shutdown /\ WsTransportEnds(s)

\* finalize_power_linked_session has awaited the power-on task; the port is closed.
WsFinalized(s) ==
  /\ ws[s] = "finalizing" /\ s \notin power_on_task
  /\ ws' = Goto(ws, s, "stopping")
  /\ UNCHANGED <<leaseVars, sessionVars, jobVars, serial_connected, handshake, power_on_task,
                 owned, callVars, worldVars, budgetVars>>

\* run_serial_ws: request_session_stop (when the session is still in the map) ...
WsStop(s) ==
  /\ ws[s] = "stopping"
  /\ ws' = Goto(ws, s, "clearing")
  /\ IF s \in sessions THEN request_stop(s) ELSE UNCHANGED stop_requested
  /\ UNCHANGED <<leaseVars, lifecycle, expired, sweeping, shutdown, actor, jobVars, serial_connected,
                 handshake, power_on_task, owned, callVars, worldVars, budgetVars>>

clear_serial_connected(s) == serial_connected' = serial_connected \ {s}

\* ... then clear_serial_connected.
WsClear(s) ==
  /\ ws[s] = "clearing"
  /\ ws' = Goto(ws, s, "none")
  /\ clear_serial_connected(s)
  /\ UNCHANGED <<leaseVars, sessionVars, jobVars, handshake, power_on_task, owned,
                 callVars, worldVars, budgetVars>>

\* The serial runtime of an automatic board binds a port while the WebSocket is open
\* and gives its lease back after the stream has closed.
OwnerBinds(s) ==
  /\ ws[s] = "open" /\ board[s] \in Automatic /\ s \notin owned
  /\ owned' = owned \cup {s}
  /\ UNCHANGED <<leaseVars, sessionVars, jobVars, serial_connected, handshake, ws, power_on_task,
                 callVars, worldVars, budgetVars>>

OwnerReleases(s) ==
  /\ ws[s] # "open" /\ s \in owned
  /\ owned' = owned \ {s}
  /\ UNCHANGED <<leaseVars, sessionVars, jobVars, serial_connected, handshake, ws, power_on_task,
                 callVars, worldVars, budgetVars>>

(***************************************************************************)
(* API handlers that check the session first and act later.                *)
(***************************************************************************)
\* run_board_power_action up to its check; the action runs after further awaits.
PowerCallChecked(s, a) ==
  /\ s \in sessions /\ ~is_releasing(s) /\ power_call[s] = "none"
  /\ Request
  /\ power_call' = [power_call EXCEPT ![s] = a]
  /\ UNCHANGED <<leaseVars, sessionVars, jobVars, wsVars, file_call, admin, worldVars>>

PowerCallRuns(s) ==
  /\ power_call[s] # "none"
  /\ power_call' = [power_call EXCEPT ![s] = "none"]
  /\ PowerEffect(s, power_call[s] = "on")
  /\ UNCHANGED <<leaseVars, sessionVars, jobVars, wsVars, file_call, admin, budgetVars>>

\* The action fails, or the client goes away and the handler is dropped before it acts.
PowerCallFails(s) ==
  /\ power_call[s] # "none"
  /\ power_call' = [power_call EXCEPT ![s] = "none"]
  /\ UNCHANGED <<leaseVars, sessionVars, jobVars, wsVars, file_call, admin, worldVars, budgetVars>>

\* active_session_state_or_404 and its copies in the file handlers.
IsActive(s) == s \in sessions /\ ~is_releasing(s) /\ s \notin stop_requested

\* put_session_file, put_http_boot_file, put_http_boot_kernel and delete_session_file up to
\* their check; get_session_dtb, which copies the preset DTB, checks only that the session exists.
FileCallChecked(s, c) ==
  /\ file_call[s] = "none"
  /\ IsActive(s) \/ (c = "put" /\ s \in sessions)
  /\ Request
  /\ file_call' = [file_call EXCEPT ![s] = c]
  /\ UNCHANGED <<leaseVars, sessionVars, jobVars, wsVars, power_call, admin, worldVars>>

\* The body has arrived: the file is written or removed. A kernel upload takes
\* boot_operation first and checks the session a second time.
FileCallRuns(s) ==
  /\ file_call[s] # "none"
  /\ file_call' = [file_call EXCEPT ![s] = IF @ = "kernel" /\ IsActive(s) THEN "put" ELSE "none"]
  /\ files' = CASE file_call[s] = "put" -> files \cup {s}
                [] file_call[s] = "delete" -> files \ {s}
                [] OTHER -> files
  /\ UNCHANGED <<leaseVars, sessionVars, jobVars, wsVars, power_call, admin, power, relit, offs, budgetVars>>

\* The body breaks off, the file operation fails, or the client goes away: nothing is written.
FileCallFails(s) ==
  /\ file_call[s] # "none"
  /\ file_call' = [file_call EXCEPT ![s] = "none"]
  /\ UNCHANGED <<leaseVars, sessionVars, jobVars, wsVars, power_call, admin, worldVars, budgetVars>>

\* put_http_boot_kernel: an image of the wrong architecture stops the session.
KernelRejected(s) ==
  /\ file_call[s] = "kernel"
  /\ file_call' = [file_call EXCEPT ![s] = "none"]
  /\ request_stop(s)
  /\ UNCHANGED <<leaseVars, lifecycle, expired, sweeping, shutdown, actor, jobVars, wsVars,
                 power_call, admin, worldVars, budgetVars>>

\* admin_power::create: under the inventory gate, a resource of a board that is not Idle
\* or that is busy is refused.
AdminPowerCreate(b, a) ==
  /\ gate = NoSession
  /\ lease[b] = "Idle" /\ admin[b] = "none"
  /\ Request
  /\ admin' = [admin EXCEPT ![b] = a]
  /\ UNCHANGED <<leaseVars, sessionVars, jobVars, wsVars, power_call, file_call, worldVars>>

\* The spawned action succeeds and frees the resource.
AdminPowerRuns(b) ==
  /\ admin[b] # "none"
  /\ admin' = [admin EXCEPT ![b] = "none"]
  /\ power' = IF admin[b] = "on" THEN power \cup {b} ELSE power \ {b}
  /\ relit' = IF admin[b] = "on" THEN relit \cup {b} ELSE relit
  /\ UNCHANGED <<leaseVars, sessionVars, jobVars, wsVars, power_call, file_call, files, offs, budgetVars>>

AdminPowerFails(b) ==
  /\ admin[b] # "none"
  /\ Fault
  /\ admin' = [admin EXCEPT ![b] = "none"]
  /\ UNCHANGED <<leaseVars, sessionVars, jobVars, wsVars, power_call, file_call, worldVars>>

\* power_off_all_boards_on_startup: the boards that could not be switched off are disabled.
Mutant_startup_ignores(B) == {}
disabled_at_startup(B) == B

(***************************************************************************)
(* The process stops and starts again: memory is lost, files and board     *)
(* power are not. power_off_all_boards_on_startup runs before any request  *)
(* is served and disables the boards B it cannot switch off.               *)
(***************************************************************************)
Restart(B) ==
  /\ restarts < MaxRestarts
  /\ restarts' = restarts + 1
  /\ B # {} => faults < MaxFaults
  /\ faults' = IF B = {} THEN faults ELSE faults + 1
  /\ lease' = [b \in Boards |-> "Idle"]
  /\ active' = [b \in Boards |-> NoSession]
  /\ disabled' = disabled_at_startup(B)
  /\ gate' = NoSession
  /\ sessions' = {}
  /\ lifecycle' = [s \in Sessions |-> IF lifecycle[s] = "Unborn" /\ gate # s THEN "Unborn" ELSE "Lost"]
  /\ stop_requested' = {}
  /\ expired' = {}
  /\ sweeping' = NoSession
  /\ shutdown' = {}
  /\ actor' = [s \in Sessions |-> "none"]
  /\ step' = [s \in Sessions |-> "none"]
  /\ done' = [s \in Sessions |-> {}]
  /\ failed' = {}
  /\ attempt' = [s \in Sessions |-> 1]
  /\ serial_connected' = {}
  /\ handshake' = {}
  /\ ws' = [s \in Sessions |-> "none"]
  /\ power_on_task' = {}
  /\ owned' = {}
  /\ power_call' = [s \in Sessions |-> "none"]
  /\ file_call' = [s \in Sessions |-> "none"]
  /\ admin' = [b \in Boards |-> "none"]
  /\ power' = power \cap B
  /\ relit' = {}
  /\ offs' = [s \in Sessions |-> 0]
  /\ UNCHANGED <<board, files, requests>>

SessionStep(s) ==
  \/ \E b \in Boards : ClaimBoard(s, b)
  \/ InsertSession(s) \/ CreateDropped(s) \/ Heartbeat(s) \/ Expire(s)
  \/ SweepSnapshot(s) \/ SweepStop(s) \/ DeleteSession(s)

ActorStep(s) == ActorBegin(s) \/ ActorMark(s) \/ ActorEnqueue(s)

JobStep(s) ==
  \/ JobStart(s) \/ JobTasks(s) \/ JobOwner(s) \/ JobTasksTimeout(s)
  \/ JobPowerOff(s) \/ JobPowerOffFails(s) \/ JobSettle(s)
  \/ JobCleanFiles(s) \/ JobCleanFilesFails(s) \/ JobComplete(s) \/ JobMarkError(s)

WsStep(s) ==
  \/ WsHandshake(s) \/ WsClaim(s) \/ WsUpgraded(s) \/ WsUpgradeFails(s)
  \/ WsOpened(s) \/ WsOpenFails(s) \/ PowerOnTask(s) \/ PowerOnTaskFails(s)
  \/ WsTransportEnds(s) \/ WsFinalized(s) \/ WsStop(s) \/ WsClear(s)
  \/ OwnerBinds(s) \/ OwnerReleases(s)

CallStep(s) ==
  \/ \E a \in {"on", "off"} : PowerCallChecked(s, a)
  \/ PowerCallRuns(s) \/ PowerCallFails(s)
  \/ \E c \in {"put", "kernel", "delete"} : FileCallChecked(s, c)
  \/ FileCallRuns(s) \/ FileCallFails(s) \/ KernelRejected(s)

AdminStep(b) ==
  \/ \E a \in {"on", "off"} : AdminPowerCreate(b, a)
  \/ AdminPowerRuns(b) \/ AdminPowerFails(b)

Next ==
  \/ \E s \in Sessions : SessionStep(s) \/ ActorStep(s) \/ JobStep(s) \/ WsStep(s) \/ CallStep(s)
  \/ \E b \in Boards : AdminStep(b)
  \/ \E B \in SUBSET Boards : Restart(B)

Spec == Init /\ [][Next]_vars

(***************************************************************************)
(* Fairness. Every task the runtime has spawned keeps running: the actor,  *)
(* the release job (its attempts end, well or badly), the WebSocket task   *)
(* once its peer or the shutdown signal ends it, the power-on task and the *)
(* sweeper, which visits every session once a second. Clients owe nothing. *)
(***************************************************************************)
Fairness ==
  /\ \A s \in Sessions :
       /\ WF_vars(InsertSession(s) \/ CreateDropped(s))
       /\ WF_vars(ActorStep(s))
       /\ WF_vars(JobStep(s))
       /\ WF_vars(WsClaim(s)) /\ WF_vars(WsUpgraded(s) \/ WsUpgradeFails(s))
       /\ WF_vars(WsOpened(s) \/ WsOpenFails(s))
       /\ WF_vars(PowerOnTask(s) \/ PowerOnTaskFails(s))
       /\ WF_vars(WsShutdown(s)) /\ WF_vars(WsFinalized(s))
       /\ WF_vars(WsStop(s)) /\ WF_vars(WsClear(s)) /\ WF_vars(OwnerReleases(s))
       /\ SF_vars(SweepSnapshot(s)) /\ WF_vars(SweepStop(s))

LiveSpec == Spec /\ Fairness

-----------------------------------------------------------------------------
(***************************************************************************)
(* Safety.                                                                 *)
(***************************************************************************)
\* A session in the map owns its board: no claim, release, late error mark or restart
\* gives a board two sessions or leaves a session with a board that names another one
\* (claim_board_for_session, complete_session_release, mark_board_error).
ExclusiveLease ==
  /\ \A s \in sessions : active[board[s]] = s
  /\ \A s, t \in sessions : board[s] = board[t] => s = t

\* The create_session that claimed board b was dropped before it inserted its session.
Stranded(b) == active[b] \in Sessions /\ lifecycle[active[b]] = "Dropped"

\* A board that is not Idle names a session that will give it back: one being created,
\* one in the map whose actor still waits for its Stop, or one whose actor or release job
\* is still running. No interleaving of stop requests leaves a board leased by nobody; only a
\* create_session dropped after its claim does, and such a board stays Using, switched off unless
\* a late action re-lit it before the claim, until the process restarts.
NoOrphanedLease ==
  \A b \in Boards : lease[b] # "Idle" =>
    LET s == active[b] IN
    /\ s \in Sessions
    /\ \/ gate = s
       \/ s \in sessions /\ (actor[s] # "done" \/ step[s] \notin {"none", "done"})
       \/ Stranded(b) /\ lease[b] = "Using" /\ (b \in power \ disabled => b \in relit)

\* The coordinator powers a board off once per release, however many stop requests, retries
\* and recovery rounds there are, and a session leaves the map only after that power-off.
PowerOffOnce ==
  \A s \in Sessions :
    /\ offs[s] <= 1
    /\ is_releasing(s) /\ s \notin sessions => offs[s] = 1

\* admin_power never drives the power resource of a leased board: create refuses boards that
\* are not Idle, and create_session_inner passes over boards whose resource is busy.
AdminPowerExcludesLease ==
  \A b \in Boards : admin[b] # "none" => lease[b] = "Idle"

\* A board offered for allocation is off unless something switched it on after the power-off
\* of its last release; after a restart too, because a board that could not be switched off
\* at start-up is disabled.
AllocatableBoardIsOff ==
  \A b \in Boards : lease[b] = "Idle" /\ b \in power \ disabled => b \in relit

\* Every board a session was given comes back, switched off: its holder is there to give it back,
\* and it is off when it is offered again (begin_release, run_release_round, the disabling at
\* start-up); the board of a dropped create_session does not come back, but is off too.
BoardsComeBackOff == NoOrphanedLease /\ AllocatableBoardIsOff

(***************************************************************************)
(* The inductive invariant behind these: who may hold, act on and give     *)
(* back a board, in terms of where the actor and the release job are.      *)
(***************************************************************************)
\* A board's runtime entry and the session it names agree.
BoardNamesHolder ==
  \A b \in Boards :
    /\ lease[b] = "Idle" <=> active[b] = NoSession
    /\ active[b] # NoSession =>
         /\ board[active[b]] = b
         /\ active[b] \in sessions \/ gate = active[b] \/ (Stranded(b) /\ lease[b] = "Using")

\* A session being created or in the map is the one its board names.
SessionOwnsBoard ==
  \A s \in Sessions :
    /\ s \in sessions \/ gate = s => board[s] \in Boards /\ active[board[s]] = s
    /\ gate = s => lifecycle[s] = "Unborn" /\ lease[board[s]] = "Using"
    /\ actor[s] # "none" => board[s] \in Boards

\* The actor, the release job and the map move in step.
ReleaseFollowsActor ==
  \A s \in Sessions :
    /\ actor[s] = "none" <=> lifecycle[s] \in {"Unborn", "Dropped", "Lost"}
    /\ actor[s] = "recv" <=> lifecycle[s] = "Active"
    /\ actor[s] = "done" <=> step[s] # "none"
    /\ s \in sessions <=> actor[s] # "none" /\ step[s] # "done"
    /\ done[s] # {} => step[s] \notin {"none", "queued"}
    /\ step[s] = "done" => done[s] = ReleaseStep
    /\ offs[s] = IF "power" \in done[s] THEN 1 ELSE 0

\* Only a session that exists or existed has requests in flight.
CallsHaveSessions ==
  \A s \in Sessions :
    actor[s] = "none" => /\ s \notin handshake /\ ws[s] = "none"
                         /\ s \notin power_on_task /\ power_call[s] = "none"

\* A powered, enabled board that nothing re-lit has a session in the map that has yet to power it off.
PowerHasHolder ==
  \A b \in Boards :
    b \in power \ (relit \cup disabled) =>
      active[b] \in sessions /\ "power" \notin done[active[b]]

LeaseInv ==
  /\ TypeOK
  /\ BoardNamesHolder
  /\ SessionOwnsBoard
  /\ ReleaseFollowsActor
  /\ CallsHaveSessions
  /\ PowerHasHolder
  /\ AdminPowerExcludesLease

\* A step that ends the lease of a board, other than a restart, makes it Idle, removes its
\* session from the map and follows the success of all four release steps.
FreesOnlyReleasedBoards ==
  \A b \in Boards :
    active'[b] # active[b] /\ active[b] # NoSession /\ restarts' = restarts =>
      /\ active'[b] = NoSession /\ lease'[b] = "Idle"
      /\ active[b] \in sessions /\ active[b] \notin sessions'
      /\ done[active[b]] = ReleaseStep

\* A board changes hands only through Idle, and becomes Idle only in the step that removes
\* its session from the map, after tasks, power, settle and tftp have all succeeded.
ReleaseIsComplete == [][FreesOnlyReleasedBoards]_vars

\* The lease core implements the lease service.
Service == INSTANCE LeaseService WITH
  holder <- active,
  granted <- {s \in Sessions : lifecycle[s] # "Unborn" \/ gate = s},
  closing <- {s \in Sessions : is_releasing(s)}

ImplementsLeaseService == Service!Spec

-----------------------------------------------------------------------------
(***************************************************************************)
(* Liveness.                                                               *)
(***************************************************************************)
\* The WebSocket path has ended, or will not end on its own: the callback of a failed
\* upgrade never ran, or the shutdown signal was sent while nobody was listening.
Abandoned(s) ==
  \/ s \in serial_connected /\ ws[s] = "none"
  \/ is_releasing(s) /\ s \notin shutdown /\ ws[s] = "open"

\* A session told to stop leaves the map after finitely many faults, unless its WebSocket is
\* abandoned: retries, recovery rounds and timeouts never lose the release.
StopLeadsToRelease ==
  \A s \in Sessions : s \in stop_requested ~> (s \notin sessions \/ Abandoned(s))

\* The sweeper stops every session whose client stays silent.
SilentSessionIsStopped ==
  \A s \in Sessions : s \in sessions \cap expired ~> (s \notin expired \cap sessions \/ s \in stop_requested)

\* Every session ends: its silence stops it, and what stops it releases its board.
SessionsEnd == StopLeadsToRelease /\ SilentSessionIsStopped
=============================================================================
