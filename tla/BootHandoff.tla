---------------------------- MODULE BootHandoff ----------------------------
(***************************************************************************)
(* Booting an axloader board under a session: the session's serial runtime *)
(* (serial/runtime.rs), the reconciliation that each device announcement   *)
(* starts (device.rs, loader.rs) and the power calls that cancel both      *)
(* (session.rs, state.rs).                                                 *)
(*                                                                         *)
(* A boot of the device is a number: its boot_epoch, and its serial_id. A  *)
(* binding id is the number of the attempt that made it. The device is     *)
(* external: it checks the X-Boot-Epoch and X-Serial-Binding headers. So   *)
(* is SerialManager::bind, which answers with a lease on the port that     *)
(* showed the serial_id, or with a recoverable error. Timers are free: a   *)
(* deadline may pass at any tick.                                          *)
(*                                                                         *)
(* An operator named Mutant_... is the definition after it with a          *)
(* plausible bug; nothing uses it but the test that a property notices.    *)
(***************************************************************************)
EXTENDS Naturals, Sequences, FiniteSets

CONSTANTS
  MaxHandoffs,   \* bound: device announcements that start a reconciliation
  MaxPowers,     \* bound: power calls
  MaxReboots,    \* bound: boots the device starts on its own
  MaxStarts,     \* bound: power calls and boots of its own together
  MaxFaults      \* bound: lost replies, IO errors and refused reports

ASSUME BoundsAssumption ==
  /\ MaxHandoffs \in Nat /\ MaxPowers \in Nat /\ MaxReboots \in Nat
  /\ MaxStarts \in Nat /\ MaxFaults \in Nat

Handoffs == 1..MaxHandoffs
Powers == 1..MaxPowers

VARIABLES
  \* the device
  powered,         \* it has power
  boot,            \* its current boot
  grant,           \* binding accepted by POST serial/continue, or 0
  kernel,          \* binding under which the kernel was started, or 0
  \* the session
  generation,      \* SessionState.boot_generation
  stop_requested,  \* SessionState.stop_requested
  shutdown,        \* the shutdown channel holds true
  lock,            \* boot_operation: the reconciliation that holds it, or 0
  \* reconciliations
  hpc,             \* device::reconcile: where it is
  hboot,           \* boot it observed
  hseen,           \* binding the observed status reported, or 0
  hgen,            \* boot generation it subscribed to
  hbinding,        \* binding id that bind() returned
  aborted,         \* those the announcement listener has aborted
  posts,           \* reconciliations whose POST serial/continue is in flight
  revokes,         \* DELETE requests in flight, sent by dropped SerialGrants
  \* power calls
  ppc,             \* execute_board_power_action: where it is
  pon,             \* the call switches on
  \* SessionSerialRuntime
  running,         \* run_owner is running
  queue,           \* its commands
  lease,           \* it has a SerialLease
  opening,         \* boot whose bind future it polls, or 0
  current,         \* its BindingAttempt, or NoAttempt
  attempts,        \* its generation
  verifying,       \* verifying_until is set
  power_wait,      \* power_wait
  phase,           \* SerialRuntimeStatus.phase
  status_boot,     \* SerialRuntimeStatus.boot_epoch, or 0
  status_binding,  \* SerialRuntimeStatus.binding_id, or 0
  retired,         \* retired_epoch, or 0
  proven,          \* history: bindings whose identity was read on their port, with the boot read
  faults, reboots  \* consumed budgets

deviceVars == <<powered, boot, grant, kernel>>
sessionVars == <<generation, stop_requested, shutdown>>
taskVars == <<hboot, hseen, hgen>>
handoffVars == <<lock, hpc, taskVars, hbinding, aborted, posts, revokes>>
powerVars == <<ppc, pon>>
statusVars == <<phase, status_boot, status_binding>>
attemptVars == <<opening, current, attempts, verifying>>
runtimeVars == <<running, queue, lease, attemptVars, power_wait, statusVars, retired, proven>>
budgetVars == <<faults, reboots>>
vars == <<deviceVars, sessionVars, handoffVars, powerVars, runtimeVars, budgetVars>>

HandoffPhase == {"idle", "observed", "queued", "checked", "revoking", "clean", "binding", "bound",
                 "continuing", "continued", "confirming", "confirmed", "done"}
\* Where a reconciliation has a SerialGrant that is armed.
Armed == {"continuing", "continued", "confirming", "confirmed"}
SerialRuntimePhase == {"WaitingDevice", "Verifying", "Discovering", "Bound", "Recovering", "Failed", "Closed"}
NoAttempt == [boot |-> 0, binding |-> 0, caller |-> 0, replied |-> FALSE]
BindingAttempt == [boot : Nat, binding : Nat, caller : Nat, replied : BOOLEAN]
Command == [kind : {"Bind", "Confirm", "Fail"}, who : Handoffs] \cup [kind : {"Restart"}, who : Powers]

DeviceTypes == powered \in BOOLEAN /\ boot \in Nat /\ grant \in Nat /\ kernel \in Nat
SessionTypes == generation \in Nat /\ stop_requested \in BOOLEAN /\ shutdown \in BOOLEAN
HandoffTypes ==
  /\ lock \in Handoffs \cup {0}
  /\ hpc \in [Handoffs -> HandoffPhase]
  /\ hboot \in [Handoffs -> Nat] /\ hseen \in [Handoffs -> Nat]
  /\ hgen \in [Handoffs -> Nat] /\ hbinding \in [Handoffs -> Nat]
  /\ aborted \in SUBSET Handoffs /\ posts \in SUBSET Handoffs
  /\ revokes \in SUBSET [boot : Nat, binding : Nat]
PowerTypes ==
  /\ ppc \in [Powers -> {"idle", "bumped", "sent", "act", "done"}]
  /\ pon \in [Powers -> BOOLEAN]
StatusTypes == phase \in SerialRuntimePhase /\ status_boot \in Nat /\ status_binding \in Nat
RuntimeTypes ==
  /\ running \in BOOLEAN /\ queue \in Seq(Command) /\ lease \in BOOLEAN
  /\ opening \in Nat /\ current \in BindingAttempt /\ attempts \in Nat
  /\ verifying \in BOOLEAN /\ power_wait \in BOOLEAN /\ retired \in Nat
  /\ proven \in SUBSET [boot : Nat, binding : Nat]
BudgetTypes == faults \in Nat /\ reboots \in Nat

\* Every variable holds a value of its type.
TypeOK ==
  DeviceTypes /\ SessionTypes /\ HandoffTypes /\ PowerTypes /\ StatusTypes /\ RuntimeTypes /\ BudgetTypes

\* The WebSocket has attached the runtime; the board is off.
Init ==
  /\ powered = FALSE /\ boot = 0 /\ grant = 0 /\ kernel = 0
  /\ generation = 0 /\ stop_requested = FALSE /\ shutdown = FALSE
  /\ lock = 0
  /\ hpc = [h \in Handoffs |-> "idle"]
  /\ hboot = [h \in Handoffs |-> 0] /\ hseen = [h \in Handoffs |-> 0]
  /\ hgen = [h \in Handoffs |-> 0] /\ hbinding = [h \in Handoffs |-> 0]
  /\ aborted = {} /\ posts = {} /\ revokes = {}
  /\ ppc = [p \in Powers |-> "idle"] /\ pon = [p \in Powers |-> FALSE]
  /\ running = TRUE /\ queue = <<>> /\ lease = FALSE
  /\ opening = 0 /\ current = NoAttempt /\ attempts = 0
  /\ verifying = FALSE /\ power_wait = TRUE
  /\ phase = "WaitingDevice" /\ status_boot = 0 /\ status_binding = 0
  /\ retired = 0 /\ proven = {}
  /\ faults = 0 /\ reboots = 0

Fault == faults < MaxFaults /\ faults' = faults + 1 /\ UNCHANGED reboots
RoomToStart == Cardinality({p \in Powers : ppc[p] # "idle"}) + reboots < MaxStarts

(***************************************************************************)
(* The device, as the server's requests use it.                            *)
(***************************************************************************)
\* It runs the loader of the boot that a request names.
InLoader(b) == powered /\ kernel = 0 /\ boot = b

DeviceReboots ==
  /\ powered /\ reboots < MaxReboots /\ RoomToStart
  /\ reboots' = reboots + 1
  /\ boot' = boot + 1 /\ grant' = 0 /\ kernel' = 0
  /\ UNCHANGED <<powered, sessionVars, handoffVars, powerVars, runtimeVars, faults>>

\* DELETE serial/bindings arrives: it takes back the matching grant of the current boot.
Revoked(m) ==
  /\ m \in revokes
  /\ revokes' = revokes \ {m}
  /\ grant' = IF InLoader(m.boot) /\ grant = m.binding THEN 0 ELSE grant
  /\ UNCHANGED <<powered, boot, kernel, sessionVars, lock, hpc, taskVars, hbinding, aborted, posts,
                 powerVars, runtimeVars, budgetVars>>

(***************************************************************************)
(* Power calls: execute_board_power_action and change_power.               *)
(***************************************************************************)
\* change_power: the boot generation moves on ...
PowerBegins(p, on) ==
  /\ ppc[p] = "idle" /\ \A q \in 1..(p - 1) : ppc[q] # "idle"
  /\ RoomToStart
  /\ ppc' = [ppc EXCEPT ![p] = "bumped"]
  /\ pon' = [pon EXCEPT ![p] = on]
  /\ generation' = generation + 1
  /\ UNCHANGED <<deviceVars, stop_requested, shutdown, handoffVars, runtimeVars, budgetVars>>

\* ... then restart() retires the boot it knows of and sends Restart.
PowerRetires(p) ==
  /\ ppc[p] = "bumped"
  /\ ppc' = [ppc EXCEPT ![p] = IF running THEN "sent" ELSE "act"]
  /\ retired' = IF status_boot # 0 THEN status_boot ELSE retired
  /\ queue' = IF running THEN Append(queue, [kind |-> "Restart", who |-> p]) ELSE queue
  /\ UNCHANGED <<deviceVars, sessionVars, handoffVars, pon, running, lease, attemptVars, power_wait,
                 statusVars, proven, budgetVars>>

\* The runtime ended before it answered.
PowerUnanswered(p) ==
  /\ ppc[p] = "sent" /\ ~running
  /\ ppc' = [ppc EXCEPT ![p] = "act"]
  /\ UNCHANGED <<deviceVars, sessionVars, handoffVars, pon, runtimeVars, budgetVars>>

\* The relay, script or virtual board acts.
PowerActs(p) ==
  /\ ppc[p] = "act"
  /\ ppc' = [ppc EXCEPT ![p] = "done"]
  /\ powered' = pon[p]
  /\ boot' = IF pon[p] /\ ~powered THEN boot + 1 ELSE boot
  /\ grant' = IF pon[p] /\ powered THEN grant ELSE 0
  /\ kernel' = IF pon[p] /\ powered THEN kernel ELSE 0
  /\ UNCHANGED <<sessionVars, handoffVars, pon, runtimeVars, budgetVars>>

\* The client closes the session or it expires; the release signals shutdown.
StopRequested ==
  /\ ~stop_requested
  /\ stop_requested' = TRUE
  /\ UNCHANGED <<deviceVars, generation, shutdown, handoffVars, powerVars, runtimeVars, budgetVars>>

ShutdownSignalled ==
  /\ stop_requested /\ ~shutdown
  /\ shutdown' = TRUE
  /\ UNCHANGED <<deviceVars, generation, stop_requested, handoffVars, powerVars, runtimeVars, budgetVars>>

(***************************************************************************)
(* Reconciliations: serve_udp_discovery starts one per announcement of a   *)
(* boot that has none, and aborts the one of an earlier boot.              *)
(***************************************************************************)
Unfinished == {h \in Handoffs : hpc[h] \notin {"idle", "done"}}

\* One poll of the task: nothing has cancelled it when the poll begins.
Runs(h) ==
  /\ h \notin aborted
  /\ hpc[h] \notin {"idle", "observed"} => hgen[h] = generation /\ ~shutdown

Mutant_keep_guard(h) ==
  /\ hpc' = [hpc EXCEPT ![h] = "done"]
  /\ UNCHANGED lock
  /\ revokes' = IF hpc[h] \in Armed
                THEN revokes \cup {[boot |-> hboot[h], binding |-> hbinding[h]]}
                ELSE revokes

\* A task that ends drops its guard and, where it is armed, its SerialGrant.
Ends(h) ==
  /\ hpc' = [hpc EXCEPT ![h] = "done"]
  /\ lock' = IF lock = h THEN 0 ELSE lock
  /\ revokes' = IF hpc[h] \in Armed
                THEN revokes \cup {[boot |-> hboot[h], binding |-> hbinding[h]]}
                ELSE revokes

\* The task goes from one point to the next, with its guard.
Goes(h, from, to) ==
  /\ Runs(h)
  /\ hpc[h] = from
  /\ hpc' = [hpc EXCEPT ![h] = to]
  /\ UNCHANGED <<lock, revokes>>

\* The announcement and GET status: the device reports its boot and its binding.
HandoffObserve(h) ==
  /\ hpc[h] = "idle" /\ \A k \in 1..(h - 1) : hpc[k] # "idle"
  /\ powered /\ kernel = 0
  /\ \A k \in Unfinished \ aborted : hboot[k] # boot
  /\ hpc' = [hpc EXCEPT ![h] = "observed"]
  /\ hboot' = [hboot EXCEPT ![h] = boot]
  /\ hseen' = [hseen EXCEPT ![h] = grant]
  /\ aborted' = aborted \cup Unfinished
  /\ UNCHANGED <<deviceVars, sessionVars, lock, hgen, hbinding, posts, revokes, powerVars, runtimeVars,
                 budgetVars>>

\* A datagram of an earlier boot arrives late: its status does not match, but the listener has
\* aborted the task that was running.
StaleAnnouncement ==
  /\ Fault
  /\ \E h \in Unfinished : hboot[h] > 1
  /\ aborted' = aborted \cup Unfinished
  /\ UNCHANGED <<deviceVars, sessionVars, lock, hpc, taskVars, hbinding, posts, revokes, powerVars,
                 runtimeVars>>

\* After the registry and the OTA decision: subscribe_boot_generation and subscribe_shutdown.
HandoffSubscribe(h) ==
  /\ Goes(h, "observed", "queued")
  /\ hgen' = [hgen EXCEPT ![h] = generation]
  /\ UNCHANGED <<deviceVars, sessionVars, hboot, hseen, hbinding, aborted, posts, powerVars, runtimeVars,
                 budgetVars>>

\* It has boot_operation and checks that the session still wants this boot.
HandoffLocked(h) ==
  /\ Runs(h)
  /\ hpc[h] = "queued" /\ lock = 0
  /\ IF stop_requested \/ ~running \/ retired = hboot[h]
     THEN Ends(h)
     ELSE hpc' = [hpc EXCEPT ![h] = "checked"] /\ lock' = h /\ UNCHANGED revokes
  /\ UNCHANGED <<deviceVars, sessionVars, taskVars, hbinding, aborted, posts, powerVars, runtimeVars,
                 budgetVars>>

(***************************************************************************)
(* The status of the runtime: publish and update_status. A failure stays.  *)
(***************************************************************************)
Mutant_publish_over_failure(new, epoch, binding) ==
  phase' = new /\ status_boot' = epoch /\ status_binding' = binding

Publish(new, epoch, binding) ==
  IF phase = "Failed" THEN UNCHANGED statusVars
  ELSE phase' = new /\ status_boot' = epoch /\ status_binding' = binding

\* The kernel does not fit the device: fail() marks the status and tells the runtime.
HandoffPreflightFails(h) ==
  /\ Fault
  /\ Runs(h) /\ hpc[h] = "checked"
  /\ Ends(h)
  /\ Publish("Failed", status_boot, status_binding)
  /\ queue' = IF running THEN Append(queue, [kind |-> "Fail", who |-> h]) ELSE queue
  /\ UNCHANGED <<deviceVars, sessionVars, taskVars, hbinding, aborted, posts, powerVars, running, lease,
                 attemptVars, power_wait, retired, proven>>

\* A binding that the runtime does not vouch for has to go first.
HandoffDecides(h) ==
  /\ Goes(h, "checked", IF hseen[h] # 0 /\ (status_binding # hseen[h] \/ phase = "Recovering")
                         THEN "revoking" ELSE "clean")
  /\ UNCHANGED <<deviceVars, sessionVars, taskVars, hbinding, aborted, posts, powerVars, runtimeVars,
                 budgetVars>>

\* DELETE serial/bindings, whose answer must be 200.
HandoffRevokes(h) ==
  /\ Runs(h) /\ hpc[h] = "revoking"
  /\ IF InLoader(hboot[h]) /\ grant = hseen[h]
     THEN grant' = 0 /\ hpc' = [hpc EXCEPT ![h] = "clean"] /\ UNCHANGED <<lock, revokes>>
     ELSE Ends(h) /\ UNCHANGED grant
  /\ UNCHANGED <<powered, boot, kernel, sessionVars, taskVars, hbinding, aborted, posts, powerVars,
                 runtimeVars, budgetVars>>

\* bind() sends Bind and waits.
HandoffBind(h) ==
  /\ Runs(h) /\ hpc[h] = "clean"
  /\ IF running
     THEN /\ queue' = Append(queue, [kind |-> "Bind", who |-> h])
          /\ hpc' = [hpc EXCEPT ![h] = "binding"]
          /\ UNCHANGED <<lock, revokes>>
     ELSE Ends(h) /\ UNCHANGED queue
  /\ UNCHANGED <<deviceVars, sessionVars, taskVars, hbinding, aborted, posts, powerVars, running, lease,
                 attemptVars, power_wait, statusVars, retired, proven, budgetVars>>

\* bind() has returned: the grant is armed and POST serial/continue is sent.
HandoffContinue(h) ==
  /\ Runs(h) /\ hpc[h] = "bound"
  /\ IF stop_requested
     THEN Ends(h) /\ UNCHANGED posts
     ELSE /\ hpc' = [hpc EXCEPT ![h] = "continuing"]
          /\ posts' = posts \cup {h}
          /\ UNCHANGED <<lock, revokes>>
  /\ UNCHANGED <<deviceVars, sessionVars, taskVars, hbinding, aborted, powerVars, runtimeVars, budgetVars>>

\* The request arrives, perhaps after its sender has given up: the same binding may come again.
ContinueArrives(h) ==
  LET accepted == InLoader(hboot[h]) /\ grant \in {0, hbinding[h]}
  IN  /\ h \in posts
      /\ posts' = posts \ {h}
      /\ grant' = IF accepted THEN hbinding[h] ELSE grant
      /\ CASE hpc[h] # "continuing" -> UNCHANGED <<hpc, lock, revokes>>
           [] hpc[h] = "continuing" /\ accepted ->
                hpc' = [hpc EXCEPT ![h] = "continued"] /\ UNCHANGED <<lock, revokes>>
           [] OTHER -> Ends(h)
      /\ UNCHANGED <<powered, boot, kernel, sessionVars, taskVars, hbinding, aborted, powerVars,
                     runtimeVars, budgetVars>>

\* confirm() sends Confirm and waits.
HandoffConfirm(h) ==
  /\ Runs(h) /\ hpc[h] = "continued"
  /\ IF running
     THEN /\ queue' = Append(queue, [kind |-> "Confirm", who |-> h])
          /\ hpc' = [hpc EXCEPT ![h] = "confirming"]
          /\ UNCHANGED <<lock, revokes>>
     ELSE Ends(h) /\ UNCHANGED queue
  /\ UNCHANGED <<deviceVars, sessionVars, taskVars, hbinding, aborted, posts, powerVars, running, lease,
                 attemptVars, power_wait, statusVars, retired, proven, budgetVars>>

\* push_boot: files, then POST start with X-Serial-Binding. The grant is disarmed once it succeeds.
HandoffStart(h) ==
  /\ Runs(h) /\ hpc[h] = "confirmed"
  /\ IF InLoader(hboot[h]) /\ grant = hbinding[h]
     THEN /\ kernel' = hbinding[h]
          /\ hpc' = [hpc EXCEPT ![h] = "done"]
          /\ lock' = 0
          /\ UNCHANGED revokes
     ELSE Ends(h) /\ UNCHANGED kernel
  /\ UNCHANGED <<powered, boot, grant, sessionVars, taskVars, hbinding, aborted, posts, powerVars,
                 runtimeVars, budgetVars>>

\* A request of an armed task fails, or its answer is lost.
HandoffRequestFails(h) ==
  /\ Fault
  /\ Runs(h) /\ hpc[h] \in {"continuing", "confirmed"}
  /\ Ends(h)
  /\ \/ hpc[h] = "confirmed" /\ InLoader(hboot[h]) /\ grant = hbinding[h] /\ kernel' = hbinding[h]
     \/ UNCHANGED kernel
  /\ UNCHANGED <<powered, boot, grant, sessionVars, taskVars, hbinding, aborted, posts, powerVars,
                 runtimeVars>>

\* The runtime still has the sender of the answer that task h waits for.
Answerable(h) ==
  \/ \E i \in 1..Len(queue) : queue[i].kind \in {"Bind", "Confirm"} /\ queue[i].who = h
  \/ current.boot # 0 /\ ~current.replied /\ current.caller = h

\* It has ended, or dropped the attempt: the task returns "cancelled".
HandoffUnanswered(h) ==
  /\ Runs(h) /\ hpc[h] \in {"binding", "confirming"} /\ ~Answerable(h)
  /\ Ends(h)
  /\ UNCHANGED <<deviceVars, sessionVars, taskVars, hbinding, aborted, posts, powerVars, runtimeVars,
                 budgetVars>>

\* A later announcement, a power call or the shutdown cancels it.
HandoffDropped(h) ==
  /\ h \in Unfinished /\ ~Runs(h)
  /\ Ends(h)
  /\ UNCHANGED <<deviceVars, sessionVars, taskVars, hbinding, aborted, posts, powerVars, runtimeVars,
                 budgetVars>>

(***************************************************************************)
(* The runtime: run_owner takes one event at a time.                       *)
(***************************************************************************)
Serving(kind) == running /\ queue # <<>> /\ Head(queue).kind = kind

\* The answer to the bind of task h; nobody reads it when the task is gone.
AnswerBinding(h, id) ==
  IF hpc[h] = "binding"
  THEN /\ hpc' = [hpc EXCEPT ![h] = "bound"]
       /\ hbinding' = [hbinding EXCEPT ![h] = id]
       /\ UNCHANGED <<lock, revokes>>
  ELSE UNCHANGED <<hpc, hbinding, lock, revokes>>

\* An error as the answer: the task returns it.
AnswerError(h, waiting) ==
  IF h # 0 /\ hpc[h] = waiting THEN Ends(h) ELSE UNCHANGED <<hpc, lock, revokes>>

\* run_owner returns an error: what it owned is dropped, the status fails, the session stops.
RuntimeFails ==
  /\ running' = FALSE /\ queue' = <<>> /\ lease' = FALSE
  /\ opening' = 0 /\ current' = NoAttempt /\ verifying' = FALSE
  /\ Publish("Failed", status_boot, status_binding)
  /\ stop_requested' = TRUE
  /\ UNCHANGED <<deviceVars, generation, shutdown, handoffVars, powerVars, attempts, power_wait, retired,
                 proven>>

ServeFail == Serving("Fail") /\ RuntimeFails /\ UNCHANGED budgetVars

\* The port and its reader stay; the attempt, the search and the verification do not.
ServeRestart ==
  /\ Serving("Restart")
  /\ queue' = Tail(queue)
  /\ current' = NoAttempt /\ opening' = 0 /\ verifying' = FALSE
  /\ power_wait' = pon[Head(queue).who]
  /\ Publish("WaitingDevice", 0, 0)
  /\ ppc' = [ppc EXCEPT ![Head(queue).who] = "act"]
  /\ UNCHANGED <<deviceVars, sessionVars, handoffVars, pon, running, lease, attempts, retired, proven,
                 budgetVars>>

Mutant_confirm_lost_port(id) == current.binding = id /\ current.replied

\* A confirmation counts for the attempt whose identity was read, while its port is held.
Confirmable(id) == current.binding = id /\ current.replied /\ lease

ServeConfirm ==
  LET h == Head(queue).who
      valid == Confirmable(hbinding[h])
  IN  /\ Serving("Confirm")
      /\ queue' = Tail(queue)
      /\ IF valid THEN Publish("Bound", status_boot, status_binding) ELSE UNCHANGED statusVars
      /\ IF valid
         THEN /\ hpc' = IF hpc[h] = "confirming" THEN [hpc EXCEPT ![h] = "confirmed"] ELSE hpc
              /\ UNCHANGED <<lock, revokes>>
         ELSE AnswerError(h, "confirming")
      /\ UNCHANGED <<deviceVars, sessionVars, taskVars, hbinding, aborted, posts, powerVars, running,
                     lease, attemptVars, power_wait, retired, proven, budgetVars>>

\* accepts_epoch: the boot that the last power call retired does not come back.
BindRetired ==
  LET h == Head(queue).who
  IN  /\ Serving("Bind") /\ retired = hboot[h]
      /\ queue' = Tail(queue)
      /\ AnswerError(h, "binding")
      /\ UNCHANGED <<deviceVars, sessionVars, taskVars, hbinding, aborted, posts, powerVars, running,
                     lease, attemptVars, power_wait, statusVars, retired, proven, budgetVars>>

\* reject_bind with active_binding_status: a report that is not usable yet. The binding is shown
\* while its port is held for the same boot.
BindRejected ==
  LET h == Head(queue).who
  IN  /\ Fault
      /\ Serving("Bind") /\ retired # hboot[h]
      /\ queue' = Tail(queue)
      /\ power_wait' = TRUE
      /\ Publish("Recovering", hboot[h],
                 IF lease /\ current.boot = hboot[h] THEN current.binding ELSE 0)
      /\ AnswerError(h, "binding")
      /\ UNCHANGED <<deviceVars, sessionVars, taskVars, hbinding, aborted, posts, powerVars, running,
                     lease, attemptVars, retired, proven>>

\* The boot is bound already: the same binding again.
Reusable(b) == current.boot = b /\ current.replied /\ lease

BindReused ==
  LET h == Head(queue).who
  IN  /\ Serving("Bind") /\ retired # hboot[h] /\ Reusable(hboot[h])
      /\ queue' = Tail(queue)
      /\ power_wait' = TRUE
      /\ AnswerBinding(h, current.binding)
      /\ UNCHANGED <<deviceVars, sessionVars, taskVars, aborted, posts, powerVars, running, lease,
                     attemptVars, statusVars, retired, proven, budgetVars>>

\* A new attempt. A held port takes the parameters of this boot and has a second to show its
\* identity; without one, SerialManager::bind looks for it.
BindAttempt(configured) ==
  LET h == Head(queue).who
      b == hboot[h]
      held == lease /\ configured
  IN  /\ Serving("Bind") /\ retired # b /\ ~Reusable(b)
      /\ IF lease /\ ~configured THEN Fault ELSE configured /\ UNCHANGED budgetVars
      /\ queue' = Tail(queue)
      /\ power_wait' = TRUE
      /\ attempts' = attempts + 1
      /\ current' = [boot |-> b, binding |-> attempts + 1, caller |-> h, replied |-> FALSE]
      /\ lease' = held
      /\ opening' = IF held THEN 0 ELSE b
      /\ verifying' = (verifying \/ held)
      /\ Publish(IF held THEN "Verifying" ELSE "Discovering", b, 0)
      /\ UNCHANGED <<deviceVars, sessionVars, handoffVars, powerVars, running, retired, proven>>

Proof(b) == [boot |-> b, binding |-> current.binding]

\* SerialManager::bind answers with the port that showed the identity it was asked for.
Opened ==
  /\ running /\ opening # 0
  /\ opening' = 0 /\ lease' = TRUE
  /\ current' = [current EXCEPT !.replied = TRUE]
  /\ proven' = proven \cup {Proof(opening)}
  /\ Publish("Verifying", current.boot, current.binding)
  /\ IF current.replied THEN UNCHANGED <<hpc, hbinding, lock, revokes>>
     ELSE AnswerBinding(current.caller, current.binding)
  /\ UNCHANGED <<deviceVars, sessionVars, taskVars, aborted, posts, powerVars, running, queue, attempts,
                 verifying, power_wait, retired, budgetVars>>

\* is_recoverable_bind_error: no port showed it in time. The attempt is over.
OpenFails ==
  /\ running /\ opening # 0
  /\ opening' = 0 /\ verifying' = FALSE
  /\ current' = NoAttempt
  /\ Publish("Recovering", current.boot, IF lease THEN current.binding ELSE 0)
  /\ IF current.replied THEN UNCHANGED <<hpc, lock, revokes>> ELSE AnswerError(current.caller, "binding")
  /\ UNCHANGED <<deviceVars, sessionVars, taskVars, hbinding, aborted, posts, powerVars, running, queue,
                 lease, attempts, power_wait, retired, proven, budgetVars>>

\* Any other error of the manager ends the runtime.
OpenIsFatal == Fault /\ running /\ opening # 0 /\ RuntimeFails

\* The port fails on a read or a write. An attempt that still waits looks for it again.
Lost ==
  /\ Fault
  /\ running /\ lease
  /\ lease' = FALSE /\ verifying' = FALSE
  /\ opening' = IF current.boot # 0 /\ ~current.replied THEN current.boot ELSE opening
  /\ Publish("Recovering", status_boot, status_binding)
  /\ UNCHANGED <<deviceVars, sessionVars, handoffVars, powerVars, running, queue, current, attempts,
                 power_wait, retired, proven>>

\* Bytes with the identity of boot b arrive on the held port while an attempt waits for it.
Read(b) ==
  /\ running /\ lease
  /\ current.boot = b /\ ~current.replied
  /\ verifying' = FALSE
  /\ current' = [current EXCEPT !.replied = TRUE]
  /\ proven' = proven \cup {Proof(b)}
  /\ Publish(phase, status_boot, current.binding)
  /\ AnswerBinding(current.caller, current.binding)
  /\ UNCHANGED <<deviceVars, sessionVars, taskVars, aborted, posts, powerVars, running, queue, lease,
                 opening, attempts, power_wait, retired, budgetVars>>

\* The WebSocket does not keep up with the output, or a write to it fails; bytes of a port that is
\* gone may still be on their way.
OutputFull == Fault /\ running /\ proven # {} /\ RuntimeFails

\* The caller of the attempt has gone.
Abandoned == current.boot # 0 /\ ~current.replied /\ hpc[current.caller] # "binding"

\* The timer drops an abandoned attempt, and looks for the port again when the held one has not
\* shown the identity within its second.
Tick ==
  /\ running /\ (Abandoned \/ verifying)
  /\ IF Abandoned
     THEN /\ current' = NoAttempt /\ opening' = 0 /\ verifying' = FALSE
          /\ UNCHANGED <<lease, statusVars>>
     ELSE /\ verifying' = FALSE /\ lease' = FALSE
          /\ opening' = current.boot
          /\ Publish("Discovering", status_boot, status_binding)
          /\ UNCHANGED current
  /\ UNCHANGED <<deviceVars, sessionVars, handoffVars, powerVars, running, queue, attempts, power_wait,
                 retired, proven, budgetVars>>

Mutant_deadline_of_attempt ==
  /\ running /\ power_wait /\ ~Abandoned
  /\ current.boot # 0 /\ ~current.replied
  /\ RuntimeFails
  /\ UNCHANGED budgetVars

\* A board that should be on has not shown its identity by the deadline.
DeadlinePasses ==
  /\ running /\ power_wait /\ ~Abandoned
  /\ ~lease \/ (current.boot # 0 /\ ~current.replied)
  /\ RuntimeFails
  /\ UNCHANGED budgetVars

\* run returns without an error.
Closes ==
  /\ running' = FALSE /\ queue' = <<>> /\ lease' = FALSE
  /\ opening' = 0 /\ current' = NoAttempt /\ verifying' = FALSE
  /\ Publish("Closed", status_boot, status_binding)
  /\ UNCHANGED <<deviceVars, sessionVars, handoffVars, powerVars, attempts, power_wait, retired, proven,
                 budgetVars>>

\* run_owner has the shutdown signal, or the input worker has the end of the client's stream.
RuntimeCloses == running /\ shutdown /\ Closes
ClientCloses == running /\ Closes

ServeBind == BindRetired \/ BindRejected \/ BindReused \/ \E c \in BOOLEAN : BindAttempt(c)

Runtime ==
  \/ ServeFail \/ ServeRestart \/ ServeConfirm \/ ServeBind
  \/ Opened \/ OpenFails \/ OpenIsFatal
  \/ Lost \/ (\E b \in 1..boot : Read(b)) \/ OutputFull
  \/ Tick \/ DeadlinePasses \/ RuntimeCloses \/ ClientCloses

Handoff(h) ==
  \/ HandoffObserve(h) \/ HandoffSubscribe(h) \/ HandoffLocked(h) \/ HandoffPreflightFails(h)
  \/ HandoffDecides(h) \/ HandoffRevokes(h) \/ HandoffBind(h) \/ HandoffContinue(h)
  \/ ContinueArrives(h) \/ HandoffConfirm(h) \/ HandoffStart(h) \/ HandoffRequestFails(h)
  \/ HandoffUnanswered(h) \/ HandoffDropped(h)

Power(p) == (\E on \in BOOLEAN : PowerBegins(p, on)) \/ PowerRetires(p) \/ PowerUnanswered(p) \/ PowerActs(p)

Next ==
  \/ Runtime
  \/ \E h \in Handoffs : Handoff(h)
  \/ \E p \in Powers : Power(p)
  \/ DeviceReboots \/ StaleAnnouncement \/ (\E m \in revokes : Revoked(m))
  \/ StopRequested \/ ShutdownSignalled

Spec == Init /\ [][Next]_vars

(***************************************************************************)
(* Properties.                                                             *)
(***************************************************************************)
\* A started kernel runs on the boot whose identity was read on the port of the binding that
\* started it: no older binding, and no older port, boots a newer device.
KernelIsVerified == kernel # 0 => [boot |-> boot, binding |-> kernel] \in proven

\* What run_owner relies on when it expects an attempt ("missing binding attempt", "missing
\* verification"): a search and a verification belong to the current attempt, and there is no
\* search beside a held port.
AttemptIsConsistent ==
  /\ opening # 0 => ~lease /\ current.boot = opening
  /\ verifying => current.boot # 0
  /\ current.replied => Proof(current.boot) \in proven

\* Every binding a reconciliation was given, and the one the device accepted, was read on its port
\* for the boot it is used on.
BindingsAreVerified ==
  /\ \A h \in Handoffs : hbinding[h] # 0 => [boot |-> hboot[h], binding |-> hbinding[h]] \in proven
  /\ grant # 0 => [boot |-> boot, binding |-> grant] \in proven

\* A boot that is asked for is a boot that was observed, by the task that asks.
CallersAreKnown ==
  /\ powered => boot # 0
  /\ \A h \in Handoffs : IF hpc[h] = "idle" THEN hbinding[h] = 0 ELSE hboot[h] # 0
  /\ \A i \in 1..Len(queue) : queue[i].kind = "Bind" => hpc[queue[i].who] # "idle"
  /\ current.boot # 0 => /\ current.caller \in Handoffs
                         /\ hboot[current.caller] = current.boot
                         /\ hpc[current.caller] # "idle"

\* The inductive invariant of the handoff: a kernel only starts on a verified binding because each
\* place that holds a binding, the attempt, the task and the device, holds a verified one.
HandoffInv == TypeOK /\ AttemptIsConsistent /\ BindingsAreVerified /\ CallersAreKnown /\ KernelIsVerified

\* A session shown as bound has its port and a verified binding, the one it shows.
BoundIsHeld ==
  phase = "Bound" => lease /\ current.replied /\ status_binding = current.binding /\ status_boot = current.boot

\* A session that is shown as bound is backed by the port, and by a binding that was verified.
BindingInv == HandoffInv /\ BoundIsHeld

\* update_status: no later step hides a failure, not even the end of the session.
FailureStays == [][phase = "Failed" => phase' = "Failed"]_vars

(***************************************************************************)
(* Fairness. The select! of run_owner polls its branches in random order,  *)
(* so every ready event is served; the manager's deadline bounds a search; *)
(* the executor polls every task and the requests have timeouts. The       *)
(* device, the client, the power calls and the faults owe nothing.         *)
(***************************************************************************)
HandoffProgress(h) ==
  \/ HandoffSubscribe(h) \/ HandoffLocked(h) \/ HandoffDecides(h) \/ HandoffRevokes(h) \/ HandoffBind(h)
  \/ HandoffContinue(h) \/ ContinueArrives(h) \/ HandoffConfirm(h) \/ HandoffStart(h)
  \/ HandoffUnanswered(h) \/ HandoffDropped(h)

Fairness ==
  /\ WF_vars(ServeFail \/ ServeRestart \/ ServeConfirm \/ ServeBind)
  /\ WF_vars(Opened \/ OpenFails)
  /\ WF_vars(Tick) /\ WF_vars(DeadlinePasses) /\ WF_vars(RuntimeCloses)
  /\ \A h \in Handoffs : WF_vars(HandoffProgress(h))
  /\ \A p \in Powers : WF_vars(PowerRetires(p) \/ PowerUnanswered(p) \/ PowerActs(p))
  /\ WF_vars(ShutdownSignalled)

FairSpec == Spec /\ Fairness

\* Every reconciliation comes to an end and frees boot_operation, whatever it waits for: the lock,
\* an identity that never shows, a runtime that ends.
HandoffsEnd == \A h \in Handoffs : hpc[h] = "observed" ~> hpc[h] = "done"

\* A power call gets through to the relay although the runtime is searching, verifying or ending.
PowerCallsAct == \A p \in Powers : ppc[p] = "bumped" ~> ppc[p] = "done"

\* Nothing that waits for the runtime waits for ever.
CallersAreServed == HandoffsEnd /\ PowerCallsAct

\* A session whose board should be on does not stay without a port: it gets one or it ends.
PortWaitIsBounded == running /\ power_wait /\ ~lease ~> lease \/ ~power_wait \/ ~running
=============================================================================
