# ostool: a TLA+ verification project

ostool builds, boots and tests operating systems on real boards. Two programs
carry its logic: the command-line tool `ostool`, and `ostool-server`, which leases
boards to clients, switches their power, serves their boot files and relays their
serial ports. This directory holds TLA+ models of the parts of that code whose
correctness depends on the order in which concurrent tasks take their steps, TLC
configurations that check them on small instances, and TLAPS proofs for every
value of their constants.

Line numbers in `PROJECT.json` ("map") tie every definition to the code it
translates.

## The system

| part | state | operations | what is hard |
|------|-------|-----------|--------------|
| Board leases (`state.rs`, `session.rs`, `board_pool.rs`) | board runtimes (lease state, active session), session map, per-session actor, release jobs | create, heartbeat, delete, expiry sweep, stop, release rounds, start-up power-off | two locks, one actor and one job per session, retries without end, requests that act after their check |
| Serial WebSocket (`serial/ws.rs`) | `serial_connected`, the power-on task | handshake, upgrade, open, relay, finalize | claim before upgrade, shutdown signal, automatic power-on in a task of its own |
| Board serial runtime (`serial/runtime.rs`) | lease, binding attempt, search, verification window, status | bind, confirm, restart, fail, port events, timer | a reboot or a power call while a bind is in flight |
| Serial discovery (`ostool-serial/manager.rs`, `lib.rs`) | pending requests, candidates, leased ports, reservations, exclusions, remembered locations | bind, exclude, reserve, release, confirm, wait for an owner | opens that cannot be aborted, late Found and Closed events |
| Admin power (`admin_power.rs`, `power.rs`) | running actions, busy resources, idempotency keys | create, run, query | exclusion with leases |
| OTA (`ota.rs`, `api/ota.rs`) | image library, assignments (`jobs.json`), observations (`devices.json`) | upload, delete, queue, cancel, decide, report, record a failed delivery | crashes between saves, reports of an earlier boot, lost answers |
| Loader registry (`loader.rs`) | known loaders, boots, tickets | register, poll, complete | duplicated and late polls |
| Admin events (`admin_events.rs`, `admin_monitor.rs`) | dirty topics, projection, history, streams | invalidate, read, publish, replay | changes during a read, a full history, a restart |
| Device reconciliation (`device.rs`) | one task per announcement, `boot_operation`, the serial grant | observe, revoke, bind, continue, confirm, start, OTA delivery | cancellation between two requests, lost answers |
| Board and DTB stores (`board_store`, `dtb_store`, `api/router.rs`) | board configs, DTB files | edit, rename, delete, upload | edits across two stores without one lock |
| Server settings and TFTP (`config.rs`, `main.rs`, `tftp/*`) | settings in memory and file, provider, UDP port, files of sessions | load, change, start, upload, delete, list | settings kept in four places, one after the other; file calls of several requests on one directory |
| Network tests (`network_test.rs`) | test records, permits | create, upload, download, watchdog | transfers that are late, dropped or evicted |
| Virtual lab and boards (`virtual_lab.rs`, `virtual_qemu.rs`) | namespace, bridge, veth pair, dnsmasq; the serial hub of a QEMU | up, down, attach, record | commands that fail half way, consoles that attach to a running output |
| Native serial ports (`discovery.rs`, `native.rs`, `physical.rs`, `serial/transport.rs`) | names and settings of adapters, a reader thread and its buffer | resolve, open, restore, read, relay | names that move between look-up and open, bytes before the end of a line |
| CLI board client (`ostool/src/board/*`) | the lease, heartbeat task, serial stream | acquire, run, release | release on every exit path |
| CLI runs (`ostool/src/run/*`, `sterm`) | boot sequence, matcher, terminal | boot, wait for output, check | timeouts, split output |
| U-Boot shell (`uboot-shell`) | line buffer, YMODEM blocks | command, transfer | retries on a lossy line |
| CLI login (`ostool/src/auth`) | cached token, `hosts.json` or keyring, refresh lock | login, refresh, revoke, logout | several processes on one store |
| Build and artifacts (`ostool/src/build`, `invocation`) | files of a build, registered artifacts | build, post-build, analyse, pack | what is registered and what lies on disk drift apart |
| QEMU preparation (`run/qemu.rs`, `run/ovmf_prebuilt.rs`) | configuration file, firmware cache, disk of the firmware | choose, download, write, start | killed between any two files |
| FIT images (`fit*.rs`) | addresses of a payload | derive, check, pack | segments that say different things |
| `jkconfig` | document, dialogs, file | edit, hook, save | nested menus, values of the wrong kind |

Calls: HTTP handlers take read or write locks of `AppState` and spawn tasks; the
session actor receives one `Stop` over a channel and hands the session to the
release coordinator, which spawns one job per session; the job waits for the
WebSocket task through `serial_connected` and for the serial runtime through
`wait_owner_released` of the serial manager. The serial manager is an actor of its
own, fed by a command queue and by the events of its scan workers.

The HTTP server awaits a handler within its connection: when the client goes away, the
handler is dropped at the await it has reached, its locks are free and nothing it did is
undone; the tasks it has spawned go on. Where an await lies between two changes, the
modules have the drop as an action (`CreateDropped`, `EditDropped`, `DtbDropped`,
`DeviceStopDropped`, `ClientLeaves`, `FileCallFails`, `PowerCallFails`, `RequestDropped`).

## Modules

| module | what it is |
|--------|-----------|
| `BoardLease` | the lease core, the session actor, release jobs, WebSocket life cycle, power and file calls, admin power, restart |
| `LeaseService` | what clients may rely on: one holder per board, a fresh id per lease, freed only when closing |
| `SerialManager` | the discovery actor, its scan workers, leases and reservations |
| `BootHandoff` | the serial runtime of a session, device reconciliation and the power calls that cancel it |
| `OtaUpdates` | the update store with its files and image library, the delivery and confirmation of an update, the device's slots |
| `BoardInventory` | board configurations in memory and on disk, DTBs, virtual devices, relay ports, the gate of board edits |
| `LoaderRegistry` | registrations and announcements of loaders, conflicts, expiry and what the admin page shows of them |
| `AdminEvents` | invalidation, the projector, its history, and the event streams of browsers |
| `ServerSetup` | the settings of the server, their file, the TFTP providers and who listens on port 69 |
| `SessionFiles` | the files of one session: uploads, presets, deletions, listings and the release |
| `NetworkTest` | throughput tests, their permits, watchdogs and records |
| `VirtualLab` | the commands that make and remove the network of virtual boards |
| `SerialHub` | the serial port of a virtual board: history, live output, input of several consoles |
| `SerialIdentity` | how the device of a key is found, opened, locked and restored |
| `SerialConsole` | the relay between a physical port and a WebSocket, byte by byte |
| `ConsoleRun` | the console phase of a run: output, matchers, shell checks, terminal, verdict |
| `BoardRun` | one command of the CLI from its first request to its exit code, beside others |
| `ConfigDocument`, `ConfigEditor` | the document of `jkconfig` and its terminal interface |
| `Login` | tokens of several tasks and processes on one store |
| `BuildArtifacts` | the commands of an `Invocation`, the files they make and register |
| `QemuBoot` | what is prepared before QEMU starts |
| `FitLayout` | the addresses in a FIT image |
| `MC...` | constants, wiring and symmetry for TLC; `MCHostCommands` puts the five parts that need no server into one run, `MCServerParts` eight parts of the server that share no state |
| `...Proofs` | the inductive invariants and what follows. `HostProofs` is about `Login`, `BuildArtifacts`, `QemuBoot`, `FitLayout` and `ConsoleRun`, `AdminProofs` about `LoaderRegistry` and `AdminEvents`; `BoardLeaseProofs` also about `VirtualLab`, `SessionFiles` and `ServerSetup`, `BoardInventoryProofs` about `NetworkTest`, `SerialManagerProofs` about `SerialIdentity`, `OtaUpdatesProofs` about `SerialHub` and `SerialConsole` |

`BoardLease` implements `LeaseService`. The other modules meet through what each keeps
of its neighbours: `BoardRun` has the order in which `BoardLease` releases a session and
the verdict of `ConsoleRun`, `BootHandoff` the answers of `SerialManager`, `OtaUpdates`
the boots of `BootHandoff`, `BoardInventory` the claims of sessions and power actions.

### BoardLease

A handler is one action for each stretch in which it holds a lock or touches no
shared state. What it read before an `await` stays in a variable and is used after
it: `sweeping` (the sweeper's snapshot), `handshake` (a WebSocket handler past its
`is_releasing` check), `power_call` and `file_call` (requests past their check).
`lease`, `active`, `sessions`, `lifecycle`, `stop_requested`, `serial_connected`
are the fields of `AppState`, `BoardRuntimeState` and `SessionState`; `step`, `done`,
`failed` and `attempt` are the locals of `process_release_job`. `power`, `files`,
`relit` and `offs` describe the world: which boards are on, which session
directories exist, which boards were switched on after their last release, and how
often each job switched its board off.

Abstractions: `expires_at` is the set `expired`, which time may extend at any
moment; `request_stop` does its compare-and-swap and its send in one step; the
serial runtime is a flag (`owned`) that its owner sets and clears; every board has
its own power resource; a creation that is dropped after its claim leaves a session
("Dropped") that is in no map and has an actor nobody can stop, so the actor is left out;
a session whose map entry is gone is still held by its
actor, so `Drop for SessionState` cannot run early and is not an action. Device
reconciliation, another receiver of the shutdown signal, is left to its own module.

### SerialManager

One turn of the actor's loop is a command, event or tick (`actor` goes to
`"reconcile"`) followed by `Reconcile`, exactly as in `start`. Scan workers are
records in `tasks`; a worker that found its identity, and a stream that is being
closed, are still there, because they have the port open. A lease object is in
`leases` until its `Release` is handled. Deadlines, scan windows and cancelled
futures may pass at any reconcile (`over`, and the sets `C`, `T`, `L`). The lease
token and the candidate generation come from one counter in the code and are only
compared for one port, so the model counts for each port. Error texts, aliases of a
port and the rotation of line settings are left out, and so is the end of the actor
when the last handle is dropped.

### BootHandoff

Three kinds of process. The runtime takes one event per step, as `run_owner` does:
a command from `queue`, an answer of the manager (`Opened`, `OpenFails`), a lost port,
an identity on the held port, the timer. A reconciliation is a sequence of steps
between its awaits (`hpc`); what it read early is kept (`hboot`, `hseen`, `hgen`), and a
step is taken only if nothing has cancelled the task when the poll begins (`Runs`).
A power call advances the generation, retires the boot, waits for Restart to be
served and then acts. Requests to the device that can outlive their sender are
messages (`posts`, `revokes`). The device and `SerialManager::bind` are external: the
device answers by its boot and grant, the manager with a port that showed the
identity, or an error.

Boots and bindings are numbers; a boot stands for its `boot_epoch` and `serial_id`.
`proven` is a history of the identities that were read. The timer's three checks are
two actions, because a deadline may pass at any tick. Parameters, warnings, the v5
protocol, the checks of the kernel and the files of `push_boot` are reduced to
"rejected", "preflight fails" and "request fails". The OTA decision that precedes the
handoff is the time between `HandoffObserve` and `HandoffSubscribe`.

### OtaUpdates

The store of one board: its assignment and its last observation, each in memory and
in its file (`job`, `job_disk`, `obs`, `obs_disk`), and the image library (`catalog`,
and the two files of an image, `meta` and `efi`). An operation of `OtaStore` holds its
locks from its first read to its last write and is one action; what may stop it half
way is an action beside it. `atomic_write` can fail before its rename or after it, so a
failed write leaves the old file or the new one, and memory as it was (`SaveFails`);
`Restart` may come between any two steps and reads the files again. `decide` takes the
lock of the jobs after it has stored the observation and may be aborted there
(`DecideStops`).

The reconciliation is a task with a place (`tpc`) and its locals (`tepoch`, `tseen`,
`tjob`, `tfail`). A later announcement, and one of an earlier boot that arrives late,
aborts it. The abort acts at once; in the code the old task may end its current poll,
which the model has as the step before the announcement. Images and confirmations are
messages that outlive the task that sent them. A boot of the device breaks the
connections that nobody waits on. The device is external: it takes an image of its own
boot when nothing is pending, tries it on the next boot, commits it when confirmed in
that boot, rolls back when it boots again. Direct uploads compete with the server's.

Update ids and boot epochs are numbers. `next_delivery_at` is a flag that may be due at
any later decision. `board_idle` is an input of `decide`, free at each call. The id of a
direct upload stands for its source. Error texts are dropped; that a changed text
alone causes a write is kept (`SavedIfChanged`). Left out: the poll, download and status
requests of the previous protocol, which enter the store through `decide`, `report` and
`can_download`; a board whose MAC is edited; a delete request that is dropped while its
files are removed.

### BoardInventory

Board edits, session creation, power actions and the deletion of a virtual device hold
`board_inventory_gate`: `edit` is the handler that holds it across an await, with the step
it has come to. DTB requests (`dtb`), the end of a session and a power call that runs
already do not take the gate, so their steps fall between those of an edit. An edit has
the steps of its handler: exclusions, file, old file, map (`EditCommits`), runtime entries
(`EditSyncs`), exclusions again (`EditRefreshes`); its client may leave before each of them,
and a refused refresh returns before the roll-back. Every file operation may fail, and a
restart reads `files` again, quarantines what clashes and drops the virtual devices.
Histories record the gaps of the code: `overwritten` (a DTB rename has put back an edited
board), `torn` (the boards whose file an edit left different from the map), `unsynced` (those
whose runtime entry is not the one of the map), `exposed` (those whose relay an unfinished
update has given up), `unstarted` (devices whose QEMU did not start) and `orphaned` (those
forgotten before their QEMU ended). Each names the boards or devices of that edit and ends
with the edit or restart that mends it, so that a property excepts these and no others. A
configuration is reduced to the fields that the checks read. A file operation that is under
way when its handler is dropped has landed or not at that moment.

### LoaderRegistry

One action per request: a probe that offers a registration, a poll or a report under
any registration the machine was ever offered, an announcement and the status read that
follows it, and the deadline task that prunes. Ages take the place of times and count up
to one more than the retention. `shown` is what the projector of `AdminEvents` reads,
taken again when `invalidated` is set. The histories `stale`, `accepted` and `missed` say
when a replaced registration was last used, which request the last step accepted, and
that the deadline task was woken for something else.

### AdminEvents

A handler changes what the server owns and only then invalidates its topic: `handlers`
are in between. `invalidate` drops the lock of the dirty topics before it wakes the
projector, so it is two actions (`Invalidate`, `NotifyOne`). The projector takes the dirty
topics, reads them one by one (`ReadTopic`, `ReadFails`) and publishes once; changes may
come between any two of these. A stream has a cursor and a queue; the browser is external
and merges what it gets, which is how the admin page uses the events. Two owned topics
and the overview are enough: the overview is read last and takes the TFTP status from
the same round or from the projection, which is the only tie between topics. `hidden` is
the history of topics that were changed or failed without an invalidation.

### ServerSetup

The settings are kept in four places: `memory`, `saved` (the file), `manager` (what stores
the files of sessions) and, for the system daemon, `hpa`. A request changes them one after
the other, and each await between is a place in `update`; the save takes a copy of the memory
(`copy`), truncates (`open`) and writes. `Interrupted` is a stop or a kill. `torn` is the
history that a save failed or a request began beside another: nothing keeps two requests
apart, and with either of them memory, file and manager may disagree until the next start.
`ClientLeaves` drops a handler where it waits: the write it waits for goes on to its end, but
nobody makes the new manager the one in use. `parted` is the history of that, until the next
answered change of TFTP or restart puts the four in step. `strayed` says
that the port or a reconciliation failed, after which the files of sessions may be where no
client looks. Of the settings those of TFTP are told apart, the rest is `limits`.

### SessionFiles

Each call of the file system is an action and a request is a place in `call`. Two files in
one subdirectory of the session are enough to have a deletion that removes the directory
under another upload. `promise` is the content a client was last told is stored, withdrawn
when the file is written or deleted again. `overtaken` is set by an upload that makes its
directory after the release began; `broken` by a reader that was shown something else than a
promised file. A listing takes the entries of a directory in any order (`rest`) and looks at
each twice, as `is_file` and as `metadata`: one that goes in between ends it with an error
(`ListingFails`). The preset DTB is looked up by `PresetIsMissing` and copied like an upload.

### NetworkTest

A record has a `status` and `bytes` for each direction; `transfer` is where the handler or
the stream of that direction is, `watchdog` the task beside a download, `permit` and `free`
the semaphore. The lock of a record is taken for one step at a time, so a deadline (`late`),
a chunk and the drop of a broken connection can meet in any order. Bytes are counted in
chunks, a timed download asks for no size (`Timed`).

### VirtualLab

`job` is the command that works and the external command it is about to run; `space`,
`pair`, `devices`, `daemon` are what the kernel has. A mishap makes an external command fail
or kills the program, or the daemon. The kernel frees a namespace some time after its name is
gone (`pair` is "lost" in between). `failedUps` counts the failures of `up` in a row that no mishap excuses.

### SerialHub

Bytes are numbered. The history (`past`), the channel of live output and what a console
has got are sequences of numbers, so that a gap or an overlap between the replay and the live
output shows. `skipped` says that a console lagged. Input is typed in numbered chunks and
passes from the pipe of a console (`pipe`) to its input task (`held`), to the channel of the hub
(`waiting`) and to QEMU (`delivered`, over all its connections).

### SerialIdentity

A user, a console or the relay of a power supply, reads the USB devices, the links and the
ports in three steps, decides (`Resolves`) and opens a name; the kernel gives names to
devices that are plugged meanwhile. `moved` is the history of users during whose search
something was plugged. A console reads the settings of the terminal before it takes the lock
(`saved`), as the code does: two that overlap there (`overlap`) can restore raw settings.

### SerialConsole

The thread that reads the port, its bounded buffer, the four workers of the relay and
the transmitter of the port are each a variable that says where they are. Bytes and commands
are numbered. The wake-up of a waiting task is a flag of its own (`waker`, `woken`), taken by
the thread after it has dropped the lock. The client and the board are external.

### ConsoleRun

Output is a sequence of letters cut into chunks anywhere; a pattern is a sequence of
letters in place of a regular expression. The matcher, its bounded history and window, the
driver that sends a command in chunks, the timeout tasks, the writer and the terminal loop
are each a variable and its actions, in the order in which the code polls them; the
iterations of `process_block` are the recursive function `Scan`. `seen`,
`rest` and `sent` are histories of what was really read and written. Three runners share
the module; "qemu" has a child, the others a stream. A key is a key stroke or a held Ctrl-A.

### BoardRun

`pc` is where a command is; every await is a step, and so are a kill, a lost request and
a failing step. "uboot" shares the serial ports and the TFTP root of the host with others,
"board", "httpboot" and "connect" share the board of a server. `target` is the board: its
power, what is loaded, what runs. `faults` is the history of what went wrong in a run,
and `creator` of who made a staging directory. The console is one step that ends well or
badly, which is what `ConsoleRun` is about.

### Commands of the host

`ConfigDocument` builds the document from a schema and a file and says what a save
writes; `ConfigEditor` is the interface around it, one action per key that changes
anything. `loaded` is what the file holds, `read` whether it could be read: for ostool a
file that is there and cannot be read is an empty document (`Start`). `Login` has one action
for every stretch of `TokenManager` between two accesses of the store, for tasks of one or
several processes on one store, with or without a keyring; the store is loaded twice behind
the `RefreshLock` (`TakeLock`, `Reload`).
`BuildArtifacts` stamps every file with the ELF it was made from; a command of the
invocation is one action per file it writes or removes. `QemuBoot` may be killed between
any two writes and be replaced by a newer or an older release that wants another firmware
(`ReplaceOstool`, with `downgraded` as the history of the latter). The guest may write every
file that QEMU shows it, the disk of the firmware and the variables (`GuestWrites`), and what it
wrote is still there when the next run begins. `FitLayout` is
arithmetic on addresses up to `TopAddress`; an operator that may fail returns a set with
one result or none.

## Runs

| run | properties | what it shows |
|-----|-----------|---------------|
| `lease_boards` | `LeaseInv`, `BoardsComeBackOff`, `ReleaseIsComplete`, `ImplementsLeaseService` | two boards, two sessions, admin power, one fault, one pending request, a dropped creation, a restart, an exhausted retry: leases are exclusive, none that a session was given is orphaned, an offered board is off, a board changes hands only after a complete release, and the core implements `LeaseService` |
| `lease_liveness` | `PowerOffOnce`, `SessionsEnd` | one board and session, two attempts a round, three faults: one power-off per release, a stopped session is released and a silent one is stopped |
| `serial_boots` | `ManagerInv`, `ManagerServes` | one port, two boots of its device, two reservations or exclusions: one reader per port, the lease table is exact, exclusions hold, owners are really released, every reservation and owner wait is answered |
| `server_parts` | `BindingInv`, `HubInv`, `SetupInv`, `LabInv`, `IdentityInv`, `FilesInv`, `NetTestInv`, `SerialLinkInv`, `FailureStays`, `ResultStays` | each of the eight parts for itself (`part`): a kernel starts only on the boot whose identity was read, a session shown as bound holds its port, failures stay; no byte is doubled or told after the end; settings that were answered are in force and survive, but for failed saves, requests that meet and clients that leave; the second `up` recovers; a key opens its own device, alone; a stored file is kept and is in every listing that is answered; permits come back once and results stay |
| `handoff_liveness` | `CallersAreServed`, `PortWaitIsBounded` | reconciliations end and free the lock, power calls reach the relay, a session without a port gets one or ends |
| `ota_updates` | `StoreInv`, `TrialInv`, `TerminalStays` | two assignments, three boots, direct uploads, late announcements and images, cancellation, deletion, a failed write or a restart between any two steps: an update is recorded as the device decided it, is tried once and never revived; its image stays; a parked job sees the device change |
| `inventory` | `InventoryInv`, `EditsAreSound` | two edits beside DTB renames, a session, a power action, a virtual device and two failures, dropped requests or restarts: memory and files stay one but for the board of an edit that its client left, a MAC names one board, a leased board stays what it was |
| `loaders` | `RegistryInv`, `ExpiryIsShown` | two polling machines and an announcing one on one MAC: a replaced loader never becomes current, two live ones are both refused, a silent one is shown offline |
| `admin_events` | `EventsInv`, `ClientsCatchUp` | two changes, three failures, a history of one update: a quiet projection is current, a browser that the history covers is one replay away from it, and every browser gets there |
| `console` | `VerdictIsRight`, `DecidedRunEnds` | five letters of output in chunks of up to two, one key: an Ok is earned, no prompt or result is missed at a chunk boundary or beside a command that is being written, a decided run returns |
| `board_run` | `RunIsHonest`, `NothingLeftBehind`, `BoardComesBack` | two commands at a time on the ports and the TFTP root of a host or on the board of a server, with kills and failures: no run watches the image of another, Ok is earned, what is left is reported, the board comes back |
| `host_commands` | `EditorIsHonest`, `LoginInv`, `OutputsAreCurrent`, `GuestSeesThisRun`, `FitIsPlacedRight` | each of the five parts for itself (`running`): a confirmed save is readable and is what was seen, no refresh replaces or deletes a usable result of another, a runner gets what was built last, a guest boots what its run is about whatever earlier guests wrote, payload and entry lie where the ELF puts them |

Some properties collect what one reader asks at once: `TrialInv` is
`ConfirmationIsExact`, `NoSecondTrial` and `DeviceChangeIsSeen` with the conjuncts that make
them inductive; `VerdictIsRight` is
`VerdictIsEarned` and `NothingMissed`; `EditorIsHonest` is `EditorInv` and `SavedFileIsGood`;
`BoardsComeBackOff` is `NoOrphanedLease` and `AllocatableBoardIsOff`; `BindingInv`
is `BoundIsHeld` and `HandoffInv`, of which a verified kernel is a conjunct; `EditsAreSound`
is `EditsAreDurable` and `LeasedBoardIsUntouched`; `RunIsHonest` is `BootsOwnImage` and
`OkIsEarned`; `OutputsAreCurrent` is `RunsWhatWasPrepared` and `AnalysisIsWhole`. That leases
are exclusive is a conjunct of `LeaseInv`; that an excluded port is left alone, an answered
owner holds nothing and a superseded boot waits for nothing are conjuncts of `ManagerInv`.

Bounds. Faults, requests and restarts are budgets, because the code allows any
number; one fault is enough to make each release step fail while the others succeed.
`RetryAttempts` is 2 where an attempt must fail and the next succeed, and 1 where
exhaustion matters. Two sessions give every pair of a release and a new claim. For the
manager, two boots give one superseded request, two manual commands a reservation and a
refused second one. For the handoff, two reconciliations give a cancelled one and its
successor, two power calls, or a power call and a reboot (`MaxStarts`), a boot that is
retired under a bind and one that follows, two faults a lost port and a second failure; its
liveness is checked with one fault. For updates, two assignments give a late answer of the first while the second
runs, three boots a delivery, its trial and the boot after. `MaxAttempts` is 2, so that
one failure is retried and the next is the last; the code has 3. For the inventory two
edits give an edit and the one that meets what it left; a fault is a failed operation, a dropped
request or a restart. Its constraint (`Apart`) leaves a DTB rename without a power action, a port
lease or a power-on call beside it, none of which it meets, and follows a behaviour in which a
rename has undone an edit until no new edit begins. For the loaders, time limits of
2, 2 and 3 keep the order of the code's limits and let a registration be online, offline
and retained; two offers give a replaced one. For the events, a history of one update is
full after the first publication, and three failures give a lost connection, a restart
and a failed read in one behaviour. For the console, five letters hold a prompt, a
result and a pattern cut in two. Two builds, two QEMU runs and two releases of the
firmware give every pair of a run and what it left behind.

In `server_parts` the settings have two requests at a time, two changes and two failures
(saves that fail, clients that leave, stops): a failed save, a restart that reads it, and a
change after that. The lab has four
mishaps: one in each of two commands, and two that hit the daemon. Two adapters with one
number, two names and three plugs let a device take the name of the other while a user
searches. Two requests on two files of one directory, four calls in all, let an upload meet the
deletion of its directory twice. Three tests with two records and one permit give an
eviction, a refusal and a permit that is handed on; a size of three in chunks of two gives a
full chunk, a rest and one byte too many. The hub keeps two bytes of history and a channel of two
for four bytes of output, so a console can lag; the relay has queues of two and three bytes, so
each of them fills. The symmetry sets permute sessions,
tasks, processes and targets, in runs of invariants and of properties that treat them alike.

The deadlock check is off where finished programs and spent budgets stop. The
manager and the loader registry always have a next step, and their runs keep it.

## Fairness

A spawned tokio task keeps running, so the actor, the release job (each attempt
ends, with success or an error), the WebSocket task once its peer or the shutdown
signal ends it, the power-on task and the sweeper are weakly fair; the sweeper
visits each session every second, also when heartbeats come and go, hence strong
fairness for its snapshot. The manager's `select!` chooses at random among ready
branches, so events and releases are strongly fair; an open ends, a stopped worker
closes its stream, and a request has a deadline. In `BootHandoff` the runtime's
`select!` serves every ready event, a search ends by its deadline, tasks are polled and
their requests time out; the deadlines of the timer pass if nothing moves them. In
`LoaderRegistry` time passes and the deadline task and the projector run. In
`AdminEvents` handlers that are not dropped come to their invalidation, the projector
runs, and a browser that is disconnected connects again and reads. In `ConsoleRun` the
timers, the writer's callback and the runner's own steps are fair; output, keys and
the target are not. In `BoardRun` only the server is: a lease ages, a closing session
switches its board off and frees it; nothing is owed by ostool, which may be killed
at any step. Clients, lease holders, handshakes and devices owe nothing.

## Proofs

Nothing is assumed beyond the named assumptions on the constants: null values are not
members of the sets they extend, bounds are naturals, the time limits of the loader
registry are ordered as in the code. The theorems hold for every value of the constants that
satisfies them; the list with what each establishes is in `PROJECT.json`.

`BoardLeaseProofs`. `LeaseInv` adds to the type invariant who may hold a board in
terms of where the actor and the job are: a board and the session it names agree;
a job exists exactly once the actor has enqueued it; each finished step is recorded
in `done`; calls in flight belong to sessions that were created; power is on only
for a reason. Exclusive leases alone are not inductive: that no second session can
take a board rests on the lease state staying `Using` or `Releasing` until the job
is complete. A board may name a session outside the map only while that session is being
created, or when its creation was dropped (`Stranded`), and then it stays `Using` and off. One
lemma per group of actions, one case per action. From the invariant
follow exclusive leases, no other orphaned lease, exactly one power-off per release,
exclusion of admin power, offered boards being off, the action property that a
board changes hands only when released, and the refinement of `LeaseService`.

`SerialManagerProofs`. `ManagerInv` says that a worker or closing stream keeps its
name among the candidates (`TasksAreCandidates`), that a candidate or waiting
reservation is never leased (`ClaimsAreDisjoint`), and that after a reconcile every
reserved or excluded candidate is closing (`ClaimedCandidatesClose`), which is what
stops a queued Found event from leasing it. One reader per port, the exact lease
table, exclusions, owner waits, cancelled boots and matching devices follow for any
number of ports and sessions.

`BootHandoffProofs`. That a kernel runs on a verified binding is not inductive: the
binding passes from the attempt to the task, from the task to the device and from
there to the kernel. `HandoffInv` says that each of the four holds a verified one
(`BindingsAreVerified`), that attempts and queued binds name a task which observed the
boot they ask for (`CallersAreKnown`), and that a search or a verification belongs to
the attempt (`AttemptIsConsistent`). From it follow the verified kernel and that the
runtime's "missing ..." errors cannot happen; that a failure is terminal is proved
from the steps alone. That a session shown as bound holds its port (`BoundIsHeld`)
needs an order of time, `BoundInv`: tasks observe boots in order and only the last
observer runs, one task holds `boot_operation` (`TasksAreOrdered`); the binds in the
queue are in that order and later than the attempt, and a confirmation is never behind
a later bind (`QueueIsOrdered`); what the status shows is of the attempt, or the attempt
has been overtaken and nobody can confirm it any more (`StatusIsCurrent`).

`OtaUpdatesProofs`. `StoreInv` says that `jobs.json` is never behind memory
(`DiskIsNotBehind`): it holds the same assignment, with the verdict if there is one, or a
later one whose creation was answered with an error. Without this conjunct nothing is
known of the assignment a restart brings back, and neither "an ended assignment stays
ended" nor "the image of an open assignment is kept" is inductive. The catalog only
names images whose two files exist (`CatalogIsReadable`), open assignments have attempts
left (`JobIsSound`), and a task names an assignment, an announced boot and, if it
recovers, a failure (`TaskIsBound`). Every write of the store is shown to write a
successor of the assignment (`Successor`), in one of the three ways a write can end
(`JobStep`); one lemma does the rest for all of them.

`TrialInv` relates that record to the device, and rests on the order of boots. A request
is of the boot its task was started for, and while a task holds a status nothing was sent
in a later boot (`EpochsInOrder`); so what was read in the running boot is still true
but for an image staged since (`SeenInThisBoot`), and what was on trial in an earlier one
is not pending again (`SeenInEarlierBoot`). With that an image that may still be accepted
(`Deliverable`) is neither on trial nor decided (`DeliveriesAreFresh`), because a decision
to deliver has seen that the device did not decide the update: a confirmed one would be
active, and an assignment has one image wherever it has got to (`HasOneImage`). A success
is recorded from a status that says so, and such a status is of a commit
(`CommitsAreTrue`). That a committed update is never recorded as failed needs more: a
confirmation is sent only when the record says `Confirming` (`CommitIsRecorded`), and a
decision made from an older status has seen the trial (`CommitIsSeen`); this holds while
the files are in step with memory (`FilesAreInStep`), so `ConfirmationIsExact` excepts
behaviours with a torn write. The proof showed that the exception is needed, see below.
Most steps add nothing to what either side knows of the other (`Shrinks`); one lemma
each does the parts of the invariant for all of them.

`BoardInventoryProofs`. `Inv` adds what the handler at the gate is about (`EditShape`):
which step it is in, that its board was not leased when it began, that what it will
commit is valid and clashes with no other board (`EditIsUnique`), and how the files
differ from memory at each step (`FilesFollow`). An edit may be dropped at any of these steps,
so each says of the boards outside the histories what an edit has to say of all; a later edit
takes a board out of them again where it writes its file or syncs its entry. With it the
properties of the run hold for any boards, DTBs, MACs, devices and requests in flight.

`BoardInventoryProofs` on `NetworkTest`. `NetIInv` says of the permits which tests hold
one, not only how many are out: `PermitsMatch` equates what is taken with the tests that
have a direction running, and the count a test keeps with its directions, so that a second
finish would show. A direction that has not begun has measured nothing
(`NothingBeforeTheStart`), without which a completed download might have sent more than
was asked for. That the registry is bounded needs that a test which can be evicted leaves
an oldest one to evict (`OldestExists`, by the well-foundedness of the numbers).
`ResultStays` is proved of each step from the same invariant.

`BoardLeaseProofs` on the parts around the leases. `VirtualLab`: at each step of `up` and
`down` what the earlier ones have made is there, whatever was killed before
(`StepsAreInOrder`); an `up` that failed by itself has left neither a namespace nor a pair,
and the next one meets nothing on its way (`NextUpIsFree`), because the daemon, which
alone can be out of reach, strays only in a mishap (`NothingStrays`). `SessionFiles`: a
promise is given when its writer is done and taken back when another one begins, so
nobody is at a promised file (`PromisesAreFree`); who is alone with a file finds there
what he left (`AloneIsAlone`), and a reader that relies on a promise sees the length it
began with (`SureIsPromised`). The proof needs that the mark of a mixed file is not a
content. `ServerSetup`: a change passes through the port, the memory, the file and the
manager in this order, and at each step those behind are what they were
(`PortFollows`, `FileFollows`, `ManagerFollows`); this is so while one request at a time
is at work (`OneAtATime`), which `torn` excepts because no lock keeps two apart, and until a
client leaves (`parted`), after which one answered change of TFTP has written all four again.
The root of the port is excepted by `strayed`.

`SerialManagerProofs` on `SerialIdentity`. What a search has read is still so as long as
nothing is plugged (`SearchesAreFresh`): the devices, the links, the name found and
what the key names; a number that is not told is borrowed from the only device there is
(`NumberIsRight`), and what is resolved from both maps and from the links as they are is
one device the key names (`ResolvesRight`). A plug ends this for all who search, so
`moved` is all that has to be excepted. Names and sockets of plugged devices are
different (`BusIsOrderly`). That settings are restored rests on `OneUser`: without an
overlap a device has one user, who has not read the raw mode of another.

`OtaUpdatesProofs` on the ways to a serial port. Both are about bytes or chunks that pass
through several places, and both properties speak of all places at once; the invariants
take them apart. In `SerialHub` each place, and each pair of places, is in order for every
console (`InputFollows`), so that a chunk that moves is a head cut off and a tail added,
whatever the chunks of other consoles in the shared queue are (`OthersChunk`);
what a console has got and will replay ends right before the chunk it receives next, unless it
has lagged (`OutputFollows`). In `SerialConsole` each place holds the bytes that follow those
of the place after it: the line is behind the buffer as long as the thread reads, which an
overflow ends (`LineFollows`), the buffer is behind what was taken, and the chunks of the
output queue are chained from what was shown to what was taken (`Chained`, without a sum of
their lengths). Commands are chained by their chunks (`Whole`), so that a command that is added
behind the last one keeps all whole (`AppendIsWhole`). That a wake-up is not lost rests on the
task having its waker registered or being awake whenever it looks or waits (`TakeFollows`).

`BoardRunProofs`. `Inv` says for each process when its console is open (`LinkInv`), when
it holds a session (`SessionInv`), what its result says so far (`ResultInv`) and which
directory is its own (`StagingInv`); that a free directory is empty, that two consoles
are not open on one port, and that from the prompt on a board runs nothing but what
the connected run gave it (`TargetInv`). A frame lemma reduces each step to what it
changes of its own process.

`HostProofs`. For the login, who holds the locks and that as long as a refresh is under way
no usable result of another one is stored. For builds, at which stage a preparation is true and
what an unfinished analysis has written. For QEMU, how much of the cache is of the release that
the digest names, also while a killed clear has left some of it, and how much of the disk is of
this run at each step. For FIT images, that the unique segment of a section gives the address a loader
would give it, that the least of them is the base of a BIN, and so that every byte and
the entry lie where they should: here the least element of a set of numbers is found
by the well-foundedness of the numbers, not by evaluation.

`HostProofs` on `ConsoleRun`. `VerdictsAreRight` is about any alphabet, any output in chunks
cut anywhere, any accepted shell checks and any order of the loop, the sender, the writer
and the timeouts. `ConsoleInv` says, beside the types, that the window is the end of what was
read and a match in all of it is a match recorded (`WindowIsEnd`); that the matcher stands
where reading the whole output as one string would put it (`Follows`, with `rest` as
what is left of it since its phase began, the history as its end and the pending output
as what came behind the prompt); that a sequence succeeds or fails, once (`EndsOnce`); and
that one command at a time is on its way, and behind its last chunk come keys only
(`DeliveryIsInOrder`), without which a flush could be taken for that of another command.
Three groups of lemmas carry it. To look for a pattern in the end of what was read
without a match, followed by what comes, finds what a look at all of it finds, and leaves
the same behind it (`WindowFinds`, `WindowMoves`). A recursive function on a set whose
steps get smaller exists and satisfies its equation (`RecursionExists`, from the
well-foundedness of the numbers: the loop of `process_block` and the reading of the steps
are such functions). The loop ends where the steps, read off one after the other, leave
the text (`ScanReads`), and a history in place of the text gives the same (`ScanWindow`).
The theorem assumes `PatternsFit`: a pattern is not longer than what is kept. For
prompts the code sees to that (32 times the length of the prompt, `shell_check.rs:486`); a
regular expression of the user may match more than 2048 bytes, and then a cut may hide it.

`AdminProofs`. `RegistryInv` is inductive with the conjuncts the run checks. `EventsInv`
is not: that a quiet projection is current needs that every topic that is not shown as
it is will be read again (`Pending`), which for the overview rests on the status never
being dirty without it (`OverviewFollows`). That a browser is one replay away from the
projection is true of the whole queue, but a connection breaks in the middle of one:
`PrefixesAreExact` says that after each prefix of its queue a browser shows the topics
that no later update carries as the projection does, `HistoryIsExact` that the last
update with a topic has what is shown, `StreamsAreOfThisRun` that no cursor is of the
future. `Shows` states what a merge yields by the last update that carries a topic,
so that the merge of any length needs no induction.

Only model-checked:

- every liveness property: the prover has no rules for fairness and ENABLED;
- `EditorIsHonest`: the document of a schema is recursive (`ConfigDocument`), and the
  prover does not take recursive operators.

## What the models show beside the properties

Behaviours of the code that the models contain and that differ from what its documents
say, or that a reviewer might not expect. They have no run of their own; a property that
would exclude one names the exception.

Leases and serial ports. A client that goes away between the claim and the insert of POST
/sessions leaves its board `Using` under a session nobody knows, until the server restarts
(`state.rs:290-297`). A power-on, an upload or a WebSocket handshake that passed its
check before the stop acts after the release (`router.rs:2150`, `router.rs:1756`), so an
idle board may be on and files may stay, also in an old TFTP root. The shutdown signal is
lost when the WebSocket has not subscribed yet; a release whose wait for the tasks times out
powers the board off first (`state.rs:695`); `serial_connected` stays set when a
connection never upgrades (`router.rs:1760`). A lost port leaves its name and binding in
the status (`runtime.rs:502`). After a power cycle with a kept port the device has no
deadline, where the documents say 60 seconds; a reconciliation that observed the board
before a power-off and subscribes after it starts the deadline of a board that is off
(`device.rs:204`); the verification deadline of an abandoned attempt takes away a port
that has just been verified (`runtime.rs:424`). A refused refresh of the exclusions leaves
a relay's port to discovery (`docs/axloader-serial-ownership.md:67`).

Inventory, loaders, updates and events. A board edit whose client goes away stops where it is:
the file of the board may be new and the map old, the old relay may be free for discovery, a
board may be in the map without a runtime entry (a claim of it is then tried for ever) or keep
one that is gone; when the refresh of the exclusions is refused, the roll-back is left out
(`router.rs:502`). A deletion of a virtual device that is dropped forgets a QEMU that runs on,
and no later shutdown ends it. A DTB rename rewrites boards without the gate
(`docs/api.md:381`, `:556`) and does not invalidate their topic. `write_board` uses one
temporary name for all writers of a board. The expiry of a loader may not be published
(`loader.rs:189` and `docs/admin-ui.md:98`). A conflict of announcing loaders never
clears while the recorded one keeps announcing; one of polling loaders is cleared by the
next prune. An observation that was stored while its decision was aborted is not a
change for the next decision, so a parked update stays parked until the device changes
again (`ota.rs:353`). A committed update can be recorded as failed: `jobs.json` is
renamed to `Confirming` but the sync fails, so memory stays `Downloading`; the trial is
rolled back, a direct upload is tried and confirmed, and the image is delivered a second
time, which changes nothing in the record and so is not saved (`ota.rs:458`); a restart
brings back `Confirming`, a failed save of `Staged` leaves `Staged` in the file, the next
trial finds `Confirming` in memory and again saves nothing; the device commits, the
server restarts with `Staged`, and `decide` ends the assignment with "image already
active without this assignment's confirmation". It takes two failed syncs, two restarts
and five boots, more than the run explores.

Runs. `connect` keeps its session until it expires when it ends early; the clean-up of a
run switches off a board whose port another run has (`uboot.rs:853`); a network request
is made with a static address although `net list` failed (`uboot.rs:1617`); a transfer by
YMODEM waits without a timeout (`uboot.rs:62`); a reset in the middle of a sequence keeps
only the later variables. A fail pattern may depend on where the output was cut; output between
a prompt and the flush is read again; a sequence that completes while a match is drained
may be reported as timed out; QEMU is waited for without end when the input ends during
the drain of a fail match without shell checks; the terminal stays in raw mode when the
monitor of the loader's status fails.

Commands of the host. A refresh is made with the record the task came with
(`token_manager.rs:93`): when what another process has stored since has aged as well, the server
answers `invalid_grant` and the newer record is deleted; login, import and logout take no lock,
so a refresh under way deletes or replaces the login stored meanwhile; a crash
between the rotation of a token and its save loses the login; a torn `hosts.json` has to be
removed by hand. Two updaters may meet in the firmware cache. The digest of the cache is removed
with the other files, in any order: when a newer ostool is killed there and an older one comes
back, it may trust the digest and start QEMU without a firmware, or fail for want of the
variables. The directory shown as the disk of the firmware is `fat:rw` and never cleared: kernel,
initramfs and command line are written anew by each run, other files that a guest left stay. With `to_bin` Cargo makes
the BIN before the post-build commands; a library command that fails leaves earlier
artifacts registered; a failed removal of analysis outputs is only a warning. The header
of a LoongArch kernel is compared with load and size without an overflow check. `jkconfig`:
entries of `Cargo.env` are lost by a save, text of an array that looks like a number is
written as one, a configuration that is there but cannot be read (no permission, an I/O error,
bytes that are no UTF-8) is edited as an empty one by ostool and a confirmed save replaces it
without a backup, where the comment of `run()` promises an error (`run.rs:19`, `run.rs:29`),
a variant read from an empty table is not checked, `run()` saves without
the backup its README (318-320) describes, Ctrl-S does not take over text that is being
typed, and an integer that cannot be parsed ends the editor with all edits lost
(`ui/mod.rs:226`).

Settings, files and the lab. A builtin TFTP server whose start failed stays marked as
started and its error reaches no status; it never stops, also when the settings ask for
another provider; a save truncates and writes without a lock; a client that goes away during
it leaves the new settings in memory and file and the old manager in use. A listing fails when any
file or directory below the session goes while it looks (`tftp/files.rs:122`). An upload whose file is deleted
while it is written is answered with 201; one that comes late leaves a directory nobody
removes; a valid one may be answered with 503 when the directory is cleaned up between
`create_dir_all` and the write; `get_session_dtb`, a GET, writes a file and does not ask
whether the session is closing. A dnsmasq whose pid file is written too late is never killed;
`down` fails when the kernel frees the pair between its look and its delete, and the second
`up` recovers.

Serial ports. Between the search for a key and the open another device can take the name;
the settings of a terminal are read before its lock is taken, so two openers that overlap can
leave it raw; a relay is opened without a lock and not restored. Input typed at a virtual board
without a connection is held by its task after the console is gone and goes to the next
connection.

## Not modelled, and the plan

Not modelled: the TFTP protocol (a library), the frames of relays and the commands of power
scripts, routing and serialisation, the frames of the HTTP boot protocol and of YMODEM,
regular expressions, the encoder of the FIT tree, the command line. These are input and
output, or pure functions on bytes that unit tests cover; the
modules have their outcomes. The poll, download and status requests of the previous
update protocol are modelled as far as the registry goes, not as far as they change updates.

Of what the modules are about, some edges are left out as well. A file operation of a dropped
handler that lands later than the drop (`tokio::fs` runs it in a pool); in `ServerSetup`, where
this is the whole point, it is there. The QEMU of a virtual board after a kill of the server:
nothing ends it, and the next server starts its own (`Restart` is the orderly stop of
`main.rs:154`). A creation of a virtual device that is dropped is a device whose QEMU goes away
(`QemuExits`). Half-written temporary files, which no reader opens. Files of other directories
beside the one that is listed. Other files that a guest leaves on the disk of the firmware, and the
guest of a killed ostool that runs on beside the next run.

Next: an abstract update service (queued, tried, ended) and the refinement of it; the
serialisation of power actions per resource.
