--------------------------- MODULE BoardInventory ---------------------------
(***************************************************************************)
(* The inventory of ostool-server: the board configurations in memory and  *)
(* in board_dir, the runtime entries that leases are made of, the relay    *)
(* ports withheld from serial discovery, the DTB store, the virtual        *)
(* devices and the power actions of the admin API (api/router.rs,          *)
(* state.rs, board_store/fs.rs, dtb_store, virtual_qemu.rs,                *)
(* admin_power.rs).                                                        *)
(*                                                                         *)
(* Board edits, session creation, power actions and the deletion of a      *)
(* virtual device hold board_inventory_gate: `edit` is the handler that    *)
(* holds it across an await.  DTB requests, the end of a session and a     *)
(* power call that is already running do not take the gate.                *)
(*                                                                         *)
(* Handlers are awaited by their connection: a client that goes away drops *)
(* its handler at the await it has reached, and the gate with it.  A file  *)
(* operation under way at that moment has landed or has not, which is the  *)
(* drop after or before its step.                                          *)
(***************************************************************************)
EXTENDS Integers, FiniteSets

CONSTANTS
  Boards,      \* board ids, numbered in the order of their file names
  Dtbs,        \* DTB file names
  Macs,        \* permanent MAC addresses
  Relays,      \* serial ports of Zhongsheng relays
  Devices,     \* virtual QEMU devices
  DeviceMac,   \* the MAC a virtual device is created with
  Templates,   \* bound: the configurations that administrators submit
  DtbRequests, \* bound: DTB requests in flight at a time
  None,
  MaxEdits,    \* bound: board edits
  MaxActions,  \* bound: power actions at a time
  MaxFaults    \* bound: failures of file operations and of QEMU, dropped edits, and restarts

Power == {"custom"} \cup Relays \cup Devices

Config == [dtb : Dtbs \cup {None}, mac : Macs \cup {None}, power : Power, disabled : BOOLEAN]

\* BoardConfig::validate: a QEMU board uses httpboot, which has a MAC and no preset DTB.
validate(c) == c.power \in Devices => c.mac # None /\ c.dtb = None

\* build_board_config_for_create and _for_update: the request is trimmed and normalised, and
\* refused when it is malformed or validate_board_config refuses it.
Accepted == {c \in Templates : validate(c)}

ASSUME InventoryAssumption ==
  /\ Boards \subseteq Nat /\ None \notin Config \cup Boards \cup Dtbs \cup Macs \cup {"Idle", "Using"}
  /\ DeviceMac \in [Devices -> Macs]
  /\ Templates \subseteq Config
  /\ MaxEdits \in Nat /\ MaxActions \in Nat /\ MaxFaults \in Nat

VARIABLES
  boards,      \* AppState::boards
  files,       \* the TOML files of board_dir
  runtimes,    \* AppState::board_runtimes: the lease state, or None
  session,     \* the BoardConfig the session of a board was created with, or None
  edit,        \* the handler that holds board_inventory_gate
  exclusions,  \* relay ports the serial manager leaves alone
  leased,      \* relay ports a serial lease or reservation holds
  dtbs,        \* the files of dtb_dir
  dtb,         \* the DTB requests
  devices,     \* VirtualBoardManager::devices: unborn, starting, present, deleting or absent
  qemu,        \* devices whose QEMU process runs
  poweron,     \* power-on calls of sessions that hold their device's Arc
  busy,        \* AdminPower: resources of running actions
  edits, faults,
  overwritten, \* history: a DTB rename put back a board that had been edited meanwhile
  exposed,     \* history: boards that an update had given up the relay of when it ended unfinished
  torn,        \* history: boards whose file an edit left different from the inventory
  unsynced,    \* history: boards of an edit dropped before the runtime entries followed
  unstarted,   \* history: devices removed because their QEMU did not start
  orphaned     \* history: devices of a deletion dropped before their QEMU had ended

diskVars == <<files, dtbs>>
serialVars == <<exclusions, leased, exposed>>
deviceVars == <<devices, qemu, poweron, unstarted, orphaned>>
leaseVars == <<runtimes, session>>
boundVars == <<edits, faults>>
brokenVars == <<overwritten, torn, unsynced>>
vars == <<boards, diskVars, leaseVars, edit, serialVars, dtb, deviceVars, busy, boundVars, brokenVars>>

-----------------------------------------------------------------------------
NoEdit == [op |-> "none", pc |-> "none", old |-> None, new |-> None, config |-> None]
NoRequest == [pc |-> "none", name |-> None, to |-> None,
              affected |-> [b \in Boards |-> None], todo |-> {}]

Edit == [op : {"none", "create", "update", "delete", "device"},
         pc : {"none", "write", "remove", "rollback", "commit", "sync", "refresh", "stop"},
         old : Boards \cup Devices \cup {None}, new : Boards \cup {None}, config : Config \cup {None}]
DtbRequest == [pc : {"none", "rename", "read", "files", "body", "unlink"},
               name : Dtbs \cup {None}, to : Dtbs \cup {None},
               affected : [Boards -> Config \cup {None}], todo : SUBSET Boards]

\* Configurations, files, requests and devices keep their types.
TypeOK ==
  /\ boards \in [Boards -> Config \cup {None}] /\ files \in [Boards -> Config \cup {None}]
  /\ runtimes \in [Boards -> {None, "Idle", "Using"}] /\ session \in [Boards -> Config \cup {None}]
  /\ edit \in Edit /\ dtb \in [DtbRequests -> DtbRequest]
  /\ exclusions \subseteq Relays /\ leased \subseteq Relays /\ dtbs \subseteq Dtbs
  /\ devices \in [Devices -> {"unborn", "absent", "starting", "present", "deleting"}]
  /\ qemu \subseteq Devices /\ poweron \subseteq Devices /\ busy \subseteq Power
  /\ edits \in 0..MaxEdits /\ faults \in 0..MaxFaults
  /\ overwritten \in BOOLEAN /\ exposed \subseteq Boards /\ torn \subseteq Boards
  /\ unsynced \subseteq Boards /\ unstarted \subseteq Devices /\ orphaned \subseteq Devices

Ids(bs) == {b \in Boards : bs[b] # None}
relay_selectors(bs) == {p \in Relays : \E b \in Ids(bs) : bs[b].power = p}

Init ==
  /\ boards = [b \in Boards |-> None] /\ files = [b \in Boards |-> None]
  /\ runtimes = [b \in Boards |-> None] /\ session = [b \in Boards |-> None]
  /\ edit = NoEdit /\ dtb = [r \in DtbRequests |-> NoRequest]
  /\ exclusions = {} /\ leased = {} /\ dtbs = {}
  /\ devices = [d \in Devices |-> "unborn"] /\ qemu = {} /\ poweron = {} /\ busy = {}
  /\ edits = 0 /\ faults = 0
  /\ overwritten = FALSE /\ exposed = {} /\ torn = {} /\ unsynced = {}
  /\ unstarted = {} /\ orphaned = {}

Fault == faults < MaxFaults /\ faults' = faults + 1

-----------------------------------------------------------------------------
(***************************************************************************)
(* The serial manager as the inventory uses it.                            *)
(***************************************************************************)
\* Command::Exclude refuses a new selector whose port is leased.
Excludable(S) == (S \ exclusions) \cap leased = {}

\* An update gives up the relay of the old board before the inventory does.
Unready == edit.op \in {"create", "update"} /\ edit.pc \in {"write", "remove", "commit"}
GivenUp == IF Unready /\ edit.op = "update" THEN {edit.old} ELSE {}

Exclude(S) ==
  /\ exclusions' = IF Excludable(S) THEN S ELSE exclusions
  /\ exposed' = IF Excludable(S) THEN {} ELSE exposed \cup GivenUp

\* Mutant: the port of a relay is withheld only once its board is in the inventory.
Mutant_prepare_old_boards(c, replaced) == relay_selectors(boards)

\* prepare_board_serial_exclusions: the relays of the inventory as the edit will leave it.
Prepared(c, replaced) ==
  relay_selectors([b \in Boards |-> IF b = replaced THEN None ELSE boards[b]]) \cup (Relays \cap {c.power})

\* refresh_serial_exclusions
Refresh(bs) == Exclude(relay_selectors(bs))

\* A session, an identification scan or a power action leases or reserves a port.
PortLeased(p) ==
  /\ p \notin leased \cup exclusions
  /\ leased' = leased \cup {p}
  /\ UNCHANGED <<boards, diskVars, leaseVars, edit, exclusions, exposed, dtb, deviceVars, busy,
                 boundVars, brokenVars>>

PortReleased(p) ==
  /\ p \in leased
  /\ leased' = leased \ {p}
  /\ UNCHANGED <<boards, diskVars, leaseVars, edit, exclusions, exposed, dtb, deviceVars, busy,
                 boundVars, brokenVars>>

-----------------------------------------------------------------------------
(***************************************************************************)
(* Board edits.  Every handler holds the gate from its checks to its reply.*)
(***************************************************************************)
GateIsFree == edit.op = "none"

ensure_unique_network_identity(c, replaced) ==
  c.mac # None => \A b \in Ids(boards) \ {replaced} : boards[b].mac # c.mac

\* validate_virtual_binding: the device is in the map and has the MAC of the board; a new
\* binding also needs a loader with that MAC online, which the environment decides.
validate_virtual_binding(c) ==
  c.power \in Devices => devices[c.power] \in {"starting", "present"} /\ DeviceMac[c.power] = c.mac

\* sync_board_runtime_states: a board keeps its entry, a new one is Idle.
sync_board_runtime_states(bs) ==
  runtimes' = [b \in Boards |-> IF bs[b] = None THEN None
                                ELSE IF runtimes[b] = None THEN "Idle" ELSE runtimes[b]]

BeginEdit(e) ==
  /\ GateIsFree /\ edits < MaxEdits
  /\ edit' = e /\ edits' = edits + 1
  /\ UNCHANGED <<boards, diskVars, leaseVars, leased, dtb, deviceVars, busy, faults, brokenVars>>

\* allocate_board_id, or the id of the request: one that is not in use.
FreeIds == Boards \ Ids(boards)

\* create_board up to write_board.
CreateBoard(b, c) ==
  /\ c \in Accepted /\ c.power \notin busy /\ validate_virtual_binding(c)
  /\ b \in FreeIds /\ ensure_unique_network_identity(c, None)
  /\ Excludable(Prepared(c, None)) /\ Exclude(Prepared(c, None))
  /\ BeginEdit([op |-> "create", pc |-> "write", old |-> b, new |-> b, config |-> c])

\* The board is Idle: update_board and delete_board refuse a leased one.
Editable(b) == runtimes[b] = "Idle"

\* update_board up to write_board; a new id renames the board.
UpdateBoard(b, id, c) ==
  /\ c \in Accepted /\ boards[b] # None /\ c.power \notin busy /\ boards[b].power \notin busy
  /\ validate_virtual_binding(c)
  /\ id # b => id \in FreeIds
  /\ ensure_unique_network_identity(c, b) /\ Editable(b)
  /\ Excludable(Prepared(c, b)) /\ Exclude(Prepared(c, b))
  /\ BeginEdit([op |-> "update", pc |-> "write", old |-> b, new |-> id, config |-> c])

\* delete_board up to the removal of the file.
DeleteBoard(b) ==
  /\ boards[b] # None => boards[b].power \notin busy
  /\ Editable(b) /\ boards[b] # None
  /\ UNCHANGED <<exclusions, exposed>>
  /\ BeginEdit([op |-> "delete", pc |-> "remove", old |-> b, new |-> None, config |-> None])

EditFrame == UNCHANGED <<session, leased, dtbs, dtb, deviceVars, busy, edits, overwritten>>

Edited == [b \in Boards |-> IF b = edit.new THEN edit.config ELSE IF b = edit.old THEN None ELSE boards[b]]

\* The inventory that the files hold as far as the edit has got, and the boards an edit that
\* ends here leaves different in their files.
Written ==
  [b \in Boards |-> IF edit.pc = "commit" THEN Edited[b]
                    ELSE IF edit.pc \in {"remove", "rollback"} /\ edit.op = "update" /\ b = edit.new THEN edit.config
                    ELSE boards[b]]
Unfinished == {b \in Boards : Written[b] # boards[b]}

\* write_board replaces the file by a rename.
EditWrites ==
  /\ edit.pc = "write"
  /\ files' = [files EXCEPT ![edit.new] = edit.config] /\ torn' = torn \ {edit.new}
  /\ edit' = [edit EXCEPT !.pc = IF edit.old = edit.new THEN "commit" ELSE "remove"]
  /\ EditFrame /\ UNCHANGED <<boards, runtimes, exclusions, exposed, faults, unsynced>>

EditWriteFails ==
  /\ edit.pc = "write" /\ Fault
  /\ Refresh(boards)
  /\ edit' = NoEdit
  /\ EditFrame /\ UNCHANGED <<boards, files, runtimes, torn, unsynced>>

\* FileBoardStore::delete_board
EditRemoves ==
  /\ edit.pc = "remove"
  /\ files' = [files EXCEPT ![edit.old] = None] /\ torn' = torn \ {edit.old}
  /\ edit' = [edit EXCEPT !.pc = "commit"]
  /\ EditFrame /\ UNCHANGED <<boards, runtimes, exclusions, exposed, faults, unsynced>>

\* Mutant: the new file of a rename that failed stays.
Mutant_no_rollback ==
  /\ edit.pc = "remove" /\ Fault
  /\ edit' = NoEdit
  /\ \/ edit.op = "delete" /\ UNCHANGED <<exclusions, exposed, torn>>
     \/ edit.op = "update" /\ Refresh(boards) /\ UNCHANGED torn
  /\ EditFrame /\ UNCHANGED <<boards, files, runtimes, unsynced>>

\* The relay of the old board is withheld again; when that is refused the handler returns
\* before it rolls the new file back.
EditRemoveFails ==
  /\ edit.pc = "remove" /\ Fault
  /\ \/ edit.op = "delete" /\ edit' = NoEdit /\ UNCHANGED <<exclusions, exposed, torn>>
     \/ /\ edit.op = "update" /\ Refresh(boards)
        /\ IF Excludable(relay_selectors(boards))
             THEN edit' = [edit EXCEPT !.pc = "rollback"] /\ UNCHANGED torn
             ELSE edit' = NoEdit /\ torn' = torn \cup Unfinished
  /\ EditFrame /\ UNCHANGED <<boards, files, runtimes, unsynced>>

\* The new file of a rename that failed is removed again.
EditRollsBack ==
  /\ edit.pc = "rollback"
  /\ \/ files' = [files EXCEPT ![edit.new] = None] /\ UNCHANGED <<faults, torn>>
     \/ Fault /\ torn' = torn \cup Unfinished /\ UNCHANGED files
  /\ edit' = NoEdit
  /\ EditFrame /\ UNCHANGED <<boards, runtimes, exclusions, exposed, unsynced>>

\* The map follows the files, ...
EditCommits ==
  /\ edit.pc = "commit"
  /\ boards' = Edited
  /\ edit' = [edit EXCEPT !.pc = "sync"]
  /\ EditFrame /\ UNCHANGED <<files, runtimes, exclusions, exposed, faults, torn, unsynced>>

\* ... the runtime entries of every board follow the map ...
EditSyncs ==
  /\ edit.pc = "sync"
  /\ sync_board_runtime_states(boards) /\ unsynced' = {}
  /\ edit' = [edit EXCEPT !.pc = "refresh"]
  /\ EditFrame /\ UNCHANGED <<boards, files, exclusions, exposed, faults, torn>>

\* ... and so do the exclusions; then the reply.
EditRefreshes ==
  /\ edit.pc = "refresh"
  /\ Refresh(boards)
  /\ edit' = NoEdit
  /\ EditFrame /\ UNCHANGED <<boards, files, runtimes, faults, torn, unsynced>>

\* The boards that the edit has changed in the map and not yet in the runtime entries.
Syncing == IF edit.pc = "sync" THEN {edit.old, edit.new} \cap Boards ELSE {}

\* The client goes away: nothing that was done is undone.
EditDropped ==
  /\ edit.op \in {"create", "update", "delete"} /\ Fault
  /\ torn' = torn \cup Unfinished
  /\ exposed' = exposed \cup GivenUp
  /\ unsynced' = unsynced \cup Syncing
  /\ edit' = NoEdit
  /\ EditFrame /\ UNCHANGED <<boards, files, runtimes, exclusions>>

-----------------------------------------------------------------------------
(***************************************************************************)
(* Sessions and power actions, as far as they meet the inventory; what a   *)
(* session does between its creation and its release is BoardLease.        *)
(***************************************************************************)
Allocatable(b) == boards[b] # None /\ ~boards[b].disabled /\ boards[b].power \notin busy

\* create_session_inner: the claim succeeds because the runtime entry is Idle.  One that is dropped
\* after its claim is, to the inventory, a session that is never released.
CreateSession(b) ==
  /\ GateIsFree /\ Allocatable(b) /\ runtimes[b] = "Idle"
  /\ runtimes' = [runtimes EXCEPT ![b] = "Using"]
  /\ session' = [session EXCEPT ![b] = boards[b]]
  /\ UNCHANGED <<boards, diskVars, edit, serialVars, dtb, deviceVars, busy, boundVars, brokenVars>>

\* complete_session_release
ReleaseSession(b) ==
  /\ session[b] # None
  /\ runtimes' = [runtimes EXCEPT ![b] = IF @ = None THEN None ELSE "Idle"]
  /\ session' = [session EXCEPT ![b] = None]
  /\ UNCHANGED <<boards, diskVars, edit, serialVars, dtb, deviceVars, busy, boundVars, brokenVars>>

\* admin_power::create: the resource is free and no leased board uses it.
PowerAction(p) ==
  /\ GateIsFree /\ p \notin busy /\ Cardinality(busy) < MaxActions
  /\ p \in Devices => devices[p] \in {"starting", "present"}
  /\ \A b \in Ids(boards) : boards[b].power = p => runtimes[b] # "Using"
  /\ busy' = busy \cup {p}
  /\ UNCHANGED <<boards, diskVars, leaseVars, edit, serialVars, dtb, deviceVars, boundVars, brokenVars>>

\* The spawned job runs the action, which may fail, and gives the resource back.
PowerActionEnds(p) ==
  /\ p \in busy
  /\ busy' = busy \ {p}
  /\ qemu' \in IF p \in Devices /\ devices[p] \in {"starting", "present"}
                 THEN {qemu, qemu \cup {p}, qemu \ {p}} ELSE {qemu}
  /\ UNCHANGED <<boards, diskVars, leaseVars, edit, serialVars, dtb, devices, poweron, unstarted, orphaned,
                 boundVars, brokenVars>>

-----------------------------------------------------------------------------
(***************************************************************************)
(* Virtual devices.                                                        *)
(***************************************************************************)
DeviceFrame == UNCHANGED <<boards, diskVars, leaseVars, serialVars, dtb, busy, edits,
                           brokenVars>>

\* create_device puts a device with a fresh id into the map and then starts its QEMU.
CreateDevice(d) ==
  /\ devices[d] = "unborn"
  /\ devices' = [devices EXCEPT ![d] = "starting"]
  /\ DeviceFrame /\ UNCHANGED <<edit, qemu, poweron, unstarted, faults, orphaned>>

DeviceStarts(d) ==
  /\ devices[d] = "starting"
  /\ devices' = [devices EXCEPT ![d] = "present"] /\ qemu' = qemu \cup {d}
  /\ DeviceFrame /\ UNCHANGED <<edit, poweron, unstarted, faults, orphaned>>

\* QEMU exits or its serial channel does not connect in time: the device is removed again.
DeviceStartFails(d) ==
  /\ devices[d] = "starting" /\ Fault
  /\ devices' = [devices EXCEPT ![d] = "absent"] /\ qemu' = qemu \ {d}
  /\ unstarted' = unstarted \cup {d}
  /\ DeviceFrame /\ UNCHANGED <<edit, poweron, orphaned>>

Unbound(d) == \A b \in Ids(boards) : boards[b].power # d

\* delete_virtual_device up to power_off_device, under the gate.
DeleteDevice(d) ==
  /\ GateIsFree /\ d \notin busy /\ Unbound(d) /\ devices[d] = "present"
  /\ devices' = [devices EXCEPT ![d] = "deleting"]
  /\ edit' = [NoEdit EXCEPT !.op = "device", !.pc = "stop", !.old = d]
  /\ DeviceFrame /\ UNCHANGED <<qemu, poweron, unstarted, faults, orphaned>>

\* QEMU has ended and the device is forgotten, or it cannot be killed and the device is put back.
DeviceStops(d) ==
  /\ edit.op = "device" /\ edit.old = d
  /\ \/ qemu' = qemu \ {d} /\ devices' = [devices EXCEPT ![d] = "absent"] /\ UNCHANGED faults
     \/ Fault /\ devices' = [devices EXCEPT ![d] = "present"] /\ UNCHANGED qemu
  /\ edit' = NoEdit
  /\ DeviceFrame /\ UNCHANGED <<poweron, unstarted, orphaned>>

\* The client of the deletion goes away before QEMU has ended: the device is forgotten all the same.
DeviceStopDropped(d) ==
  /\ edit.op = "device" /\ edit.old = d /\ Fault
  /\ devices' = [devices EXCEPT ![d] = "absent"] /\ orphaned' = orphaned \cup {d}
  /\ edit' = NoEdit
  /\ DeviceFrame /\ UNCHANGED <<qemu, poweron, unstarted>>

\* execute_board_power_action of a session clones the device's Arc ...
SessionPowerOn(b) ==
  /\ session[b] # None /\ session[b].power \in Devices
  /\ devices[session[b].power] \in {"starting", "present"}
  /\ poweron' = poweron \cup {session[b].power}
  /\ DeviceFrame /\ UNCHANGED <<edit, devices, qemu, unstarted, faults, orphaned>>

\* QEMU ends by itself, or is killed from outside.
QemuExits(d) ==
  /\ d \in qemu
  /\ qemu' = qemu \ {d}
  /\ DeviceFrame /\ UNCHANGED <<edit, devices, poweron, unstarted, faults, orphaned>>

\* A removed device is marked, or has lost the serial hub without which QEMU is killed again.
NotDeleting(d) == devices[d] \notin {"deleting", "absent"}

\* ... and starts QEMU under the runtime lock, whatever has happened to the device since.
PowerOnRuns(d) ==
  /\ d \in poweron
  /\ poweron' = poweron \ {d}
  /\ qemu' = IF NotDeleting(d) THEN qemu \cup {d} ELSE qemu
  /\ DeviceFrame /\ UNCHANGED <<edit, devices, unstarted, faults, orphaned>>

-----------------------------------------------------------------------------
(***************************************************************************)
(* DTB requests, which do not take the gate.                               *)
(***************************************************************************)
DtbFrame == UNCHANGED <<leaseVars, edit, serialVars, deviceVars, busy, edits, torn, unsynced>>

At(r, pc) == dtb[r].pc = pc
Goes(r, pc) == dtb' = [dtb EXCEPT ![r].pc = pc]
Ends(r) == dtb' = [dtb EXCEPT ![r] = NoRequest]

\* create_dtb: the body has been read and the name is free.
CreateDtb(r, d) ==
  /\ At(r, "none") /\ d \notin dtbs
  /\ dtb' = [dtb EXCEPT ![r] = [NoRequest EXCEPT !.pc = "body", !.to = d]]
  /\ DtbFrame /\ UNCHANGED <<boards, diskVars, faults, overwritten>>

\* update_dtb with a body only.
ReplaceDtb(r, d) ==
  /\ At(r, "none")
  /\ dtb' = [dtb EXCEPT ![r] = [NoRequest EXCEPT !.pc = "body", !.to = d]]
  /\ DtbFrame /\ UNCHANGED <<boards, diskVars, faults, overwritten>>

\* update_dtb with a new name that is free, perhaps with a body.
UpdateDtb(r, d, to) ==
  /\ At(r, "none") /\ to # d /\ to \notin dtbs
  /\ dtb' = [dtb EXCEPT ![r] = [NoRequest EXCEPT !.pc = "rename", !.name = d, !.to = to]]
  /\ DtbFrame /\ UNCHANGED <<boards, diskVars, faults, overwritten>>

\* DtbStore::rename after its try_exists; the file may be gone.
RenameDtb(r) ==
  /\ At(r, "rename")
  /\ IF dtb[r].name \in dtbs THEN dtbs' = (dtbs \ {dtb[r].name}) \cup {dtb[r].to} /\ Goes(r, "read")
                             ELSE Ends(r) /\ UNCHANGED dtbs
  /\ DtbFrame /\ UNCHANGED <<boards, files, faults, overwritten>>

Renamed(r) ==
  [b \in Boards |-> IF boards[b] # None /\ boards[b].dtb = dtb[r].name
                      THEN [boards[b] EXCEPT !.dtb = dtb[r].to] ELSE None]

\* rewrite_board_dtb_references copies the boards that name the old file.
RewriteReads(r) ==
  /\ At(r, "read")
  /\ dtb' = [dtb EXCEPT ![r].pc = "files", ![r].affected = Renamed(r), ![r].todo = Ids(Renamed(r))]
  /\ DtbFrame /\ UNCHANGED <<boards, diskVars, faults, overwritten>>

SameEdit(f, c) ==
  IF f = None \/ c = None THEN f = c ELSE f.mac = c.mac /\ f.power = c.power

\* The copy of the request undoes an edit of the board that was made since it was taken.
Undoes(r, b, current) ==
  \/ ~SameEdit(current, dtb[r].affected[b])
  \/ current.dtb \notin {dtb[r].name, dtb[r].to}

\* Every copy is written to its file, in turn, ...
RewriteFiles(r) ==
  /\ At(r, "files")
  /\ \E b \in dtb[r].todo :
       /\ \A a \in dtb[r].todo : b <= a
       /\ files' = [files EXCEPT ![b] = dtb[r].affected[b]]
       /\ dtb' = [dtb EXCEPT ![r].todo = @ \ {b}]
       /\ overwritten' = (overwritten \/ (b \notin torn /\ Undoes(r, b, files[b])))
  /\ DtbFrame /\ UNCHANGED <<boards, dtbs, faults>>

RewriteFileFails(r) ==
  /\ At(r, "files") /\ dtb[r].todo # {} /\ Fault
  /\ Ends(r)
  /\ DtbFrame /\ UNCHANGED <<boards, diskVars, overwritten>>

Affected(r) == Ids(dtb[r].affected)

\* ... and then every copy replaces its board in memory; a body, if there is one, is next.
RewriteMemory(r) ==
  /\ At(r, "files") /\ dtb[r].todo = {}
  /\ boards' = [b \in Boards |-> IF b \in Affected(r) THEN dtb[r].affected[b] ELSE boards[b]]
  /\ overwritten' = (overwritten \/ \E b \in Affected(r) : Undoes(r, b, boards[b]))
  /\ Goes(r, "body") \/ Ends(r)
  /\ DtbFrame /\ UNCHANGED <<diskVars, faults>>

\* DtbStore::write
WriteDtb(r) ==
  /\ At(r, "body")
  /\ dtbs' = dtbs \cup {dtb[r].to}
  /\ Ends(r)
  /\ DtbFrame /\ UNCHANGED <<boards, files, faults, overwritten>>

\* The client of a DTB request goes away, wherever the request has got to.
DtbDropped(r) ==
  /\ ~At(r, "none")
  /\ Ends(r)
  /\ DtbFrame /\ UNCHANGED <<boards, diskVars, faults, overwritten>>

\* delete_dtb: no board names the file, and it exists ...
DeleteDtb(r, d) ==
  /\ At(r, "none") /\ d \in dtbs /\ \A b \in Ids(boards) : boards[b].dtb # d
  /\ dtb' = [dtb EXCEPT ![r] = [NoRequest EXCEPT !.pc = "unlink", !.name = d]]
  /\ DtbFrame /\ UNCHANGED <<boards, diskVars, faults, overwritten>>

\* ... when it is checked; the file is removed afterwards.
UnlinkDtb(r) ==
  /\ At(r, "unlink")
  /\ dtbs' = dtbs \ {dtb[r].name}
  /\ Ends(r)
  /\ DtbFrame /\ UNCHANGED <<boards, files, faults, overwritten>>

-----------------------------------------------------------------------------
(***************************************************************************)
(* Restart: build_app_state reads the files again.                         *)
(***************************************************************************)
\* load_all in file-name order: a board whose MAC an earlier file has is quarantined.
load_all ==
  [b \in Boards |->
     IF files[b] # None /\ \E a \in Ids(files) : a < b /\ files[a].mac # None /\ files[a].mac = files[b].mac
       THEN None ELSE files[b]]

\* power_off_all_boards_on_startup: a board that cannot be switched off is disabled in memory.
SwitchedOff(F) == [b \in Boards |-> IF b \in F THEN [load_all[b] EXCEPT !.disabled = TRUE] ELSE load_all[b]]

\* Virtual devices are restored for the boards bound to them; every board is switched off
\* but those of F.  The shutdown before it ends the QEMU of every device that is not forgotten.
Restart(F) ==
  /\ Fault
  /\ F \subseteq Ids(load_all)
  /\ boards' = SwitchedOff(F)
  /\ files' = load_all
  /\ runtimes' = [b \in Boards |-> IF load_all[b] = None THEN None ELSE "Idle"]
  /\ session' = [b \in Boards |-> None]
  /\ exclusions' = relay_selectors(load_all) /\ leased' = {} /\ exposed' = {}
  /\ devices' = [d \in Devices |->
       IF \E b \in Ids(load_all) : load_all[b].power = d THEN "present"
       ELSE IF devices[d] = "unborn" THEN "unborn" ELSE "absent"]
  /\ qemu' = qemu \cap orphaned /\ poweron' = {} /\ unstarted' = {} /\ busy' = {}
  /\ edit' = NoEdit /\ dtb' = [r \in DtbRequests |-> NoRequest]
  /\ overwritten' = FALSE /\ torn' = {} /\ unsynced' = {}
  /\ UNCHANGED <<dtbs, edits, orphaned>>

EditStep ==
  \/ EditWrites \/ EditWriteFails \/ EditRemoves \/ EditRemoveFails \/ EditRollsBack
  \/ EditCommits \/ EditSyncs \/ EditRefreshes \/ EditDropped

BoardStep ==
  \/ \E b \in Boards, c \in Templates : CreateBoard(b, c)
  \/ \E b, id \in Boards, c \in Templates : UpdateBoard(b, id, c)
  \/ \E b \in Boards : DeleteBoard(b) \/ CreateSession(b) \/ ReleaseSession(b)

PowerStep ==
  \/ \E p \in Power : PowerAction(p) \/ PowerActionEnds(p)
  \/ \E p \in Relays : PortLeased(p) \/ PortReleased(p)

DeviceStep ==
  \/ \E d \in Devices : CreateDevice(d) \/ DeviceStarts(d) \/ DeviceStartFails(d)
                         \/ DeleteDevice(d) \/ DeviceStops(d) \/ DeviceStopDropped(d)
                         \/ PowerOnRuns(d) \/ QemuExits(d)
  \/ \E b \in Boards : SessionPowerOn(b)

DtbStep(r) ==
  \/ \E d \in Dtbs : CreateDtb(r, d) \/ ReplaceDtb(r, d) \/ DeleteDtb(r, d)
  \/ \E d, to \in Dtbs : UpdateDtb(r, d, to)
  \/ RenameDtb(r) \/ RewriteReads(r) \/ RewriteFiles(r) \/ RewriteFileFails(r) \/ RewriteMemory(r)
  \/ WriteDtb(r) \/ UnlinkDtb(r) \/ DtbDropped(r)

Next ==
  \/ EditStep \/ BoardStep \/ PowerStep \/ DeviceStep
  \/ \E r \in DtbRequests : DtbStep(r)
  \/ \E F \in SUBSET Boards : Restart(F)

Spec == Init /\ [][Next]_vars

-----------------------------------------------------------------------------
(***************************************************************************)
(* Safety.  A DTB rename that lands on a board edited meanwhile breaks     *)
(* what the gate protects until the next restart: `overwritten` marks it.  *)
(***************************************************************************)
\* No two boards have the same permanent MAC, which is how a loader finds its board: not
\* through an edit, a rename of a board that stopped half-way, a failed roll-back or a restart.
NetworkIdentityIsUnique ==
  ~overwritten => \A a, b \in Ids(boards) : boards[a].mac = boards[b].mac /\ boards[a].mac # None => a = b

\* Outside an edit the files are the inventory: an edit that was answered survives a restart, and
\* one that was refused or failed does not come back.  Only a client that left during its edit, or
\* a roll-back that failed or was never reached, leaves a board of its own torn, until an edit or a
\* restart has dealt with its file.
EditsAreDurable ==
  GateIsFree /\ ~overwritten => \A b \in Boards \ torn : SameEdit(files[b], boards[b])

Guarded(bs) == {p \in Relays : \E b \in Ids(bs) \ exposed : bs[b].power = p}

\* Discovery never gets at the port of a board's relay, from the moment an edit of the board is
\* written.  The one exception is the old relay of an update that was dropped, or failed while
\* another lease had the port: it is free until some later edit withholds the ports again.
RelayPortIsExcluded ==
  ~overwritten => Guarded(IF Unready THEN Edited ELSE boards) \subseteq exclusions

\* A leased board is neither edited nor removed, and a board that can be allocated has a runtime
\* entry to claim (without one create_session_inner would retry for ever), unless it is the board
\* of an edit that has not synced them yet, or was dropped there with no later edit to do it.
LeasedBoardIsUntouched ==
  ~overwritten =>
    \A b \in Boards :
      /\ session[b] # None => runtimes[b] = "Using" /\ SameEdit(session[b], boards[b])
      /\ b \notin unsynced \cup Syncing => (boards[b] # None <=> runtimes[b] # None)

\* An edit of the inventory is the only way a board changes: it changes both or neither of the
\* inventory and its files, never under the session that uses the board, and whatever it leaves
\* half-done when its client goes away concerns its own boards only.
EditsAreSound == EditsAreDurable /\ LeasedBoardIsUntouched

\* Every board is one that validate accepts and can use its virtual device, and a deleted device
\* has no QEMU: not through a power call that was under way when its session, its board and the
\* device were removed, but a deletion whose client goes away forgets a QEMU that runs on.
VirtualDevicesAreSound ==
  /\ \A d \in Devices : devices[d] = "absent" => d \notin qemu \ orphaned
  /\ ~overwritten => \A b \in Ids(boards) :
       /\ validate(boards[b])
       /\ boards[b].power \in Devices \ unstarted => devices[boards[b].power] \in {"starting", "present"}

\* No step of an edit, a rename, a virtual device or a restart leaves an inventory the server
\* could not have been given.
InventoryInv == TypeOK /\ NetworkIdentityIsUnique /\ RelayPortIsExcluded /\ VirtualDevicesAreSound
=============================================================================
