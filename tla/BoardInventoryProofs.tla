------------------------ MODULE BoardInventoryProofs ------------------------
(***************************************************************************)
(* The inventory is sound for any number of boards, device trees, MAC      *)
(* addresses, relays, virtual devices and requests in flight, and for any  *)
(* configurations that administrators submit: no two boards have one MAC,  *)
(* the files are the inventory, a leased board is left alone, a relay's    *)
(* port is withheld and a deleted device has no QEMU.  So are the network  *)
(* tests of any number of clients.                                         *)
(***************************************************************************)
EXTENDS BoardInventory, NetworkTest, FiniteSetTheorems, WellFoundedInduction, TLAPS

Editing == edit.op \in {"create", "update"}

\* The map does not have the edit yet.
Pending == edit.pc \in {"write", "remove", "rollback", "commit"}

\* What the handler that holds the gate is about, and that its board was not leased.
EditShape ==
  /\ edit.op = "none" <=> edit.pc = "none"
  /\ Editing => edit.old \in Boards /\ edit.new \in Boards /\ edit.config \in Config
  /\ edit.op = "create" => edit.pc \in {"write", "commit", "sync", "refresh"} /\ edit.old = edit.new
  /\ edit.op = "update" => edit.pc \in {"write", "remove", "rollback", "commit", "sync", "refresh"}
  /\ edit.pc = "rollback" => edit.op = "update"
  /\ edit.pc \in {"remove", "rollback"} => edit.old # edit.new
  /\ edit.op = "delete" => /\ edit.pc \in {"remove", "commit", "sync", "refresh"}
                           /\ edit.old \in Boards /\ edit.new = None
  /\ edit.op = "device" => edit.pc = "stop" /\ edit.old \in Devices /\ devices[edit.old] = "deleting"
  /\ edit.op \in {"update", "delete"} /\ Pending => runtimes[edit.old] = "Idle"

\* The copies of a rename are valid, and it knows which file it renames, or makes.
RequestIsValid(x) ==
  /\ \A b \in Boards : x.affected[b] # None => validate(x.affected[b])
  /\ x.pc \in {"rename", "read"} => x.name \in Dtbs
  /\ x.pc \in {"rename", "read", "files", "body"} => x.to \in Dtbs

\* Whatever is in memory, in a file, in an edit or in the copy of a rename was validated, or is
\* what was validated with another DTB of a board that may have one.
ConfigsAreValid ==
  /\ \A b \in Ids(boards) : validate(boards[b])
  /\ \A b \in Ids(files) : validate(files[b])
  /\ edit.config # None => validate(edit.config)
  /\ \A r \in DtbRequests : RequestIsValid(dtb[r])

\* The devices of the boards and of an edit are there, unless their QEMU never started.
Usable(p) == p \in Devices \ unstarted => devices[p] \in {"starting", "present"}
DevicesAreBound ==
  /\ \A d \in Devices : devices[d] = "absent" => d \notin qemu \ orphaned
  /\ Editing => Usable(edit.config.power)
  /\ ~overwritten => \A b \in Ids(boards) : Usable(boards[b].power)

\* What an edit has checked about the other boards stays true until it commits.
EditIsUnique ==
  ~overwritten /\ Pending =>
    /\ Editing /\ edit.config.mac # None => \A b \in Ids(boards) \ {edit.old} : boards[b].mac # edit.config.mac
    /\ Editing /\ (edit.op = "create" \/ edit.new # edit.old) => boards[edit.new] = None
    /\ edit.op \in {"update", "delete"} => boards[edit.old] # None

\* The files that are not torn hold what the edit has written so far.
FilesFollow == ~overwritten => \A b \in Boards \ torn : SameEdit(files[b], Written[b])

Inv ==
  /\ TypeOK /\ EditShape /\ ConfigsAreValid /\ DevicesAreBound /\ EditIsUnique /\ FilesFollow
  /\ NetworkIdentityIsUnique /\ RelayPortIsExcluded /\ LeasedBoardIsUntouched

-----------------------------------------------------------------------------
\* None is nothing else, and the values a handler begins and ends with are of their types.
LEMMA Nulls ==
  /\ None \notin Config /\ None \notin Boards /\ None \notin Dtbs /\ None \notin Macs
  /\ None # "Idle" /\ None # "Using"
  /\ NoEdit \in Edit /\ NoEdit.op = "none" /\ NoEdit.pc = "none" /\ NoEdit.config = None
  /\ NoRequest \in DtbRequest /\ NoRequest.pc = "none" /\ \A b \in Boards : NoRequest.affected[b] = None
  BY InventoryAssumption DEF NoEdit, NoRequest, Edit, DtbRequest

\* Two configurations that differ only in what a rename or a failed power-off changes.
LEMMA SameEditIsEquivalence ==
  /\ \A f : SameEdit(f, f)
  /\ \A f, g : SameEdit(f, g) => SameEdit(g, f)
  /\ \A f, g, h : SameEdit(f, g) /\ SameEdit(g, h) => SameEdit(f, h)
  /\ \A f, g : SameEdit(f, g) => (f = None <=> g = None)
  /\ \A f, g : SameEdit(f, g) /\ f # None => f.mac = g.mac /\ f.power = g.power
  BY DEF SameEdit

\* The invariant of an edit that has ended, from what it says about the inventory.
LEMMA NoEditIsFine ==
  ASSUME edit' = NoEdit
  PROVE  EditShape' /\ EditIsUnique' /\ ~Editing' /\ Written' = [b \in Boards |-> boards'[b]]
  BY Nulls DEF EditShape, EditIsUnique, Editing, Pending, Written

LEMMA FaultIsCounted ==
  ASSUME TypeOK, Fault
  PROVE  faults' \in 0..MaxFaults
  BY InventoryAssumption DEF TypeOK, Fault

-----------------------------------------------------------------------------
(***************************************************************************)
(* Relays that are withheld.                                               *)
(***************************************************************************)
\* The relay of a board is withheld, and the inventory whose relays have to be.
Covered(c) == c # None /\ c.power \in Relays => c.power \in exclusions
Target == IF Unready THEN Edited ELSE boards

\* Board by board, which relays are withheld.
LEMMA RelaysWithheld ==
  RelayPortIsExcluded <=> (~overwritten => \A b \in Boards \ exposed : Covered(Target[b]))
<1>1. CASE Unready
  BY <1>1 DEF RelayPortIsExcluded, Guarded, Covered, Target, Ids
<1>2. CASE ~Unready
  BY <1>2 DEF RelayPortIsExcluded, Guarded, Covered, Target, Ids
<1>. QED BY <1>1, <1>2

LEMMA RelaysWithheldNext ==
  RelayPortIsExcluded' <=> (~overwritten' => \A b \in Boards \ exposed' : Covered(Target[b])')
<1>1. CASE Unready'
  BY <1>1 DEF RelayPortIsExcluded, Guarded, Covered, Target, Ids
<1>2. CASE ~Unready'
  BY <1>2 DEF RelayPortIsExcluded, Guarded, Covered, Target, Ids
<1>. QED BY <1>1, <1>2

\* The boards in memory are covered but for the one whose relay an update has given up.
LEMMA BoardsAreCovered ==
  ASSUME Inv, ~overwritten, NEW b \in Boards \ (exposed \cup GivenUp)
  PROVE  Covered(boards[b])
<1>1. Covered(Target[b])
  BY RelaysWithheld DEF Inv
<1>2. CASE ~Unready
  BY <1>1, <1>2 DEF Target
<1>3. CASE Unready
  <2>1. Pending /\ Editing
    BY <1>3 DEF Unready, Pending, Editing
  <2>2. CASE b = edit.new
    <3>1. boards[edit.new] = None
      BY <1>3, <2>1, <2>2 DEF Inv, EditIsUnique, GivenUp, Editing
    <3>. QED BY <2>2, <3>1 DEF Covered
  <2>3. CASE b # edit.new
    <3>1. b # edit.old
      BY <1>3, <2>1, <2>3 DEF Inv, EditShape, GivenUp, Editing
    <3>2. Target[b] = boards[b]
      BY <1>3, <2>3, <3>1 DEF Target, Edited
    <3>. QED BY <1>1, <3>2
  <2>. QED BY <2>2, <2>3
<1>. QED BY <1>2, <1>3

\* An edit that ends, or goes on to its roll-back, refreshes the exclusions or is refused.
LEMMA RefreshWithholds ==
  ASSUME Inv, Refresh(boards), UNCHANGED <<boards, overwritten>>, ~Unready'
  PROVE  exclusions' \subseteq Relays /\ exposed' \subseteq Boards /\ RelayPortIsExcluded'
<1>1. exclusions \subseteq Relays /\ exposed \subseteq Boards /\ GivenUp \subseteq Boards
  BY DEF Inv, TypeOK, GivenUp, EditShape, Editing
<1>2. Target' = boards
  BY DEF Target
<1>3. CASE Excludable(relay_selectors(boards))
  <2>1. exclusions' = relay_selectors(boards) /\ exposed' = {}
    BY <1>3 DEF Refresh, Exclude
  <2>2. \A b \in Boards : Covered(boards[b])'
    BY <2>1 DEF Covered, relay_selectors, Ids
  <2>3. \A b \in Boards : Covered(Target[b])'
    BY <1>2, <2>2 DEF Covered
  <2>. QED BY <2>1, <2>3, RelaysWithheldNext DEF relay_selectors
<1>4. CASE ~Excludable(relay_selectors(boards))
  <2>1. exclusions' = exclusions /\ exposed' = exposed \cup GivenUp
    BY <1>4 DEF Refresh, Exclude
  <2>2. ~overwritten => \A b \in Boards \ exposed' : Covered(Target[b])'
    BY <1>2, <2>1, BoardsAreCovered DEF Covered
  <2>. QED BY <1>1, <2>1, <2>2, RelaysWithheldNext
<1>. QED BY <1>3, <1>4

\* The ports of the inventory as an edit will leave it are withheld before it writes.
LEMMA PreparedWithholds ==
  ASSUME Inv, NEW S \in SUBSET Relays, Excludable(S), Exclude(S), Unready', UNCHANGED <<boards, overwritten>>,
         \A b \in Boards : Edited'[b] # None /\ Edited'[b].power \in Relays => Edited'[b].power \in S
  PROVE  exclusions' \subseteq Relays /\ exposed' \subseteq Boards /\ RelayPortIsExcluded'
<1>1. exclusions' = S /\ exposed' = {}
  BY DEF Exclude
<1>2. \A b \in Boards : Covered(Target[b])'
  BY <1>1 DEF Covered, Target
<1>. QED BY <1>1, <1>2, RelaysWithheldNext

\* What is withheld stays so when neither the boards nor the exclusions change.
LEMMA RelaysStayWithheld ==
  ASSUME Inv, UNCHANGED <<exclusions, exposed, overwritten>>, Target' = Target
  PROVE  RelayPortIsExcluded'
  BY RelaysWithheld, RelaysWithheldNext DEF Inv, Covered

-----------------------------------------------------------------------------
(***************************************************************************)
(* Ports, power actions and virtual devices leave the inventory alone.     *)
(***************************************************************************)
LEMMA InventoryIsKept ==
  ASSUME Inv, TypeOK', DevicesAreBound',
         edit.op = "device" => devices'[edit.old] = "deleting",
         UNCHANGED <<boards, files, leaseVars, edit, exclusions, exposed, dtb, overwritten, torn,
                     unsynced>>
  PROVE  Inv'
<1>1. EditShape'
  BY DEF Inv, EditShape, Editing, Pending, leaseVars
<1>2. ConfigsAreValid' /\ EditIsUnique'
  BY DEF Inv, ConfigsAreValid, RequestIsValid, EditIsUnique, Editing, Pending, Ids
<1>3. FilesFollow'
  BY DEF Inv, FilesFollow, Written, Edited
<1>4. NetworkIdentityIsUnique' /\ LeasedBoardIsUntouched'
  BY DEF Inv, NetworkIdentityIsUnique, LeasedBoardIsUntouched, Syncing, leaseVars, Ids
<1>5. RelayPortIsExcluded'
  <2>1. Target' = Target
    BY DEF Target, Unready, Edited
  <2>. QED BY <2>1, RelaysStayWithheld
<1>. QED BY <1>1, <1>2, <1>3, <1>4, <1>5 DEF Inv

LEMMA PowerStepKeeps ==
  ASSUME Inv, PowerStep
  PROVE  Inv'
<1>1. CASE \E p \in Relays : PortLeased(p) \/ PortReleased(p)
  <2>1. TypeOK'
    BY <1>1 DEF Inv, TypeOK, PortLeased, PortReleased, diskVars, leaseVars, deviceVars, boundVars, brokenVars
  <2>2. DevicesAreBound'
    BY <1>1 DEF Inv, DevicesAreBound, Editing, Usable, Ids, PortLeased, PortReleased, deviceVars, brokenVars
  <2>. QED BY <1>1, <2>1, <2>2, InventoryIsKept DEF PortLeased, PortReleased, diskVars, deviceVars, brokenVars, Inv, EditShape
<1>2. CASE \E p \in Power : PowerAction(p)
  <2>1. TypeOK'
    BY <1>2 DEF Inv, TypeOK, PowerAction, diskVars, leaseVars, serialVars, deviceVars, boundVars, brokenVars
  <2>2. DevicesAreBound'
    BY <1>2 DEF Inv, DevicesAreBound, Editing, Usable, Ids, PowerAction, deviceVars, brokenVars
  <2>. QED BY <1>2, <2>1, <2>2, InventoryIsKept DEF PowerAction, diskVars, serialVars, deviceVars, brokenVars, Inv, EditShape
<1>3. CASE \E p \in Power : PowerActionEnds(p)
  <2>0. PICK p \in Power : PowerActionEnds(p)
    BY <1>3
  <2>1. TypeOK'
    BY <2>0 DEF Inv, TypeOK, PowerActionEnds, diskVars, leaseVars, serialVars, boundVars, brokenVars
  <2>2. DevicesAreBound'
    BY <2>0 DEF Inv, DevicesAreBound, Editing, Usable, Ids, PowerActionEnds, brokenVars
  <2>. QED BY <2>0, <2>1, <2>2, InventoryIsKept DEF PowerActionEnds, diskVars, serialVars, brokenVars, Inv, EditShape
<1>. QED BY <1>1, <1>2, <1>3 DEF PowerStep

\* Creating, starting and losing a device, and the power-on of a session.
LEMMA DeviceKeeps ==
  ASSUME Inv, NEW d \in Devices,
         CreateDevice(d) \/ DeviceStarts(d) \/ DeviceStartFails(d) \/ QemuExits(d) \/ PowerOnRuns(d)
  PROVE  Inv'
<1>1. TypeOK'
  <2>1. TypeOK
    BY DEF Inv
  <2>2. CASE CreateDevice(d) \/ DeviceStarts(d)
    BY <2>1, <2>2 DEF TypeOK, DeviceFrame, diskVars, leaseVars, serialVars, brokenVars, CreateDevice, DeviceStarts
  <2>3. CASE DeviceStartFails(d)
    <3>1. faults' \in 0..MaxFaults
      BY <2>1, <2>3, FaultIsCounted DEF DeviceStartFails
    <3>. QED BY <2>1, <2>3, <3>1 DEF TypeOK, DeviceFrame, diskVars, leaseVars, serialVars, brokenVars, DeviceStartFails
  <2>4. CASE QemuExits(d) \/ PowerOnRuns(d)
    BY <2>1, <2>4 DEF TypeOK, DeviceFrame, diskVars, leaseVars, serialVars, brokenVars, QemuExits, PowerOnRuns
  <2>. QED BY <2>2, <2>3, <2>4
<1>2. devices \in [Devices -> {"unborn", "absent", "starting", "present", "deleting"}]
  BY DEF Inv, TypeOK
<1>3. DevicesAreBound'
  <2>1. UNCHANGED <<boards, edit, overwritten>> /\ unstarted \subseteq unstarted'
    BY DEF DeviceFrame, brokenVars, CreateDevice, DeviceStarts, DeviceStartFails, QemuExits, PowerOnRuns
  <2>2. \A x \in Devices : devices'[x] = "absent" => x \notin qemu' \ orphaned'
    BY <1>2 DEF Inv, DevicesAreBound, CreateDevice, DeviceStarts, DeviceStartFails, QemuExits, PowerOnRuns, NotDeleting
  <2>3. \A x \in Devices : Usable(x) => Usable(x)'
    BY <1>2 DEF Usable, CreateDevice, DeviceStarts, DeviceStartFails, QemuExits, PowerOnRuns
  <2>4. \A p : Usable(p) => Usable(p)'
    BY <2>1, <2>3 DEF Usable
  <2>. QED BY <2>1, <2>2, <2>4 DEF Inv, DevicesAreBound, Editing, Ids
<1>4. edit.op = "device" => devices'[edit.old] = "deleting"
  BY <1>2 DEF Inv, EditShape, CreateDevice, DeviceStarts, DeviceStartFails, QemuExits, PowerOnRuns
<1>5. UNCHANGED <<boards, files, leaseVars, edit, exclusions, exposed, dtb, overwritten, torn,
                     unsynced>>
  BY DEF DeviceFrame, CreateDevice, DeviceStarts, DeviceStartFails, QemuExits, PowerOnRuns, diskVars, serialVars, brokenVars
<1>. QED BY <1>1, <1>3, <1>4, <1>5, InventoryIsKept

LEMMA SessionPowerOnKeeps ==
  ASSUME Inv, NEW b \in Boards, SessionPowerOn(b)
  PROVE  Inv'
<1>1. TypeOK'
  BY DEF Inv, TypeOK, SessionPowerOn, DeviceFrame, diskVars, leaseVars, serialVars, brokenVars
<1>2. DevicesAreBound'
  BY DEF Inv, DevicesAreBound, Editing, Usable, Ids, SessionPowerOn, DeviceFrame, brokenVars
<1>. QED BY <1>1, <1>2, InventoryIsKept DEF SessionPowerOn, DeviceFrame, diskVars, serialVars, brokenVars, Inv, EditShape

\* A device is deleted under the gate, when no board is bound to it.
LEMMA DeleteDeviceKeeps ==
  ASSUME Inv, NEW d \in Devices, DeleteDevice(d)
  PROVE  Inv'
<1> DEFINE e == [NoEdit EXCEPT !.op = "device", !.pc = "stop", !.old = d]
<1>1. /\ edit' = e /\ e \in Edit /\ e.op = "device" /\ e.pc = "stop" /\ e.old = d /\ e.config = None
  BY Nulls DEF DeleteDevice, NoEdit, Edit
<1>2. /\ edit.op = "none" /\ devices' = [devices EXCEPT ![d] = "deleting"]
      /\ UNCHANGED <<boards, files, dtbs, runtimes, session, exclusions, leased, exposed, dtb, busy, edits,
                     overwritten, torn, unsynced, qemu, poweron, unstarted, orphaned, faults>>
  BY DEF DeleteDevice, GateIsFree, DeviceFrame, diskVars, leaseVars, serialVars, brokenVars
<1> HIDE DEF e
<1>3. TypeOK'
  BY <1>1, <1>2 DEF Inv, TypeOK
<1>4. devices'[d] = "deleting" /\ \A x \in Devices : x # d => devices'[x] = devices[x]
  BY <1>2 DEF Inv, TypeOK
<1>5. EditShape' /\ ~Editing'
  BY <1>1, <1>4 DEF EditShape, Editing
<1>6. ConfigsAreValid'
  BY <1>1, <1>2 DEF Inv, ConfigsAreValid, RequestIsValid, Ids
<1>7. DevicesAreBound'
  <2>1. \A b \in Ids(boards) : boards[b].power # d
    BY DEF DeleteDevice, Unbound
  <2>. QED BY <1>2, <1>4, <1>5, <2>1 DEF Inv, DevicesAreBound, Usable, Ids
<1>8. EditIsUnique'
  BY <1>1, <1>5 DEF EditIsUnique
<1>9. FilesFollow'
  <2>1. \A b \in Boards : Written'[b] = Written[b]
    BY <1>1, <1>2 DEF Inv, EditShape, Written
  <2>. QED BY <1>2, <2>1 DEF Inv, FilesFollow
<1>10. NetworkIdentityIsUnique' /\ LeasedBoardIsUntouched'
  BY <1>1, <1>2 DEF Inv, EditShape, NetworkIdentityIsUnique, LeasedBoardIsUntouched, Syncing, Ids
<1>11. RelayPortIsExcluded'
  <2>1. Target' = Target
    BY <1>1, <1>2 DEF Target, Unready
  <2>. QED BY <1>2, <2>1, RelaysStayWithheld
<1>. QED BY <1>3, <1>5, <1>6, <1>7, <1>8, <1>9, <1>10, <1>11 DEF Inv

\* Its QEMU has ended and it is gone, it is put back, or it is gone and its QEMU is forgotten.
LEMMA DeviceStopsKeeps ==
  ASSUME Inv, NEW d \in Devices, DeviceStops(d) \/ DeviceStopDropped(d)
  PROVE  Inv'
<1>1. /\ edit.op = "device" /\ edit.old = d /\ devices[d] = "deleting" /\ edit' = NoEdit
      /\ UNCHANGED <<boards, files, dtbs, runtimes, session, exclusions, leased, exposed, dtb, busy, edits,
                     overwritten, torn, unsynced, poweron, unstarted>>
  BY DEF DeviceStops, DeviceStopDropped, DeviceFrame, diskVars, leaseVars, serialVars, brokenVars, Inv, EditShape
<1>2. \/ /\ qemu' = qemu \ {d} /\ devices' = [devices EXCEPT ![d] = "absent"]
         /\ faults' = faults /\ orphaned' = orphaned
      \/ /\ devices' = [devices EXCEPT ![d] = "present"] /\ qemu' = qemu
         /\ faults' \in 0..MaxFaults /\ orphaned' = orphaned
      \/ /\ devices' = [devices EXCEPT ![d] = "absent"] /\ qemu' = qemu
         /\ faults' \in 0..MaxFaults /\ orphaned' = orphaned \cup {d}
  BY FaultIsCounted DEF DeviceStops, DeviceStopDropped, Inv
<1>3. TypeOK'
  BY <1>1, <1>2, Nulls DEF Inv, TypeOK
<1>4. ConfigsAreValid'
  BY <1>1, Nulls DEF Inv, ConfigsAreValid, RequestIsValid, Ids
<1>5. DevicesAreBound'
  <2>1. \A p : Usable(p) => Usable(p)'
    BY <1>1, <1>2 DEF Usable, Inv, TypeOK
  <2>2. \A x \in Devices : devices'[x] = "absent" => x \notin qemu' \ orphaned'
    BY <1>2 DEF Inv, DevicesAreBound, TypeOK
  <2>. QED BY <1>1, <2>1, <2>2, NoEditIsFine DEF Inv, DevicesAreBound, Ids
<1>6. FilesFollow'
  <2>1. \A b \in Boards : Written'[b] = Written[b]
    BY <1>1, NoEditIsFine DEF Inv, EditShape, Written
  <2>. QED BY <1>1, <2>1 DEF Inv, FilesFollow
<1>7. NetworkIdentityIsUnique' /\ LeasedBoardIsUntouched'
  BY <1>1, Nulls DEF Inv, EditShape, NetworkIdentityIsUnique, LeasedBoardIsUntouched, Syncing, Ids
<1>8. RelayPortIsExcluded'
  <2>1. Target' = Target
    BY <1>1, Nulls DEF Target, Unready
  <2>. QED BY <1>1, <2>1, RelaysStayWithheld
<1>. QED BY <1>1, <1>3, <1>4, <1>5, <1>6, <1>7, <1>8, NoEditIsFine DEF Inv

LEMMA DeviceStepKeeps ==
  ASSUME Inv, DeviceStep
  PROVE  Inv'
  BY DeviceKeeps, SessionPowerOnKeeps, DeleteDeviceKeeps, DeviceStopsKeeps DEF DeviceStep

-----------------------------------------------------------------------------
(***************************************************************************)
(* Sessions.                                                               *)
(***************************************************************************)
LEMMA SessionKeeps ==
  ASSUME Inv, NEW b \in Boards, CreateSession(b) \/ ReleaseSession(b)
  PROVE  Inv'
<1>1. UNCHANGED <<boards, files, dtbs, edit, exclusions, leased, exposed, dtb, devices, qemu, poweron, unstarted, orphaned,
                  busy, edits, faults, overwritten, torn, unsynced>>
  BY DEF CreateSession, ReleaseSession, diskVars, serialVars, deviceVars, boundVars, brokenVars
<1>2. /\ runtimes \in [Boards -> {None, "Idle", "Using"}] /\ session \in [Boards -> Config \cup {None}]
      /\ boards \in [Boards -> Config \cup {None}]
  BY DEF Inv, TypeOK
<1>3. /\ runtimes' \in [Boards -> {None, "Idle", "Using"}] /\ session' \in [Boards -> Config \cup {None}]
  BY <1>2 DEF CreateSession, ReleaseSession
<1>4. TypeOK'
  BY <1>1, <1>3 DEF Inv, TypeOK
<1>5. EditShape'
  <2>1. CASE CreateSession(b)
    BY <1>1, <2>1 DEF CreateSession, GateIsFree, Inv, EditShape, Editing, Pending
  <2>2. CASE ReleaseSession(b)
    BY <1>1, <1>2, <2>2, InventoryAssumption DEF ReleaseSession, Inv, EditShape, Editing, Pending
  <2>. QED BY <2>1, <2>2
<1>6. ConfigsAreValid' /\ DevicesAreBound' /\ EditIsUnique' /\ FilesFollow' /\ NetworkIdentityIsUnique'
  BY <1>1 DEF Inv, ConfigsAreValid, RequestIsValid, DevicesAreBound, EditIsUnique, FilesFollow, NetworkIdentityIsUnique,
              Editing, Pending, Usable, Ids, Affected, Written, Edited
<1>8. RelayPortIsExcluded'
  <2>1. Target' = Target
    BY <1>1 DEF Target, Unready, Edited
  <2>. QED BY <1>1, <2>1, RelaysStayWithheld
<1>7. LeasedBoardIsUntouched'
  <2>. SUFFICES ASSUME ~overwritten, NEW x \in Boards
                PROVE  /\ session'[x] # None => runtimes'[x] = "Using" /\ SameEdit(session'[x], boards[x])
                       /\ x \notin unsynced \cup Syncing => (boards[x] # None <=> runtimes'[x] # None)
    BY <1>1 DEF LeasedBoardIsUntouched, SameEdit, Syncing
  <2>0. /\ session[x] # None => runtimes[x] = "Using" /\ SameEdit(session[x], boards[x])
        /\ x \notin unsynced \cup Syncing => (boards[x] # None <=> runtimes[x] # None)
    BY DEF Inv, LeasedBoardIsUntouched
  <2>1. CASE CreateSession(b)
    <3>1. runtimes' = [runtimes EXCEPT ![b] = "Using"] /\ session' = [session EXCEPT ![b] = boards[b]]
          /\ boards[b] # None
      BY <2>1 DEF CreateSession, Allocatable
    <3>2. CASE x = b
      BY <1>2, <2>0, <3>1, <3>2, Nulls, SameEditIsEquivalence
    <3>3. CASE x # b
      BY <1>2, <2>0, <3>1, <3>3
    <3>. QED BY <3>2, <3>3
  <2>2. CASE ReleaseSession(b)
    <3>1. /\ runtimes' = [runtimes EXCEPT ![b] = IF runtimes[b] = None THEN None ELSE "Idle"]
          /\ session' = [session EXCEPT ![b] = None]
      BY <2>2 DEF ReleaseSession
    <3>2. CASE x = b
      BY <1>2, <2>0, <3>1, <3>2, Nulls
    <3>3. CASE x # b
      BY <1>2, <2>0, <3>1, <3>3
    <3>. QED BY <3>2, <3>3
  <2>. QED BY <2>1, <2>2
<1>. QED BY <1>4, <1>5, <1>6, <1>7, <1>8 DEF Inv

-----------------------------------------------------------------------------
(***************************************************************************)
(* DTB requests.                                                           *)
(***************************************************************************)
\* The requests are valid, and one that has ended is.
LEMMA RequestsAreValid ==
  ASSUME Inv
  PROVE  /\ \A r \in DtbRequests : RequestIsValid(dtb[r]) /\ dtb[r] \in DtbRequest
         /\ RequestIsValid(NoRequest)
  BY Nulls DEF Inv, TypeOK, ConfigsAreValid, RequestIsValid

LEMMA RequestIsReplaced ==
  ASSUME Inv, NEW r \in DtbRequests, NEW x \in DtbRequest, RequestIsValid(x), dtb' = [dtb EXCEPT ![r] = x]
  PROVE  /\ dtb' \in [DtbRequests -> DtbRequest]
         /\ \A q \in DtbRequests : RequestIsValid(dtb[q])'
<1>1. dtb \in [DtbRequests -> DtbRequest]
  BY DEF Inv, TypeOK
<1>2. \A q \in DtbRequests : dtb'[q] = IF q = r THEN x ELSE dtb[q]
  BY <1>1
<1>3. \A q \in DtbRequests : RequestIsValid(dtb'[q])
  BY <1>2, RequestsAreValid
<1>. QED BY <1>1, <1>2, <1>3 DEF RequestIsValid

\* A request that touches no board.
LEMMA RequestKeeps ==
  ASSUME Inv, NEW r \in DtbRequests, NEW x \in DtbRequest, RequestIsValid(x), dtb' = [dtb EXCEPT ![r] = x],
         DtbFrame, UNCHANGED <<boards, files, overwritten>>, dtbs' \subseteq Dtbs, faults' \in 0..MaxFaults
  PROVE  Inv'
<1>1. TypeOK'
  BY RequestIsReplaced DEF Inv, TypeOK, DtbFrame, leaseVars, serialVars, deviceVars
<1>2. ConfigsAreValid'
  BY RequestIsReplaced DEF Inv, ConfigsAreValid, Ids, DtbFrame
<1>3. EditShape' /\ DevicesAreBound' /\ EditIsUnique' /\ FilesFollow'
  BY DEF Inv, EditShape, DevicesAreBound, EditIsUnique, FilesFollow, Editing, Pending, Usable, Ids, Written, Edited,
         DtbFrame, leaseVars, deviceVars
<1>4. NetworkIdentityIsUnique' /\ LeasedBoardIsUntouched'
  BY DEF Inv, NetworkIdentityIsUnique, LeasedBoardIsUntouched, Syncing, Ids, DtbFrame, leaseVars
<1>5. RelayPortIsExcluded'
  <2>1. Target' = Target
    BY DEF Target, Unready, Edited, DtbFrame
  <2>. QED BY <2>1, RelaysStayWithheld DEF DtbFrame, serialVars
<1>. QED BY <1>1, <1>2, <1>3, <1>4, <1>5 DEF Inv

\* A request begins.
LEMMA RequestBeginsKeeps ==
  ASSUME Inv, NEW r \in DtbRequests, NEW d \in Dtbs, NEW to \in Dtbs,
         CreateDtb(r, d) \/ ReplaceDtb(r, d) \/ DeleteDtb(r, d) \/ UpdateDtb(r, d, to)
  PROVE  Inv'
<1>1. PICK x \in DtbRequest : RequestIsValid(x) /\ dtb' = [dtb EXCEPT ![r] = x]
  <2>1. CASE CreateDtb(r, d) \/ ReplaceDtb(r, d)
    <3> DEFINE x == [NoRequest EXCEPT !.pc = "body", !.to = d]
    <3>1. x \in DtbRequest /\ x.pc = "body" /\ x.to = d /\ x.affected = NoRequest.affected
      BY Nulls DEF NoRequest, DtbRequest
    <3>2. dtb' = [dtb EXCEPT ![r] = x]
      BY <2>1 DEF CreateDtb, ReplaceDtb
    <3> HIDE DEF x
    <3>. QED BY <3>1, <3>2, Nulls DEF RequestIsValid
  <2>2. CASE DeleteDtb(r, d)
    <3> DEFINE x == [NoRequest EXCEPT !.pc = "unlink", !.name = d]
    <3>1. x \in DtbRequest /\ x.pc = "unlink" /\ x.affected = NoRequest.affected
      BY Nulls DEF NoRequest, DtbRequest
    <3>2. dtb' = [dtb EXCEPT ![r] = x]
      BY <2>2 DEF DeleteDtb
    <3> HIDE DEF x
    <3>. QED BY <3>1, <3>2, Nulls DEF RequestIsValid
  <2>3. CASE UpdateDtb(r, d, to)
    <3> DEFINE x == [NoRequest EXCEPT !.pc = "rename", !.name = d, !.to = to]
    <3>1. x \in DtbRequest /\ x.pc = "rename" /\ x.name = d /\ x.to = to /\ x.affected = NoRequest.affected
      BY Nulls DEF NoRequest, DtbRequest
    <3>2. dtb' = [dtb EXCEPT ![r] = x]
      BY <2>3 DEF UpdateDtb
    <3> HIDE DEF x
    <3>. QED BY <3>1, <3>2, Nulls DEF RequestIsValid
  <2>. QED BY <2>1, <2>2, <2>3
<1>4. DtbFrame /\ UNCHANGED <<boards, files, dtbs, faults, overwritten>>
  BY DEF CreateDtb, ReplaceDtb, DeleteDtb, UpdateDtb, diskVars
<1>5. dtbs' \subseteq Dtbs /\ faults' \in 0..MaxFaults
  BY <1>4 DEF Inv, TypeOK
<1>. QED BY <1>1, <1>4, <1>5, RequestKeeps

\* The file is renamed, written or removed, or the request fails or is dropped.
LEMMA DtbFileKeeps ==
  ASSUME Inv, NEW r \in DtbRequests, RenameDtb(r) \/ WriteDtb(r) \/ UnlinkDtb(r) \/ RewriteFileFails(r) \/ DtbDropped(r)
  PROVE  Inv'
<1>1. dtb[r] \in DtbRequest /\ RequestIsValid(dtb[r]) /\ RequestIsValid(NoRequest) /\ NoRequest \in DtbRequest
      /\ dtb \in [DtbRequests -> DtbRequest]
  BY RequestsAreValid, Nulls DEF Inv, TypeOK
<1>2. faults' \in 0..MaxFaults
  BY FaultIsCounted DEF Inv, TypeOK, RenameDtb, WriteDtb, UnlinkDtb, RewriteFileFails, DtbDropped
<1>3. dtbs' \subseteq Dtbs
  <2>1. dtbs \subseteq Dtbs
    BY DEF Inv, TypeOK
  <2>2. CASE RenameDtb(r)
    <3>1. dtb[r].to \in Dtbs
      BY <1>1, <2>2 DEF RenameDtb, WriteDtb, At, RequestIsValid
    <3>. QED BY <2>1, <2>2, <3>1 DEF RenameDtb
  <2>3. CASE WriteDtb(r)
    <3>1. dtb[r].to \in Dtbs
      BY <1>1, <2>3 DEF RenameDtb, WriteDtb, At, RequestIsValid
    <3>. QED BY <2>1, <2>3, <3>1 DEF WriteDtb
  <2>4. CASE UnlinkDtb(r) \/ RewriteFileFails(r) \/ DtbDropped(r)
    BY <2>1, <2>4 DEF UnlinkDtb, RewriteFileFails, DtbDropped, diskVars
  <2>. QED BY <2>2, <2>3, <2>4
<1>4. DtbFrame /\ UNCHANGED <<boards, files, overwritten>>
  BY DEF RenameDtb, WriteDtb, UnlinkDtb, RewriteFileFails, DtbDropped, diskVars
<1>5. CASE Ends(r)
  BY <1>1, <1>2, <1>3, <1>4, <1>5, RequestKeeps DEF Ends
<1>6. CASE Goes(r, "read") /\ RenameDtb(r)
  <2> DEFINE x == [dtb[r] EXCEPT !.pc = "read"]
  <2>1. x \in DtbRequest /\ x.name = dtb[r].name /\ x.to = dtb[r].to
        /\ x.affected = dtb[r].affected /\ dtb[r].pc = "rename"
    BY <1>1, <1>6 DEF DtbRequest, RenameDtb, At
  <2>2. RequestIsValid(x)
    BY <1>1, <2>1 DEF RequestIsValid
  <2>3. dtb' = [dtb EXCEPT ![r] = x]
    BY <1>1, <1>6 DEF Goes
  <2> HIDE DEF x
  <2>. QED BY <1>2, <1>3, <1>4, <2>1, <2>2, <2>3, RequestKeeps
<1>. QED BY <1>5, <1>6 DEF RenameDtb, WriteDtb, UnlinkDtb, RewriteFileFails, DtbDropped

\* The boards that name the old file are copied: each copy is valid, because a board that names a
\* DTB may have one.
LEMMA RewriteReadsKeeps ==
  ASSUME Inv, NEW r \in DtbRequests, RewriteReads(r)
  PROVE  Inv'
<1>1. dtb[r] \in DtbRequest /\ RequestIsValid(dtb[r]) /\ dtb[r].pc = "read" /\ dtb \in [DtbRequests -> DtbRequest]
      /\ boards \in [Boards -> Config \cup {None}]
  BY RequestsAreValid DEF Inv, TypeOK, RewriteReads, At
<1>2. dtb[r].name \in Dtbs /\ dtb[r].to \in Dtbs
  BY <1>1 DEF RequestIsValid
<1>3. ASSUME NEW b \in Boards
      PROVE  /\ Renamed(r)[b] \in Config \cup {None}
             /\ Renamed(r)[b] # None => validate(Renamed(r)[b])
  <2>1. CASE boards[b] # None /\ boards[b].dtb = dtb[r].name
    <3>1. boards[b] \in Config /\ validate(boards[b])
      BY <1>1, <2>1 DEF Inv, ConfigsAreValid, Ids
    <3>2. /\ Renamed(r)[b] = [boards[b] EXCEPT !.dtb = dtb[r].to]
          /\ Renamed(r)[b].power = boards[b].power /\ Renamed(r)[b].mac = boards[b].mac
      BY <2>1, <3>1 DEF Renamed, Config
    <3>3. boards[b].power \notin Devices
      BY <1>2, <2>1, <3>1, Nulls DEF validate
    <3>. QED BY <1>2, <3>1, <3>2, <3>3 DEF Config, validate
  <2>2. CASE ~(boards[b] # None /\ boards[b].dtb = dtb[r].name)
    BY <2>2 DEF Renamed
  <2>. QED BY <2>1, <2>2
<1> DEFINE x == [dtb[r] EXCEPT !.pc = "files", !.affected = Renamed(r), !.todo = Ids(Renamed(r))]
<1>4. Renamed(r) \in [Boards -> Config \cup {None}] /\ Ids(Renamed(r)) \subseteq Boards
  BY <1>3 DEF Renamed, Ids
<1>5. x \in DtbRequest /\ x.pc = "files" /\ x.to = dtb[r].to /\ x.affected = Renamed(r)
  BY <1>1, <1>4 DEF DtbRequest
<1>6. RequestIsValid(x)
  BY <1>2, <1>3, <1>5 DEF RequestIsValid
<1>7. dtb' = [dtb EXCEPT ![r] = x]
  BY <1>1 DEF RewriteReads
<1>8. DtbFrame /\ UNCHANGED <<boards, files, overwritten>> /\ dtbs' \subseteq Dtbs /\ faults' \in 0..MaxFaults
  BY DEF RewriteReads, diskVars, Inv, TypeOK
<1> HIDE DEF x
<1>. QED BY <1>5, <1>6, <1>7, <1>8, RequestKeeps

\* What the invariant says about the boards depends on their MACs and powers only.
LEMMA SameBoardsKeep ==
  ASSUME Inv, NEW r \in DtbRequests, NEW x \in DtbRequest, RequestIsValid(x), dtb' = [dtb EXCEPT ![r] = x],
         DtbFrame, dtbs' = dtbs, faults' = faults,
         boards' \in [Boards -> Config \cup {None}], files' \in [Boards -> Config \cup {None}],
         overwritten' \in BOOLEAN, overwritten => overwritten',
         \A b \in Ids(boards') : validate(boards'[b]), \A b \in Ids(files') : validate(files'[b]),
         ~overwritten' => \A b \in Boards : SameEdit(boards'[b], boards[b]),
         ~overwritten' => \A b \in Boards \ torn : SameEdit(files'[b], files[b])
  PROVE  Inv'
<1>1. TypeOK'
  BY RequestIsReplaced DEF Inv, TypeOK, DtbFrame, leaseVars, serialVars, deviceVars
<1>2. ConfigsAreValid'
  BY RequestIsReplaced DEF Inv, ConfigsAreValid, Ids, DtbFrame
<1>3. EditShape'
  BY DEF Inv, EditShape, Editing, Pending, DtbFrame, leaseVars, deviceVars
<1>4. ~overwritten' =>
        /\ ~overwritten
        /\ \A b \in Boards : /\ boards'[b] = None <=> boards[b] = None
                             /\ boards[b] # None => boards'[b].mac = boards[b].mac /\ boards'[b].power = boards[b].power
        /\ Ids(boards') = Ids(boards)
  BY SameEditIsEquivalence DEF Ids
<1>5. DevicesAreBound'
  <2>1. UNCHANGED <<edit, devices, qemu, unstarted, orphaned>>
    BY DEF DtbFrame, deviceVars
  <2>. QED BY <1>4, <2>1 DEF Inv, DevicesAreBound, Usable, Editing, Ids
<1>6. EditIsUnique'
  <2>1. edit' = edit
    BY DEF DtbFrame
  <2>. QED BY <1>4, <2>1 DEF Inv, EditIsUnique, EditShape, Editing, Pending, Ids
<1>7. FilesFollow'
  <2>. SUFFICES ASSUME ~overwritten', NEW b \in Boards \ torn  PROVE SameEdit(files'[b], Written'[b])
    BY DEF FilesFollow, DtbFrame, SameEdit
  <2>1. edit' = edit
    BY DEF DtbFrame
  <2>2. SameEdit(files[b], Written[b])
    BY <1>4 DEF Inv, FilesFollow
  <2>3. SameEdit(Written'[b], Written[b])
    BY <2>1, SameEditIsEquivalence DEF Written, Edited
  <2>. QED BY <2>2, <2>3, SameEditIsEquivalence
<1>8. NetworkIdentityIsUnique'
  BY <1>4 DEF Inv, NetworkIdentityIsUnique, Ids
<1>9. RelayPortIsExcluded'
  <2>1. UNCHANGED <<edit, exclusions, exposed>>
    BY DEF DtbFrame, serialVars
  <2>2. ~overwritten' => \A b \in Boards : Covered(Target[b]) => Covered(Target[b])'
    BY <1>4, <2>1 DEF Covered, Target, Unready, Edited
  <2>. QED BY <1>4, <2>1, <2>2, RelaysWithheld, RelaysWithheldNext DEF Inv
<1>10. LeasedBoardIsUntouched'
  <2>. SUFFICES ASSUME ~overwritten', NEW b \in Boards
                PROVE  /\ session[b] # None => runtimes[b] = "Using" /\ SameEdit(session[b], boards'[b])
                       /\ b \notin unsynced \cup Syncing => (boards'[b] # None <=> runtimes[b] # None)
    BY DEF LeasedBoardIsUntouched, SameEdit, Syncing, DtbFrame, leaseVars
  <2>. QED BY <1>4, SameEditIsEquivalence DEF Inv, LeasedBoardIsUntouched
<1>. QED BY <1>1, <1>2, <1>3, <1>5, <1>6, <1>7, <1>8, <1>9, <1>10 DEF Inv

LEMMA RewriteFilesKeeps ==
  ASSUME Inv, NEW r \in DtbRequests, RewriteFiles(r)
  PROVE  Inv'
<1>1. dtb[r] \in DtbRequest /\ RequestIsValid(dtb[r]) /\ dtb[r].pc = "files" /\ dtb \in [DtbRequests -> DtbRequest]
  BY RequestsAreValid DEF Inv, TypeOK, RewriteFiles, At
<1>2. PICK b \in dtb[r].todo :
        /\ files' = [files EXCEPT ![b] = dtb[r].affected[b]]
        /\ dtb' = [dtb EXCEPT ![r].todo = @ \ {b}]
        /\ overwritten' = (overwritten \/ (b \notin torn /\ Undoes(r, b, files[b])))
  BY DEF RewriteFiles
<1> DEFINE x == [dtb[r] EXCEPT !.todo = dtb[r].todo \ {b}]
<1>3. b \in Boards /\ dtb[r].affected[b] \in Config \cup {None}
  BY <1>1, <1>2 DEF DtbRequest
<1>4. x \in DtbRequest /\ x.pc = "files" /\ x.to = dtb[r].to /\ x.affected = dtb[r].affected
  BY <1>1 DEF DtbRequest
<1>5. RequestIsValid(x)
  BY <1>1, <1>4 DEF RequestIsValid
<1>6. dtb' = [dtb EXCEPT ![r] = x]
  BY <1>1, <1>2
<1>7. /\ files \in [Boards -> Config \cup {None}] /\ boards \in [Boards -> Config \cup {None}] /\ overwritten \in BOOLEAN
      /\ \A a \in Ids(boards) : validate(boards[a])
      /\ \A a \in Ids(files) : validate(files[a])
  BY DEF Inv, TypeOK, ConfigsAreValid
<1>8. /\ DtbFrame /\ UNCHANGED <<boards, dtbs, faults>>
      /\ overwritten' \in BOOLEAN /\ (overwritten => overwritten')
      /\ ~overwritten' /\ b \notin torn => SameEdit(files[b], dtb[r].affected[b])
  BY <1>2, <1>7 DEF RewriteFiles, Undoes
<1>9. /\ files' \in [Boards -> Config \cup {None}] /\ files'[b] = dtb[r].affected[b]
      /\ \A a \in Boards : a # b => files'[a] = files[a]
  BY <1>2, <1>3, <1>7
<1>10. \A a \in Ids(files') : validate(files'[a])
  BY <1>1, <1>7, <1>9 DEF Ids, RequestIsValid
<1>11. /\ ~overwritten' => \A a \in Boards : SameEdit(boards'[a], boards[a])
       /\ ~overwritten' => \A a \in Boards \ torn : SameEdit(files'[a], files[a])
  BY <1>8, <1>9, SameEditIsEquivalence
<1> HIDE DEF x
<1>. QED BY <1>4, <1>5, <1>6, <1>7, <1>8, <1>9, <1>10, <1>11, SameBoardsKeep

LEMMA RewriteMemoryKeeps ==
  ASSUME Inv, NEW r \in DtbRequests, RewriteMemory(r)
  PROVE  Inv'
<1>1. dtb[r] \in DtbRequest /\ RequestIsValid(dtb[r]) /\ dtb[r].pc = "files" /\ dtb \in [DtbRequests -> DtbRequest]
  BY RequestsAreValid DEF Inv, TypeOK, RewriteMemory, At
<1>2. PICK x \in DtbRequest : RequestIsValid(x) /\ dtb' = [dtb EXCEPT ![r] = x]
  <2>1. CASE Ends(r)
    BY <2>1, Nulls, RequestsAreValid DEF Ends
  <2>2. CASE Goes(r, "body")
    <3> DEFINE x == [dtb[r] EXCEPT !.pc = "body"]
    <3>1. x \in DtbRequest /\ x.pc = "body" /\ x.to = dtb[r].to /\ x.affected = dtb[r].affected
      BY <1>1 DEF DtbRequest
    <3>2. dtb' = [dtb EXCEPT ![r] = x]
      BY <1>1, <2>2 DEF Goes
    <3>3. RequestIsValid(x)
      BY <1>1, <3>1 DEF RequestIsValid
    <3> HIDE DEF x
    <3>. QED BY <3>1, <3>2, <3>3
  <2>. QED BY <2>1, <2>2 DEF RewriteMemory
<1>3. /\ files \in [Boards -> Config \cup {None}] /\ boards \in [Boards -> Config \cup {None}] /\ overwritten \in BOOLEAN
      /\ \A a \in Ids(boards) : validate(boards[a])
      /\ \A a \in Ids(files) : validate(files[a])
  BY DEF Inv, TypeOK, ConfigsAreValid
<1>4. /\ boards' = [b \in Boards |-> IF b \in Affected(r) THEN dtb[r].affected[b] ELSE boards[b]]
      /\ overwritten' = (overwritten \/ \E b \in Affected(r) : Undoes(r, b, boards[b]))
      /\ DtbFrame /\ UNCHANGED <<files, dtbs, faults>>
  BY DEF RewriteMemory, diskVars
<1>5. /\ overwritten' \in BOOLEAN /\ (overwritten => overwritten')
      /\ ~overwritten' => \A b \in Affected(r) : SameEdit(boards[b], dtb[r].affected[b])
  BY <1>3, <1>4 DEF Undoes
<1>6. boards' \in [Boards -> Config \cup {None}]
  BY <1>1, <1>3, <1>4 DEF DtbRequest
<1>7. \A a \in Ids(boards') : validate(boards'[a])
  BY <1>1, <1>3, <1>4 DEF Ids, Affected, RequestIsValid
<1>8. /\ ~overwritten' => \A a \in Boards : SameEdit(boards'[a], boards[a])
      /\ ~overwritten' => \A a \in Boards \ torn : SameEdit(files'[a], files[a])
  BY <1>4, <1>5, SameEditIsEquivalence
<1>. QED BY <1>2, <1>3, <1>4, <1>5, <1>6, <1>7, <1>8, SameBoardsKeep

LEMMA DtbStepKeeps ==
  ASSUME Inv, NEW r \in DtbRequests, DtbStep(r)
  PROVE  Inv'
<1>1. CASE \E d \in Dtbs : CreateDtb(r, d) \/ ReplaceDtb(r, d) \/ DeleteDtb(r, d)
  BY <1>1, RequestBeginsKeeps
<1>2. CASE \E d, to \in Dtbs : UpdateDtb(r, d, to)
  BY <1>2, RequestBeginsKeeps
<1>3. CASE RenameDtb(r) \/ WriteDtb(r) \/ UnlinkDtb(r) \/ RewriteFileFails(r) \/ DtbDropped(r)
  BY <1>3, DtbFileKeeps
<1>4. CASE RewriteReads(r) \/ RewriteFiles(r) \/ RewriteMemory(r)
  BY <1>4, RewriteReadsKeeps, RewriteFilesKeeps, RewriteMemoryKeeps
<1>. QED BY <1>1, <1>2, <1>3, <1>4 DEF DtbStep

-----------------------------------------------------------------------------
(***************************************************************************)
(* Board edits.                                                            *)
(***************************************************************************)
\* A handler takes the gate; the boards, the files and the leases are as they were.
LEMMA EditBeginsKeeps ==
  ASSUME Inv, NEW e \in Edit, BeginEdit(e), EditShape', exclusions' \subseteq Relays, exposed' \subseteq Boards,
         e.config # None => validate(e.config),
         Editing' => Usable(e.config.power),
         EditIsUnique', RelayPortIsExcluded', e.pc = "write" \/ (e.op = "delete" /\ e.pc = "remove")
  PROVE  Inv'
<1>1. /\ edit.op = "none" /\ edit.pc = "none" /\ edit' = e /\ edits' = edits + 1 /\ edits < MaxEdits
      /\ UNCHANGED <<boards, files, dtbs, runtimes, session, leased, dtb, devices, qemu, poweron, unstarted, orphaned,
                     busy, faults, overwritten, torn, unsynced>>
  BY DEF BeginEdit, GateIsFree, Inv, EditShape, diskVars, leaseVars, deviceVars, brokenVars
<1>2. TypeOK'
  <2>1. edits' \in 0..MaxEdits
    BY <1>1, InventoryAssumption DEF Inv, TypeOK
  <2>. QED BY <1>1, <2>1 DEF Inv, TypeOK
<1>3. ConfigsAreValid'
  BY <1>1 DEF Inv, ConfigsAreValid, RequestIsValid, Ids
<1>4. DevicesAreBound'
  BY <1>1 DEF Inv, DevicesAreBound, Usable, Ids, Editing
<1>5. FilesFollow'
  <2>1. \A b \in Boards : Written'[b] = boards[b] /\ Written[b] = boards[b]
    BY <1>1 DEF Written
  <2>. QED BY <1>1, <2>1 DEF Inv, FilesFollow
<1>6. NetworkIdentityIsUnique' /\ LeasedBoardIsUntouched'
  BY <1>1 DEF Inv, NetworkIdentityIsUnique, LeasedBoardIsUntouched, Syncing, Ids
<1>. QED BY <1>2, <1>3, <1>4, <1>5, <1>6 DEF Inv

LEMMA CreateBoardKeeps ==
  ASSUME Inv, NEW b \in Boards, NEW c \in Templates, CreateBoard(b, c)
  PROVE  Inv'
<1> DEFINE e == [op |-> "create", pc |-> "write", old |-> b, new |-> b, config |-> c]
<1>1. c \in Config /\ c # None /\ validate(c) /\ BeginEdit(e) /\ e \in Edit
  BY InventoryAssumption DEF CreateBoard, Accepted, Edit
<1>2. /\ edit' = e /\ UNCHANGED <<boards, overwritten, runtimes, devices, unstarted>>
      /\ boards[b] = None /\ \A a \in Ids(boards) : c.mac # None => boards[a].mac # c.mac
  BY Nulls DEF CreateBoard, BeginEdit, leaseVars, deviceVars, brokenVars, FreeIds, Ids, ensure_unique_network_identity
<1>3. e.op = "create" /\ e.pc = "write" /\ e.old = b /\ e.new = b /\ e.config = c
  OBVIOUS
<1> HIDE DEF e
<1>5. EditShape'
  BY <1>1, <1>2, <1>3, Nulls DEF EditShape, Editing, Pending
<1>6. Editing' => Usable(e.config.power)
  BY <1>3 DEF CreateBoard, validate_virtual_binding, Usable
<1>7. EditIsUnique'
  BY <1>2, <1>3 DEF EditIsUnique, Editing, Ids
<1>8. exclusions' \subseteq Relays /\ exposed' \subseteq Boards /\ RelayPortIsExcluded'
  <2>1. Excludable(Prepared(c, None)) /\ Exclude(Prepared(c, None))
    BY DEF CreateBoard
  <2>2. Prepared(c, None) \in SUBSET Relays
    BY DEF Prepared, relay_selectors
  <2>3. \A a \in Boards : Edited'[a] # None /\ Edited'[a].power \in Relays => Edited'[a].power \in Prepared(c, None)
    BY <1>2, <1>3, Nulls DEF Edited, Prepared, relay_selectors, Ids
  <2>4. Unready'
    BY <1>2, <1>3 DEF Unready
  <2> HIDE DEF Prepared
  <2>. QED BY <1>2, <2>1, <2>2, <2>3, <2>4, PreparedWithholds
<1>. QED BY <1>1, <1>3, <1>5, <1>6, <1>7, <1>8, EditBeginsKeeps

LEMMA UpdateBoardKeeps ==
  ASSUME Inv, NEW b \in Boards, NEW id \in Boards, NEW c \in Templates, UpdateBoard(b, id, c)
  PROVE  Inv'
<1> DEFINE e == [op |-> "update", pc |-> "write", old |-> b, new |-> id, config |-> c]
<1>1. c \in Config /\ c # None /\ validate(c) /\ BeginEdit(e) /\ e \in Edit
  BY InventoryAssumption DEF UpdateBoard, Accepted, Edit
<1>2. /\ edit' = e /\ UNCHANGED <<boards, overwritten, runtimes, devices, unstarted>>
      /\ boards[b] # None /\ runtimes[b] = "Idle" /\ (id # b => boards[id] = None)
      /\ \A a \in Ids(boards) \ {b} : c.mac # None => boards[a].mac # c.mac
  BY DEF UpdateBoard, Editable, BeginEdit, leaseVars, deviceVars, brokenVars, FreeIds, Ids,
         ensure_unique_network_identity
<1>3. e.op = "update" /\ e.pc = "write" /\ e.old = b /\ e.new = id /\ e.config = c
  OBVIOUS
<1> HIDE DEF e
<1>5. EditShape'
  BY <1>1, <1>2, <1>3, Nulls DEF EditShape, Editing, Pending
<1>6. Editing' => Usable(e.config.power)
  BY <1>3 DEF UpdateBoard, validate_virtual_binding, Usable
<1>7. EditIsUnique'
  BY <1>2, <1>3 DEF EditIsUnique, Editing, Ids
<1>8. exclusions' \subseteq Relays /\ exposed' \subseteq Boards /\ RelayPortIsExcluded'
  <2>1. Excludable(Prepared(c, b)) /\ Exclude(Prepared(c, b))
    BY DEF UpdateBoard
  <2>2. Prepared(c, b) \in SUBSET Relays
    BY DEF Prepared, relay_selectors
  <2>3. \A a \in Boards : Edited'[a] # None /\ Edited'[a].power \in Relays => Edited'[a].power \in Prepared(c, b)
    BY <1>2, <1>3, Nulls DEF Edited, Prepared, relay_selectors, Ids
  <2>4. Unready'
    BY <1>2, <1>3 DEF Unready
  <2> HIDE DEF Prepared
  <2>. QED BY <1>2, <2>1, <2>2, <2>3, <2>4, PreparedWithholds
<1>. QED BY <1>1, <1>3, <1>5, <1>6, <1>7, <1>8, EditBeginsKeeps

LEMMA DeleteBoardKeeps ==
  ASSUME Inv, NEW b \in Boards, DeleteBoard(b)
  PROVE  Inv'
<1> DEFINE e == [op |-> "delete", pc |-> "remove", old |-> b, new |-> None, config |-> None]
<1>1. BeginEdit(e) /\ e \in Edit
  BY DEF DeleteBoard, Edit
<1>2. /\ edit' = e /\ UNCHANGED <<boards, overwritten, runtimes, exclusions, exposed>>
      /\ boards[b] # None /\ runtimes[b] = "Idle" /\ edit.op = "none"
  BY DEF DeleteBoard, Editable, BeginEdit, leaseVars, brokenVars, GateIsFree
<1>3. e.op = "delete" /\ e.pc = "remove" /\ e.old = b /\ e.new = None /\ e.config = None
  OBVIOUS
<1> HIDE DEF e
<1>4. EditShape'
  BY <1>1, <1>2, <1>3, Nulls DEF EditShape, Editing, Pending
<1>5. EditIsUnique' /\ ~Editing'
  BY <1>2, <1>3 DEF EditIsUnique, Editing
<1>6. RelayPortIsExcluded'
  <2>1. Target' = Target
    BY <1>2, <1>3 DEF Target, Unready
  <2>. QED BY <1>2, <2>1, RelaysStayWithheld
<1>7. exclusions' \subseteq Relays /\ exposed' \subseteq Boards
  BY <1>2 DEF Inv, TypeOK
<1>. QED BY <1>1, <1>3, <1>4, <1>5, <1>6, <1>7, EditBeginsKeeps

\* A handler goes on: it is about the same board and the same configuration.
LEMMA EditGoesOn ==
  ASSUME Inv, NEW pc \in {"remove", "rollback", "commit", "sync", "refresh"}, edit' = [edit EXCEPT !.pc = pc]
  PROVE  /\ edit' \in Edit /\ edit'.pc = pc /\ edit'.op = edit.op /\ edit'.old = edit.old /\ edit'.new = edit.new
         /\ edit'.config = edit.config
  BY DEF Inv, TypeOK, Edit

\* It leaves the boards, their leases and the devices alone.
LEMMA EditMoves ==
  ASSUME Inv, edit' \in Edit, edit'.op = edit.op, edit'.old = edit.old, edit'.new = edit.new, edit'.config = edit.config,
         EditFrame, UNCHANGED <<boards, runtimes, unsynced>>, Pending, Pending',
         files' \in [Boards -> Config \cup {None}], \A b \in Ids(files') : validate(files'[b]),
         exclusions' \subseteq Relays, exposed' \subseteq Boards, torn' \subseteq Boards, faults' \in 0..MaxFaults,
         EditShape', FilesFollow', RelayPortIsExcluded'
  PROVE  Inv'
<1>1. UNCHANGED <<session, leased, dtbs, dtb, devices, qemu, poweron, unstarted, orphaned, busy, edits, overwritten>>
  BY DEF EditFrame, deviceVars
<1>2. TypeOK'
  BY <1>1 DEF Inv, TypeOK
<1>3. ConfigsAreValid'
  BY <1>1 DEF Inv, ConfigsAreValid, RequestIsValid, Ids
<1>4. DevicesAreBound' /\ EditIsUnique'
  BY <1>1 DEF Inv, DevicesAreBound, EditIsUnique, Editing, Usable, Ids
<1>5. NetworkIdentityIsUnique' /\ LeasedBoardIsUntouched'
  BY <1>1 DEF Inv, NetworkIdentityIsUnique, LeasedBoardIsUntouched, Syncing, Pending, Ids
<1>. QED BY <1>2, <1>3, <1>4, <1>5 DEF Inv

\* It ends without a change of the boards: what it has not synced is marked.
LEMMA EditEnds ==
  ASSUME Inv, edit' = NoEdit, EditFrame, UNCHANGED <<boards, runtimes>>,
         unsynced \cup Syncing \subseteq unsynced', unsynced' \subseteq Boards, torn' \subseteq Boards,
         files' \in [Boards -> Config \cup {None}], \A b \in Ids(files') : validate(files'[b]),
         exclusions' \subseteq Relays, exposed' \subseteq Boards, faults' \in 0..MaxFaults,
         ~overwritten => \A b \in Boards \ torn' : SameEdit(files'[b], boards[b]),
         RelayPortIsExcluded'
  PROVE  Inv'
<1>1. UNCHANGED <<session, leased, dtbs, dtb, devices, qemu, poweron, unstarted, orphaned, busy, edits, overwritten>>
  BY DEF EditFrame, deviceVars
<1>2. TypeOK'
  BY <1>1, Nulls DEF Inv, TypeOK
<1>3. ConfigsAreValid'
  BY <1>1, Nulls DEF Inv, ConfigsAreValid, RequestIsValid, Ids
<1>4. DevicesAreBound'
  BY <1>1, NoEditIsFine DEF Inv, DevicesAreBound, Usable, Ids
<1>5. FilesFollow'
  <2>. SUFFICES ASSUME ~overwritten', NEW b \in Boards \ torn'  PROVE SameEdit(files'[b], Written'[b])
    BY DEF FilesFollow, SameEdit
  <2>1. Written'[b] = boards[b]
    BY NoEditIsFine
  <2>2. SameEdit(files'[b], boards[b])
    BY <1>1
  <2>. QED BY <2>1, <2>2
<1>6. NetworkIdentityIsUnique'
  BY <1>1 DEF Inv, NetworkIdentityIsUnique, Ids
<1>7. LeasedBoardIsUntouched'
  <2>1. Syncing' = {}
    BY Nulls DEF Syncing
  <2>. QED BY <1>1, <2>1 DEF Inv, LeasedBoardIsUntouched
<1>. QED BY <1>2, <1>3, <1>4, <1>5, <1>6, <1>7, NoEditIsFine DEF Inv

\* Where an edit ends unfinished the files that it has not torn are those of the boards.
LEMMA UnfinishedIsTorn ==
  ASSUME Inv
  PROVE  /\ Unfinished \subseteq Boards
         /\ ~overwritten => \A b \in Boards \ (torn \cup Unfinished) : SameEdit(files[b], boards[b])
  BY DEF Unfinished, Inv, FilesFollow

LEMMA EditWritesKeeps ==
  ASSUME Inv, EditWrites
  PROVE  Inv'
<1>1. /\ edit.pc = "write" /\ Editing /\ files' = [files EXCEPT ![edit.new] = edit.config] /\ EditFrame
      /\ torn' = torn \ {edit.new} /\ UNCHANGED <<boards, runtimes, exclusions, exposed, faults, unsynced, overwritten>>
      /\ edit.old \in Boards /\ edit.new \in Boards /\ edit.config \in Config
      /\ edit.op = "create" => edit.old = edit.new
  BY DEF EditWrites, EditFrame, Inv, EditShape, Editing, TypeOK, Edit
<1>2. PICK pc \in {"commit", "remove"} : edit' = [edit EXCEPT !.pc = pc] /\ (pc = "commit" <=> edit.old = edit.new)
  BY DEF EditWrites
<1>3. /\ edit' \in Edit /\ edit'.pc = pc /\ edit'.op = edit.op /\ edit'.old = edit.old /\ edit'.new = edit.new
      /\ edit'.config = edit.config
  BY <1>2, EditGoesOn
<1>4. files \in [Boards -> Config \cup {None}] /\ exclusions \subseteq Relays /\ exposed \subseteq Boards
      /\ torn \subseteq Boards /\ faults \in 0..MaxFaults
  BY DEF Inv, TypeOK
<1>5. /\ files' \in [Boards -> Config \cup {None}] /\ files'[edit.new] = edit.config
      /\ \A b \in Boards : b # edit.new => files'[b] = files[b]
  BY <1>1, <1>4
<1>6. \A b \in Ids(files') : validate(files'[b])
  BY <1>1, <1>5, Nulls DEF Inv, ConfigsAreValid, Ids
<1>7. EditShape' /\ Pending /\ Pending'
  BY <1>1, <1>2, <1>3 DEF Inv, EditShape, Editing, Pending
<1>8. FilesFollow'
  <2>. SUFFICES ASSUME ~overwritten, NEW b \in Boards \ torn'  PROVE SameEdit(files'[b], Written'[b])
    BY <1>1 DEF FilesFollow, SameEdit
  <2>1. b # edit.new => SameEdit(files[b], boards[b])
    BY <1>1 DEF Inv, FilesFollow, Written
  <2>2. Written'[b] = IF b = edit.new THEN edit.config ELSE boards[b]
    BY <1>1, <1>2, <1>3 DEF Written, Edited, Editing
  <2>. QED BY <1>5, <2>1, <2>2, SameEditIsEquivalence
<1>9. RelayPortIsExcluded'
  <2>1. Target' = Target
    BY <1>1, <1>3 DEF Target, Unready, Edited
  <2>. QED BY <1>1, <2>1, RelaysStayWithheld
<1>. QED BY <1>1, <1>3, <1>4, <1>5, <1>6, <1>7, <1>8, <1>9, EditMoves

LEMMA EditWriteFailsKeeps ==
  ASSUME Inv, EditWriteFails
  PROVE  Inv'
<1>1. /\ edit.pc = "write" /\ edit' = NoEdit /\ EditFrame /\ Refresh(boards)
      /\ UNCHANGED <<boards, files, runtimes, torn, unsynced, overwritten>> /\ faults' \in 0..MaxFaults
  BY FaultIsCounted DEF EditWriteFails, EditFrame, Inv
<1>2. files \in [Boards -> Config \cup {None}] /\ torn \subseteq Boards /\ unsynced \subseteq Boards
      /\ \A b \in Ids(files) : validate(files[b])
  BY DEF Inv, TypeOK, ConfigsAreValid
<1>3. ~overwritten => \A b \in Boards \ torn : SameEdit(files[b], boards[b])
  BY <1>1 DEF Inv, FilesFollow, Written
<1>4. ~Unready' /\ Syncing = {}
  BY <1>1, Nulls DEF Unready, Syncing
<1>5. exclusions' \subseteq Relays /\ exposed' \subseteq Boards /\ RelayPortIsExcluded'
  BY <1>1, <1>4, RefreshWithholds
<1>. QED BY <1>1, <1>2, <1>3, <1>4, <1>5, EditEnds

LEMMA EditRemovesKeeps ==
  ASSUME Inv, EditRemoves
  PROVE  Inv'
<1>1. /\ edit.pc = "remove" /\ edit.op \in {"update", "delete"} /\ edit' = [edit EXCEPT !.pc = "commit"]
      /\ files' = [files EXCEPT ![edit.old] = None] /\ torn' = torn \ {edit.old} /\ EditFrame
      /\ UNCHANGED <<boards, runtimes, exclusions, exposed, faults, unsynced, overwritten>>
      /\ edit.old \in Boards /\ edit.old # edit.new /\ (edit.op = "delete" => edit.new = None)
  BY DEF EditRemoves, EditFrame, Inv, EditShape, Editing, TypeOK, Edit
<1>2. /\ edit' \in Edit /\ edit'.pc = "commit" /\ edit'.op = edit.op /\ edit'.old = edit.old /\ edit'.new = edit.new
      /\ edit'.config = edit.config
  BY <1>1, EditGoesOn
<1>3. files \in [Boards -> Config \cup {None}] /\ exclusions \subseteq Relays /\ exposed \subseteq Boards
      /\ torn \subseteq Boards /\ faults \in 0..MaxFaults
  BY DEF Inv, TypeOK
<1>4. /\ files' \in [Boards -> Config \cup {None}] /\ files'[edit.old] = None
      /\ \A b \in Boards : b # edit.old => files'[b] = files[b]
  BY <1>1, <1>3
<1>5. \A b \in Ids(files') : validate(files'[b])
  BY <1>4 DEF Inv, ConfigsAreValid, Ids
<1>6. EditShape' /\ Pending /\ Pending'
  BY <1>1, <1>2 DEF Inv, EditShape, Editing, Pending
<1>7. FilesFollow'
  <2>. SUFFICES ASSUME ~overwritten, NEW b \in Boards \ torn'  PROVE SameEdit(files'[b], Written'[b])
    BY <1>1 DEF FilesFollow, SameEdit
  <2>1. b # edit.old => SameEdit(files[b], IF edit.op = "update" /\ b = edit.new THEN edit.config ELSE boards[b])
    BY <1>1 DEF Inv, FilesFollow, Written
  <2>2. Written'[b] = IF b = edit.new THEN edit.config ELSE IF b = edit.old THEN None ELSE boards[b]
    BY <1>1, <1>2 DEF Written, Edited
  <2>3. b = edit.new => edit.op = "update"
    BY <1>1, Nulls
  <2>. QED BY <1>1, <1>4, <2>1, <2>2, <2>3, SameEditIsEquivalence
<1>8. RelayPortIsExcluded'
  <2>1. Target' = Target
    BY <1>1, <1>2 DEF Target, Unready, Edited
  <2>. QED BY <1>1, <2>1, RelaysStayWithheld
<1>. QED BY <1>1, <1>2, <1>3, <1>4, <1>5, <1>6, <1>7, <1>8, EditMoves

\* The old file stays: a deletion ends, and a rename goes on to its roll-back unless putting the
\* relay back is refused, which leaves the new file.
LEMMA EditRemoveFailsKeeps ==
  ASSUME Inv, EditRemoveFails
  PROVE  Inv'
<1>1. /\ edit.pc = "remove" /\ edit.op \in {"update", "delete"} /\ EditFrame /\ Syncing = {}
      /\ UNCHANGED <<boards, files, runtimes, unsynced, overwritten>> /\ faults' \in 0..MaxFaults
  BY FaultIsCounted DEF EditRemoveFails, EditFrame, Syncing, Inv, EditShape, TypeOK, Edit
<1>2. /\ files \in [Boards -> Config \cup {None}] /\ torn \subseteq Boards /\ exclusions \subseteq Relays
      /\ exposed \subseteq Boards /\ unsynced \subseteq Boards /\ \A b \in Ids(files) : validate(files[b])
  BY DEF Inv, TypeOK, ConfigsAreValid
<1>3. ~overwritten => \A b \in Boards \ torn : SameEdit(files[b], Written[b])
  BY DEF Inv, FilesFollow
<1>4. CASE edit.op = "update" /\ Refresh(boards) /\ edit' = [edit EXCEPT !.pc = "rollback"] /\ torn' = torn
  <2>1. /\ edit' \in Edit /\ edit'.pc = "rollback" /\ edit'.op = edit.op /\ edit'.old = edit.old /\ edit'.new = edit.new
        /\ edit'.config = edit.config
    BY <1>4, EditGoesOn
  <2>2. EditShape' /\ Pending /\ Pending' /\ ~Unready'
    BY <1>1, <1>4, <2>1 DEF Inv, EditShape, Editing, Pending, Unready
  <2>3. FilesFollow'
    <3>1. \A b \in Boards : Written'[b] = Written[b]
      BY <1>1, <1>4, <2>1 DEF Written
    <3>. QED BY <1>1, <1>3, <1>4, <3>1 DEF FilesFollow
  <2>4. exclusions' \subseteq Relays /\ exposed' \subseteq Boards /\ RelayPortIsExcluded'
    BY <1>1, <1>4, <2>2, RefreshWithholds
  <2>. QED BY <1>1, <1>2, <1>4, <2>1, <2>2, <2>3, <2>4, EditMoves
<1>5. CASE edit.op = "update" /\ Refresh(boards) /\ edit' = NoEdit /\ torn' = torn \cup Unfinished
  <2>1. ~Unready'
    BY <1>5, Nulls DEF Unready
  <2>2. exclusions' \subseteq Relays /\ exposed' \subseteq Boards /\ RelayPortIsExcluded'
    BY <1>1, <1>5, <2>1, RefreshWithholds
  <2>. QED BY <1>1, <1>2, <1>5, <2>2, UnfinishedIsTorn, EditEnds
<1>6. CASE edit.op = "delete" /\ edit' = NoEdit /\ UNCHANGED <<exclusions, exposed, torn>>
  <2>1. ~overwritten => \A b \in Boards \ torn : SameEdit(files[b], boards[b])
    BY <1>1, <1>3, <1>6 DEF Written
  <2>2. RelayPortIsExcluded'
    <3>1. Target' = Target
      BY <1>1, <1>6, Nulls DEF Target, Unready
    <3>. QED BY <1>1, <1>6, <3>1, RelaysStayWithheld
  <2>. QED BY <1>1, <1>2, <1>6, <2>1, <2>2, EditEnds
<1>. QED BY <1>4, <1>5, <1>6 DEF EditRemoveFails

LEMMA EditRollsBackKeeps ==
  ASSUME Inv, EditRollsBack
  PROVE  Inv'
<1>1. /\ edit.pc = "rollback" /\ edit.op = "update" /\ edit' = NoEdit /\ EditFrame /\ Syncing = {}
      /\ UNCHANGED <<boards, runtimes, exclusions, exposed, unsynced, overwritten>>
      /\ edit.new \in Boards /\ edit.old # edit.new
  BY DEF EditRollsBack, EditFrame, Syncing, Inv, EditShape, Editing
<1>2. /\ files \in [Boards -> Config \cup {None}] /\ torn \subseteq Boards /\ exclusions \subseteq Relays
      /\ exposed \subseteq Boards /\ unsynced \subseteq Boards /\ faults \in 0..MaxFaults
      /\ \A b \in Ids(files) : validate(files[b])
  BY DEF Inv, TypeOK, ConfigsAreValid
<1>3. RelayPortIsExcluded'
  <2>1. Target' = Target
    BY <1>1, Nulls DEF Target, Unready
  <2>. QED BY <1>1, <2>1, RelaysStayWithheld
<1>4. CASE files' = [files EXCEPT ![edit.new] = None] /\ UNCHANGED <<faults, torn>>
  <2>1. files' \in [Boards -> Config \cup {None}] /\ \A b \in Ids(files') : validate(files'[b])
    BY <1>1, <1>2, <1>4 DEF Ids
  <2>2. ~overwritten => \A b \in Boards \ torn : SameEdit(files'[b], boards[b])
    <3>. SUFFICES ASSUME ~overwritten, NEW b \in Boards \ torn  PROVE SameEdit(files'[b], boards[b])
      OBVIOUS
    <3>1. SameEdit(files[b], IF b = edit.new THEN edit.config ELSE boards[b])
      BY <1>1 DEF Inv, FilesFollow, Written
    <3>2. boards[edit.new] = None
      BY <1>1 DEF Inv, EditIsUnique, Editing, Pending
    <3>. QED BY <1>1, <1>2, <1>4, <3>1, <3>2, SameEditIsEquivalence
  <2>. QED BY <1>1, <1>2, <1>3, <1>4, <2>1, <2>2, EditEnds
<1>5. CASE faults' \in 0..MaxFaults /\ torn' = torn \cup Unfinished /\ UNCHANGED files
  BY <1>1, <1>2, <1>3, <1>5, UnfinishedIsTorn, EditEnds
<1>. QED BY <1>4, <1>5, FaultIsCounted DEF EditRollsBack, Inv

\* The client of an edit goes away: what it had done stays, and is marked.
LEMMA EditDroppedKeeps ==
  ASSUME Inv, EditDropped
  PROVE  Inv'
<1>1. /\ edit' = NoEdit /\ EditFrame /\ UNCHANGED <<boards, files, runtimes, exclusions, overwritten>>
      /\ torn' = torn \cup Unfinished /\ exposed' = exposed \cup GivenUp /\ unsynced' = unsynced \cup Syncing
      /\ faults' \in 0..MaxFaults
  BY FaultIsCounted DEF EditDropped, EditFrame, Inv
<1>2. /\ files \in [Boards -> Config \cup {None}] /\ torn \subseteq Boards /\ exclusions \subseteq Relays
      /\ exposed \subseteq Boards /\ unsynced \subseteq Boards /\ \A b \in Ids(files) : validate(files[b])
  BY DEF Inv, TypeOK, ConfigsAreValid
<1>3. GivenUp \subseteq Boards /\ Syncing \subseteq Boards
  BY DEF GivenUp, Syncing, Inv, EditShape, Editing
<1>4. RelayPortIsExcluded'
  <2>1. Target' = boards
    BY <1>1, Nulls DEF Target, Unready
  <2>2. ~overwritten => \A b \in Boards \ exposed' : Covered(Target[b])'
    BY <1>1, <2>1, BoardsAreCovered DEF Covered
  <2>. QED BY <1>1, <2>2, RelaysWithheldNext
<1>. QED BY <1>1, <1>2, <1>3, <1>4, UnfinishedIsTorn, EditEnds

\* The board is replaced, added or removed in memory, as it was in the files.
LEMMA EditCommitsKeeps ==
  ASSUME Inv, EditCommits
  PROVE  Inv'
<1>1. /\ edit.pc = "commit" /\ Pending /\ edit.op \in {"create", "update", "delete"} /\ edit.old \in Boards
      /\ Editing => edit.new \in Boards /\ edit.config \in Config /\ validate(edit.config)
      /\ edit.op = "create" => edit.old = edit.new
      /\ ~Editing => edit.new = None
      /\ edit.op \in {"update", "delete"} => runtimes[edit.old] = "Idle"
  BY Nulls DEF EditCommits, Inv, TypeOK, Edit, EditShape, ConfigsAreValid, Editing, Pending
<1>2. /\ boards' = Edited /\ edit' = [edit EXCEPT !.pc = "sync"]
      /\ UNCHANGED <<files, dtbs, runtimes, session, exclusions, exposed, leased, dtb, devices, qemu, poweron, unstarted,
                     orphaned, busy, edits, faults, overwritten, torn, unsynced>>
  BY DEF EditCommits, EditFrame, deviceVars
<1>3. /\ boards \in [Boards -> Config \cup {None}] /\ session \in [Boards -> Config \cup {None}]
  BY DEF Inv, TypeOK
<1>4. \A b \in Boards : boards'[b] = IF Editing /\ b = edit.new THEN edit.config
                                     ELSE IF b = edit.old THEN None ELSE boards[b]
  BY <1>1, <1>2, Nulls DEF Edited
<1>5. /\ edit' \in Edit /\ edit'.pc = "sync" /\ edit'.op = edit.op /\ edit'.old = edit.old /\ edit'.new = edit.new
      /\ edit'.config = edit.config
  BY <1>2, EditGoesOn
<1>6. TypeOK'
  <2>1. boards' \in [Boards -> Config \cup {None}]
    BY <1>1, <1>2, <1>3, <1>4 DEF Edited
  <2>. QED BY <1>2, <1>5, <2>1 DEF Inv, TypeOK
<1>7. EditShape' /\ EditIsUnique'
  BY <1>1, <1>2, <1>5 DEF Inv, EditShape, EditIsUnique, Editing, Pending
<1>8. ConfigsAreValid'
  <2>1. \A b \in Ids(boards') : validate(boards'[b])
    BY <1>1, <1>4 DEF Inv, ConfigsAreValid, Ids
  <2>. QED BY <1>2, <1>5, <2>1 DEF Inv, ConfigsAreValid, RequestIsValid, Ids
<1>9. DevicesAreBound'
  <2>1. ~overwritten => \A b \in Ids(boards') : Usable(boards'[b].power)
    BY <1>1, <1>4 DEF Inv, DevicesAreBound, Ids
  <2>. QED BY <1>2, <1>5, <2>1 DEF Inv, DevicesAreBound, Usable, Editing, Ids
<1>10. FilesFollow'
  <2>1. \A b \in Boards : Written[b] = boards'[b] /\ Written'[b] = boards'[b]
    BY <1>1, <1>2, <1>5 DEF Written
  <2>. QED BY <1>2, <2>1 DEF Inv, FilesFollow
<1>11. NetworkIdentityIsUnique'
  <2>. SUFFICES ASSUME ~overwritten, NEW a \in Ids(boards'), NEW b \in Ids(boards'),
                       boards'[a].mac = boards'[b].mac, boards'[a].mac # None, a # b
                PROVE  FALSE
    BY <1>2 DEF NetworkIdentityIsUnique, Ids
  <2>1. a \in Boards /\ b \in Boards /\ boards'[a] # None /\ boards'[b] # None
    BY DEF Ids
  <2>2. Editing /\ edit.config.mac # None => \A c \in Ids(boards) \ {edit.old} : boards[c].mac # edit.config.mac
    BY <1>1 DEF Inv, EditIsUnique
  <2>3. \A c, d \in Ids(boards) : boards[c].mac = boards[d].mac /\ boards[c].mac # None => c = d
    BY DEF Inv, NetworkIdentityIsUnique
  <2>4. CASE Editing /\ a = edit.new
    <3>1. boards'[a] = edit.config /\ b # edit.old /\ boards'[b] = boards[b] /\ b \in Ids(boards)
      BY <1>4, <2>1, <2>4 DEF Ids
    <3>. QED BY <2>2, <2>4, <3>1
  <2>5. CASE Editing /\ b = edit.new
    <3>1. boards'[b] = edit.config /\ a # edit.old /\ boards'[a] = boards[a] /\ a \in Ids(boards)
      BY <1>4, <2>1, <2>5 DEF Ids
    <3>. QED BY <2>2, <2>5, <3>1
  <2>6. CASE ~(Editing /\ a = edit.new) /\ ~(Editing /\ b = edit.new)
    <3>1. boards'[a] = boards[a] /\ boards'[b] = boards[b] /\ a \in Ids(boards) /\ b \in Ids(boards)
      BY <1>4, <2>1, <2>6 DEF Ids
    <3>. QED BY <2>3, <3>1
  <2>. QED BY <2>4, <2>5, <2>6
<1>12. RelayPortIsExcluded'
  <2>1. ~Unready' /\ Target' = Edited
    BY <1>2, <1>5 DEF Unready, Target
  <2>2. CASE Unready
    <3>1. Target' = Target
      BY <2>1, <2>2 DEF Target
    <3>. QED BY <1>2, <3>1, RelaysStayWithheld
  <2>3. CASE ~Unready
    <3>1. \A b \in Boards : Target'[b] = boards[b] \/ Target'[b] = None
      BY <1>1, <1>2, <1>4, <2>1, <2>3 DEF Unready, Editing
    <3>2. ~overwritten => \A b \in Boards \ exposed : Covered(Target[b])'
      BY <1>2, <2>3, <3>1, RelaysWithheld DEF Inv, Covered, Target
    <3>. QED BY <1>2, <3>2, RelaysWithheldNext
  <2>. QED BY <2>2, <2>3
<1>13. LeasedBoardIsUntouched'
  <2>. SUFFICES ASSUME ~overwritten, NEW b \in Boards
                PROVE  /\ session[b] # None => runtimes[b] = "Using" /\ SameEdit(session[b], boards'[b])
                       /\ b \notin unsynced \cup Syncing' => (boards'[b] # None <=> runtimes[b] # None)
    BY <1>2 DEF LeasedBoardIsUntouched, SameEdit
  <2>1. /\ session[b] # None => runtimes[b] = "Using" /\ SameEdit(session[b], boards[b])
        /\ b \notin unsynced => (boards[b] # None <=> runtimes[b] # None)
    BY <1>1 DEF Inv, LeasedBoardIsUntouched, Syncing
  <2>2. b \notin Syncing' => boards'[b] = boards[b]
    BY <1>1, <1>4, <1>5 DEF Syncing
  <2>3. CASE session[b] # None
    <3>0. boards[b] # None /\ runtimes[b] = "Using"
      BY <2>1, <2>3, SameEditIsEquivalence
    <3>1. b # edit.old
      <4>1. edit.op = "create" => boards[edit.new] = None
        BY <1>1 DEF Inv, EditIsUnique, Editing
      <4>. QED BY <1>1, <3>0, <4>1
    <3>2. ~(Editing /\ b = edit.new)
      <4>1. Editing /\ edit.new # edit.old => boards[edit.new] = None
        BY <1>1 DEF Inv, EditIsUnique
      <4>. QED BY <3>0, <3>1, <4>1
    <3>3. boards'[b] = boards[b]
      BY <1>4, <3>1, <3>2
    <3>. QED BY <2>1, <3>3
  <2>. QED BY <2>1, <2>2, <2>3
<1>. QED BY <1>6, <1>7, <1>8, <1>9, <1>10, <1>11, <1>12, <1>13 DEF Inv

\* Every board gets an entry, and every session keeps its own.
LEMMA EditSyncsKeeps ==
  ASSUME Inv, EditSyncs
  PROVE  Inv'
<1>1. /\ edit.pc = "sync" /\ edit' = [edit EXCEPT !.pc = "refresh"] /\ unsynced' = {}
      /\ UNCHANGED <<boards, files, dtbs, session, exclusions, exposed, leased, dtb, devices, qemu, poweron, unstarted,
                     orphaned, busy, edits, faults, overwritten, torn>>
  BY DEF EditSyncs, EditFrame, deviceVars
<1>2. runtimes' = [b \in Boards |-> IF boards[b] = None THEN None ELSE IF runtimes[b] = None THEN "Idle" ELSE runtimes[b]]
  BY DEF EditSyncs, sync_board_runtime_states
<1>3. /\ edit' \in Edit /\ edit'.pc = "refresh" /\ edit'.op = edit.op /\ edit'.old = edit.old /\ edit'.new = edit.new
      /\ edit'.config = edit.config
  BY <1>1, EditGoesOn
<1>4. runtimes \in [Boards -> {None, "Idle", "Using"}]
  BY DEF Inv, TypeOK
<1>5. runtimes' \in [Boards -> {None, "Idle", "Using"}]
  BY <1>2, <1>4
<1>6. TypeOK'
  BY <1>1, <1>3, <1>5 DEF Inv, TypeOK
<1>7. EditShape' /\ EditIsUnique'
  BY <1>1, <1>3 DEF Inv, EditShape, EditIsUnique, Editing, Pending
<1>8. ConfigsAreValid' /\ DevicesAreBound' /\ NetworkIdentityIsUnique'
  BY <1>1, <1>3 DEF Inv, ConfigsAreValid, RequestIsValid, DevicesAreBound, NetworkIdentityIsUnique, Editing, Usable, Ids
<1>9. FilesFollow'
  <2>1. \A b \in Boards : Written'[b] = boards[b] /\ Written[b] = boards[b]
    BY <1>1, <1>3 DEF Written
  <2>. QED BY <1>1, <2>1 DEF Inv, FilesFollow
<1>10. RelayPortIsExcluded'
  <2>1. Target' = Target
    BY <1>1, <1>3 DEF Target, Unready
  <2>. QED BY <1>1, <2>1, RelaysStayWithheld
<1>11. LeasedBoardIsUntouched'
  <2>. SUFFICES ASSUME ~overwritten, NEW b \in Boards
                PROVE  /\ session[b] # None => runtimes'[b] = "Using" /\ SameEdit(session[b], boards[b])
                       /\ boards[b] # None <=> runtimes'[b] # None
    BY <1>1 DEF LeasedBoardIsUntouched, SameEdit
  <2>1. session[b] # None => runtimes[b] = "Using" /\ SameEdit(session[b], boards[b])
    BY DEF Inv, LeasedBoardIsUntouched
  <2>. QED BY <1>2, <2>1, Nulls, SameEditIsEquivalence
<1>. QED BY <1>6, <1>7, <1>8, <1>9, <1>10, <1>11 DEF Inv

LEMMA EditRefreshesKeeps ==
  ASSUME Inv, EditRefreshes
  PROVE  Inv'
<1>1. /\ edit.pc = "refresh" /\ edit' = NoEdit /\ EditFrame /\ Refresh(boards)
      /\ UNCHANGED <<boards, files, runtimes, faults, torn, unsynced, overwritten>>
  BY DEF EditRefreshes, EditFrame
<1>2. files \in [Boards -> Config \cup {None}] /\ torn \subseteq Boards /\ unsynced \subseteq Boards
      /\ faults \in 0..MaxFaults /\ \A b \in Ids(files) : validate(files[b])
  BY DEF Inv, TypeOK, ConfigsAreValid
<1>3. ~overwritten => \A b \in Boards \ torn : SameEdit(files[b], boards[b])
  BY <1>1 DEF Inv, FilesFollow, Written
<1>4. ~Unready' /\ Syncing = {}
  BY <1>1, Nulls DEF Unready, Syncing
<1>5. exclusions' \subseteq Relays /\ exposed' \subseteq Boards /\ RelayPortIsExcluded'
  BY <1>1, <1>4, RefreshWithholds
<1>. QED BY <1>1, <1>2, <1>3, <1>4, <1>5, EditEnds

-----------------------------------------------------------------------------
(***************************************************************************)
(* Restart, and the invariant.                                             *)
(***************************************************************************)
\* What is read from the files is valid and has no MAC twice; switching boards off edits none.
LEMMA LoadedIsSound ==
  ASSUME Inv, NEW F, F \subseteq Ids(load_all)
  PROVE  /\ load_all \in [Boards -> Config \cup {None}] /\ SwitchedOff(F) \in [Boards -> Config \cup {None}]
         /\ \A b \in Ids(load_all) : validate(load_all[b])
         /\ \A b \in Boards : SameEdit(load_all[b], SwitchedOff(F)[b])
         /\ \A b \in Ids(SwitchedOff(F)) : validate(SwitchedOff(F)[b])
         /\ \A a, b \in Ids(load_all) : load_all[a].mac = load_all[b].mac /\ load_all[a].mac # None => a = b
<1>1. files \in [Boards -> Config \cup {None}] /\ \A b \in Ids(files) : validate(files[b])
  BY DEF Inv, TypeOK, ConfigsAreValid
<1>2. \A b \in Boards : load_all[b] \in {None, files[b]}
  BY DEF load_all
<1>3. load_all \in [Boards -> Config \cup {None}]
  BY <1>1 DEF load_all
<1>4. \A b \in Ids(load_all) : load_all[b] = files[b] /\ b \in Ids(files)
  BY <1>2 DEF Ids
<1>5. \A a, b \in Ids(load_all) : load_all[a].mac = load_all[b].mac /\ load_all[a].mac # None => ~(a < b)
  <2>. SUFFICES ASSUME NEW a \in Ids(load_all), NEW b \in Ids(load_all), load_all[a].mac = load_all[b].mac,
                       load_all[a].mac # None, a < b
                PROVE  FALSE
    OBVIOUS
  <2>1. a \in Ids(files) /\ a < b /\ files[a].mac # None /\ files[a].mac = files[b].mac /\ files[b] # None
    BY <1>4 DEF Ids
  <2>2. b \in Boards /\ load_all[b] # None
    BY DEF Ids
  <2>. QED BY <2>1, <2>2 DEF load_all
<1>6. \A a, b \in Ids(load_all) : load_all[a].mac = load_all[b].mac /\ load_all[a].mac # None => a = b
  <2>. SUFFICES ASSUME NEW a \in Ids(load_all), NEW b \in Ids(load_all), load_all[a].mac = load_all[b].mac,
                       load_all[a].mac # None
                PROVE  a = b
    OBVIOUS
  <2>1. ~(a < b) /\ ~(b < a)
    BY <1>5
  <2>2. a \in Nat /\ b \in Nat
    BY InventoryAssumption DEF Ids
  <2>. QED BY <2>1, <2>2
<1>7. \A b \in Boards : IF b \in F THEN /\ load_all[b] \in Config /\ SwitchedOff(F)[b] \in Config
                                        /\ SwitchedOff(F)[b].mac = load_all[b].mac
                                        /\ SwitchedOff(F)[b].dtb = load_all[b].dtb
                                        /\ SwitchedOff(F)[b].power = load_all[b].power
                                   ELSE SwitchedOff(F)[b] = load_all[b]
  <2>. SUFFICES ASSUME NEW b \in Boards, b \in F
                PROVE  /\ load_all[b] \in Config /\ SwitchedOff(F)[b] \in Config
                       /\ SwitchedOff(F)[b].mac = load_all[b].mac
                       /\ SwitchedOff(F)[b].dtb = load_all[b].dtb
                       /\ SwitchedOff(F)[b].power = load_all[b].power
    BY DEF SwitchedOff
  <2>1. load_all[b] \in Config
    BY <1>3 DEF Ids
  <2>2. SwitchedOff(F)[b] = [load_all[b] EXCEPT !.disabled = TRUE]
    BY DEF SwitchedOff
  <2> HIDE DEF load_all
  <2>. QED BY <2>1, <2>2 DEF Config
<1>8. SwitchedOff(F) \in [Boards -> Config \cup {None}]
  <2>1. \A b \in Boards : SwitchedOff(F)[b] \in Config \cup {None}
    BY <1>3, <1>7
  <2>. QED BY <2>1 DEF SwitchedOff
<1>9. \A b \in Boards : SameEdit(load_all[b], SwitchedOff(F)[b])
  BY <1>7, Nulls, SameEditIsEquivalence DEF SameEdit
<1>10. \A b \in Ids(load_all) : validate(load_all[b])
  BY <1>1, <1>4
<1>11. \A b \in Ids(SwitchedOff(F)) : validate(SwitchedOff(F)[b])
  BY <1>7, <1>10, Nulls DEF Ids, validate
<1>. QED BY <1>3, <1>6, <1>8, <1>9, <1>10, <1>11

LEMMA RestartKeeps ==
  ASSUME Inv, NEW F \in SUBSET Boards, Restart(F)
  PROVE  Inv'
<1> DEFINE L == load_all
           B == SwitchedOff(F)
<1>1. /\ L \in [Boards -> Config \cup {None}] /\ B \in [Boards -> Config \cup {None}]
      /\ \A b \in Ids(L) : validate(L[b])
      /\ \A b \in Boards : SameEdit(L[b], B[b])
      /\ \A b \in Ids(B) : validate(B[b])
      /\ \A a, b \in Ids(L) : L[a].mac = L[b].mac /\ L[a].mac # None => a = b
  BY LoadedIsSound DEF Restart
<1>2. /\ boards' = B /\ files' = L /\ edit' = NoEdit /\ dtb' = [r \in DtbRequests |-> NoRequest]
      /\ runtimes' = [b \in Boards |-> IF L[b] = None THEN None ELSE "Idle"]
      /\ session' = [b \in Boards |-> None]
      /\ exclusions' = relay_selectors(L) /\ leased' = {} /\ exposed' = {}
      /\ qemu' = qemu \cap orphaned /\ poweron' = {} /\ unstarted' = {} /\ busy' = {}
      /\ overwritten' = FALSE /\ torn' = {} /\ unsynced' = {} /\ UNCHANGED <<dtbs, edits, orphaned>>
      /\ devices' = [d \in Devices |->
           IF \E b \in Ids(L) : L[b].power = d THEN "present"
           ELSE IF devices[d] = "unborn" THEN "unborn" ELSE "absent"]
  BY DEF Restart
<1> HIDE DEF L, B
<1>3. /\ Ids(B) = Ids(L) /\ \A b \in Ids(L) : B[b].mac = L[b].mac /\ B[b].power = L[b].power
  BY <1>1, SameEditIsEquivalence DEF Ids
<1>4. TypeOK'
  <2>1. faults' \in 0..MaxFaults
    BY FaultIsCounted DEF Restart, Inv
  <2>2. devices' \in [Devices -> {"unborn", "absent", "starting", "present", "deleting"}]
    BY <1>2
  <2>3. exclusions' \subseteq Relays
    BY <1>2 DEF relay_selectors
  <2>4. runtimes' \in [Boards -> {None, "Idle", "Using"}]
    BY <1>2
  <2>. QED BY <1>1, <1>2, <2>1, <2>2, <2>3, <2>4, Nulls DEF Inv, TypeOK
<1>5. ConfigsAreValid'
  <2>1. \A r \in DtbRequests : dtb'[r] = NoRequest
    BY <1>2
  <2>2. edit'.config = None
    BY <1>2, Nulls
  <2>. QED BY <1>1, <1>2, <2>1, <2>2, RequestsAreValid DEF ConfigsAreValid, RequestIsValid, Ids
<1>6. DevicesAreBound'
  <2>1. \A b \in Ids(B) : B[b].power \in Devices => devices'[B[b].power] = "present"
    BY <1>2, <1>3
  <2>. QED BY <1>2, <2>1, NoEditIsFine DEF DevicesAreBound, Usable, Ids
<1>7. FilesFollow'
  BY <1>1, <1>2, NoEditIsFine DEF FilesFollow
<1>8. NetworkIdentityIsUnique'
  BY <1>1, <1>2, <1>3 DEF NetworkIdentityIsUnique, Ids
<1>9. RelayPortIsExcluded'
  <2>1. Target' = B
    BY <1>2, Nulls DEF Target, Unready
  <2>2. \A b \in Boards : B[b] # None /\ B[b].power \in Relays => B[b].power \in exclusions'
    BY <1>2, <1>3 DEF relay_selectors, Ids
  <2>3. \A b \in Boards : Covered(Target[b])'
    BY <2>1, <2>2 DEF Covered
  <2>. QED BY <2>3, RelaysWithheldNext
<1>10. LeasedBoardIsUntouched'
  BY <1>2, <1>3, Nulls DEF LeasedBoardIsUntouched, Ids
<1>. QED BY <1>2, <1>4, <1>5, <1>6, <1>7, <1>8, <1>9, <1>10, NoEditIsFine DEF Inv

LEMMA InvHolds == Spec => []Inv
<1>1. Init => Inv
  <2>. SUFFICES ASSUME Init  PROVE Inv
    OBVIOUS
  <2>1. TypeOK
    <3>1. 0 \in 0..MaxEdits /\ 0 \in 0..MaxFaults
      BY InventoryAssumption
    <3>. QED BY <3>1, Nulls DEF Init, TypeOK
  <2>2. EditShape /\ EditIsUnique /\ LeasedBoardIsUntouched
    BY Nulls DEF Init, EditShape, EditIsUnique, Editing, Pending, LeasedBoardIsUntouched
  <2>3. \A b \in Boards : boards[b] = None /\ files[b] = None
    BY DEF Init
  <2>4. ConfigsAreValid
    BY <2>3, Nulls DEF Init, ConfigsAreValid, RequestIsValid, Ids
  <2>5. DevicesAreBound /\ NetworkIdentityIsUnique /\ RelayPortIsExcluded
    BY <2>3, Nulls DEF Init, DevicesAreBound, Editing, NetworkIdentityIsUnique, RelayPortIsExcluded, Guarded, Unready, Ids
  <2>6. FilesFollow
    BY <2>3, Nulls DEF Init, FilesFollow, Written, SameEdit
  <2>. QED BY <2>1, <2>2, <2>4, <2>5, <2>6 DEF Inv
<1>2. Inv /\ [Next]_vars => Inv'
  <2>. SUFFICES ASSUME Inv, [Next]_vars  PROVE Inv'
    OBVIOUS
  <2>1. CASE EditStep
    BY <2>1, EditWritesKeeps, EditWriteFailsKeeps, EditRemovesKeeps, EditRemoveFailsKeeps, EditRollsBackKeeps,
       EditCommitsKeeps, EditSyncsKeeps, EditRefreshesKeeps, EditDroppedKeeps DEF EditStep
  <2>2. CASE BoardStep
    BY <2>2, CreateBoardKeeps, UpdateBoardKeeps, DeleteBoardKeeps, SessionKeeps DEF BoardStep
  <2>3. CASE PowerStep \/ DeviceStep
    BY <2>3, PowerStepKeeps, DeviceStepKeeps
  <2>4. CASE \E r \in DtbRequests : DtbStep(r)
    BY <2>4, DtbStepKeeps
  <2>5. CASE \E F \in SUBSET Boards : Restart(F)
    BY <2>5, RestartKeeps
  <2>6. CASE UNCHANGED vars
    <3>1. UNCHANGED <<boards, files, leaseVars, edit, exclusions, exposed, dtb, overwritten, torn,
                     unsynced>>
      BY <2>6 DEF vars, diskVars, serialVars, brokenVars
    <3>2. UNCHANGED <<dtbs, leased, devices, qemu, poweron, unstarted, orphaned, busy, edits, faults>>
      BY <2>6 DEF vars, diskVars, serialVars, deviceVars, boundVars
    <3>3. TypeOK'
      BY <3>1, <3>2 DEF Inv, TypeOK, leaseVars
    <3>4. DevicesAreBound' /\ (edit.op = "device" => devices'[edit.old] = "deleting")
      BY <3>1, <3>2 DEF Inv, EditShape, DevicesAreBound, Editing, Usable, Ids
    <3>. QED BY <3>1, <3>3, <3>4, InventoryIsKept
  <2>. QED BY <2>1, <2>2, <2>3, <2>4, <2>5, <2>6 DEF Next
<1>. QED BY <1>1, <1>2, PTL DEF Spec

-----------------------------------------------------------------------------
(***************************************************************************)
(* The results.                                                            *)
(***************************************************************************)
\* Whatever edits, renames, power calls, device deletions, failures, dropped handlers and restarts
\* meet: no two boards have one MAC, the port of a relay is withheld from discovery but where an
\* update gave it up and ended unfinished, every board is one that validate accepts and can use
\* its device, and a deleted device has no QEMU unless its deletion was dropped.
THEOREM InventoryIsSafe == Spec => []InventoryInv
<1>1. Inv => InventoryInv
  <2>. SUFFICES ASSUME Inv  PROVE VirtualDevicesAreSound
    BY DEF Inv, InventoryInv
  <2>. QED BY DEF Inv, ConfigsAreValid, DevicesAreBound, Usable, VirtualDevicesAreSound
<1>. QED BY <1>1, InvHolds, PTL

\* Outside an edit the files are the inventory: what was answered survives a restart, what was
\* refused or failed does not come back, and an edit that its client left half-way, or that could
\* not be rolled back, tears no file but those of its own boards.
THEOREM EditsSurvive == Spec => []EditsAreDurable
<1>1. Inv => EditsAreDurable
  <2>. SUFFICES ASSUME Inv, GateIsFree, ~overwritten, NEW b \in Boards \ torn
                PROVE  SameEdit(files[b], boards[b])
    BY DEF EditsAreDurable
  <2>1. edit.pc = "none"
    BY DEF Inv, EditShape, GateIsFree
  <2>2. Written[b] = boards[b]
    BY <2>1 DEF Written
  <2>. QED BY <2>2 DEF Inv, FilesFollow
<1>. QED BY <1>1, InvHolds, PTL

\* A leased board is neither edited nor removed, also when handlers are dropped half-way, and a
\* board that can be allocated has the runtime entry that create_session_inner claims unless the
\* edit that made it was dropped before it synced the entries.
THEOREM LeasesAreKept == Spec => []LeasedBoardIsUntouched
<1>1. Inv => LeasedBoardIsUntouched
  BY DEF Inv
<1>. QED BY <1>1, InvHolds, PTL

\* An edit is whole but for the boards of its own that a lost client left half-edited, and never
\* under a session, for any number of boards and editors.
THEOREM EveryEditIsSound == Spec => []EditsAreSound
<1>. QED BY EditsSurvive, LeasesAreKept, PTL DEF EditsAreSound

-----------------------------------------------------------------------------
(***************************************************************************)
(* NetworkTest.                                                            *)
(***************************************************************************)
\* How many directions of a test run.
Count(record) ==
  (IF record["upload"] = "running" THEN 1 ELSE 0) + (IF record["download"] = "running" THEN 1 ELSE 0)

PermitsMatch ==
  /\ IsFiniteSet(permit) /\ free + Cardinality(permit) = MaxActive
  /\ \A t \in Tests : active[t] = Count(status[t]) /\ (t \in permit <=> active[t] > 0)

RegistryIsBounded == IsFiniteSet(known) /\ Cardinality(known) <= MaxRecords

\* What has not begun has measured nothing.
NothingBeforeTheStart ==
  \A t \in Tests, d \in Direction : status[t][d] = "not_started" => bytes[t][d] = 0

NetIInv ==
  /\ NetTypeOK /\ PermitsMatch /\ RegistryIsBounded /\ RunningIsKnown /\ RunningEnds
  /\ CompletedIsWhole /\ NothingBeforeTheStart

-----------------------------------------------------------------------------
\* The directions that run are counted by looking at both.
LEMMA RunningIsCounted ==
  ASSUME NEW t \in Tests
  PROVE  Cardinality(RunningDirections(t)) = Count(status[t])
<1>1. "upload" # "download"
  OBVIOUS
<1>2. CASE Running(t, "upload") /\ Running(t, "download")
  <2>1. RunningDirections(t) = {"upload"} \cup {"download"}
    BY <1>2 DEF RunningDirections, Direction
  <2>2. Cardinality({"upload"} \cup {"download"}) = 2
    <3>1. IsFiniteSet({"upload"}) /\ Cardinality({"upload"}) = 1
      BY FS_Singleton, Zenon
    <3>2. "download" \notin {"upload"}
      BY <1>1
    <3>. QED BY <3>1, <3>2, FS_AddElement
  <2>. QED BY <1>2, <2>1, <2>2 DEF Count, Running
<1>3. CASE Running(t, "upload") /\ ~Running(t, "download")
  <2>1. RunningDirections(t) = {"upload"}
    BY <1>3 DEF RunningDirections, Direction
  <2>2. Cardinality({"upload"}) = 1
    BY FS_Singleton, Zenon
  <2>. QED BY <1>3, <2>1, <2>2 DEF Count, Running
<1>4. CASE ~Running(t, "upload") /\ Running(t, "download")
  <2>1. RunningDirections(t) = {"download"}
    BY <1>4 DEF RunningDirections, Direction
  <2>2. Cardinality({"download"}) = 1
    BY FS_Singleton, Zenon
  <2>. QED BY <1>4, <2>1, <2>2 DEF Count, Running
<1>5. CASE ~Running(t, "upload") /\ ~Running(t, "download")
  <2>1. RunningDirections(t) = {}
    BY <1>5 DEF RunningDirections, Direction
  <2>. QED BY <1>5, <2>1, FS_EmptySet DEF Count, Running
<1>. QED BY <1>2, <1>3, <1>4, <1>5

\* The inductive invariant says all that the run checks.
LEMMA NetIInvIsStronger == NetIInv => NetTestInv
  BY RunningIsCounted DEF NetIInv, NetTestInv, PermitsMatch, PermitsAreCounted, RegistryIsBounded

\* An empty registry satisfies it.
LEMMA NetInitHolds == NetInit => NetIInv
<1>. SUFFICES ASSUME NetInit PROVE NetIInv
  OBVIOUS
<1>. USE NetworkTestAssumption DEF NetInit
<1>1. NetTypeOK
  BY DEF NetTypeOK, TransferStatus
<1>2. PermitsMatch
  BY FS_EmptySet DEF PermitsMatch, Count, Direction
<1>3. RegistryIsBounded
  BY FS_EmptySet DEF RegistryIsBounded
<1>4. RunningIsKnown /\ RunningEnds /\ NothingBeforeTheStart
  BY DEF RunningIsKnown, RunningEnds, NothingBeforeTheStart, Running, Direction
<1>5. CompletedIsWhole
  BY DEF CompletedIsWhole, Direction
<1>. QED BY <1>1, <1>2, <1>3, <1>4, <1>5 DEF NetIInv

-----------------------------------------------------------------------------
\* A record that may be evicted has an oldest one beside it, which is evicted.
LEMMA OldestExists ==
  ASSUME NetTypeOK, NEW records, records \subseteq Tests, Evictable(records) # {}
  PROVE  Oldest(records) # {}
<1>. DEFINE R == {ss \in Nat \X Nat : ss[1] < ss[2]}
            T == {lastFinished[t] : t \in Evictable(records)}
<1>1. IsWellFoundedOn(R, Nat)
  BY NatLessThanWellFounded, Zenon DEF OpToRel
<1>2. \A t \in Evictable(records) : lastFinished[t] \in Nat
  BY DEF NetTypeOK, Evictable
<1>3. T \subseteq Nat /\ T # {}
  BY <1>2
<1>. HIDE DEF R
<1>4. PICK m \in T : \A x \in T : ~(<<x, m>> \in R)
  BY <1>1, <1>3, WFMin
<1>5. PICK t \in Evictable(records) : m = lastFinished[t]
  BY <1>4
<1>6. ASSUME NEW u \in Evictable(records) PROVE lastFinished[t] <= lastFinished[u]
  <2>1. lastFinished[u] \in T /\ lastFinished[u] \in Nat /\ m \in Nat
    BY <1>2, <1>3
  <2>. HIDE DEF T
  <2>2. ~(lastFinished[u] < m)
    BY <1>4, <2>1 DEF R
  <2>. QED BY <1>5, <2>1, <2>2
<1>. QED BY <1>5, <1>6 DEF Oldest

\* Nothing but the registry changes, and what runs stays in it.
LEMMA RegistryStep ==
  ASSUME NetIInv, UNCHANGED <<recordVars, bytes, transfer, late, watchdog, request>>,
         due' \subseteq known', known' \subseteq made', made' \subseteq Tests, RegistryIsBounded',
         \A t \in Tests : active[t] > 0 => t \in known' \ due'
  PROVE  NetIInv'
<1>. USE DEF recordVars
<1>1. NetTypeOK'
  BY DEF NetIInv, NetTypeOK
<1>2. PermitsMatch'
  BY DEF NetIInv, PermitsMatch
<1>3. RunningIsKnown' /\ RunningEnds'
  BY DEF NetIInv, RunningIsKnown, RunningEnds, Running
<1>4. CompletedIsWhole' /\ NothingBeforeTheStart'
  BY DEF NetIInv, CompletedIsWhole, NothingBeforeTheStart
<1>. QED BY <1>1, <1>2, <1>3, <1>4 DEF NetIInv

\* A new record goes where one is free, or takes the place of one that has finished.
LEMMA CreateStep ==
  ASSUME NetIInv, Create PROVE NetIInv'
<1>. DEFINE kept == known \ due
            full == Cardinality(kept) >= MaxRecords
            t == CHOOSE t \in Tests : t \notin made
<1>1. made \subseteq Tests /\ kept \subseteq made /\ IsFiniteSet(known) /\ Cardinality(known) <= MaxRecords
  BY DEF NetIInv, NetTypeOK, RegistryIsBounded
<1>2. IsFiniteSet(kept) /\ Cardinality(kept) <= Cardinality(known) /\ Cardinality(kept) \in Nat
      /\ Cardinality(known) \in Nat
  BY <1>1, FS_Subset, FS_CardinalityType
<1>3. t \in Tests /\ t \notin made
  BY <1>1 DEF Create
<1>4. \A u \in Tests : active[u] > 0 => u \in kept
  BY DEF NetIInv, RunningIsKnown
<1>5. CASE full /\ Evictable(kept) = {}
  <2>1. known' = kept /\ due' = {} /\ made' = made
    BY <1>5 DEF Create
  <2>2. RegistryIsBounded'
    BY <1>1, <1>2, <2>1, NetworkTestAssumption DEF RegistryIsBounded
  <2>. QED BY <1>1, <1>4, <2>1, <2>2, RegistryStep DEF Create
<1>6. CASE ~(full /\ Evictable(kept) = {})
  <2>. DEFINE stay == IF full THEN kept \ Oldest(kept) ELSE kept
  <2>1. known' = stay \cup {t} /\ due' = {} /\ made' = made \cup {t}
    BY <1>6 DEF Create
  <2>2. \A u \in Tests : active[u] > 0 => u \in stay
    BY <1>4 DEF Oldest, Evictable
  <2>3. IsFiniteSet(stay) /\ Cardinality(stay) \in Nat /\ Cardinality(stay) < MaxRecords
    <3>1. CASE full
      <4>1. PICK u \in kept : u \in Oldest(kept)
        BY <1>1, <1>6, <3>1, OldestExists DEF NetIInv, Oldest, Evictable
      <4>2. IsFiniteSet(kept \ {u}) /\ Cardinality(kept \ {u}) = Cardinality(kept) - 1
        BY <1>2, <4>1, FS_RemoveElement
      <4>3. stay \in SUBSET (kept \ {u})
        BY <3>1, <4>1
      <4>. HIDE DEF stay
      <4>4. IsFiniteSet(stay) /\ Cardinality(stay) <= Cardinality(kept \ {u}) /\ Cardinality(stay) \in Nat
        BY <4>2, <4>3, FS_Subset, FS_CardinalityType
      <4>. QED BY <1>1, <1>2, <4>2, <4>4, NetworkTestAssumption
    <3>2. CASE ~full
      BY <1>2, <3>2, NetworkTestAssumption
    <3>. QED BY <3>1, <3>2
  <2>4. RegistryIsBounded'
    <3>. HIDE DEF stay, t
    <3>1. IsFiniteSet(stay \cup {t}) /\ Cardinality(stay \cup {t}) <= Cardinality(stay) + 1
      BY <2>3, FS_AddElement
    <3>2. Cardinality(stay \cup {t}) \in Nat
      BY <3>1, FS_CardinalityType
    <3>. QED BY <2>1, <2>3, <3>1, <3>2, NetworkTestAssumption DEF RegistryIsBounded
  <2>5. known' \subseteq made' /\ made' \subseteq Tests /\ due' \subseteq known'
    BY <1>1, <1>3, <2>1
  <2>6. \A u \in Tests : active[u] > 0 => u \in known' \ due'
    BY <2>1, <2>2
  <2>. QED BY <2>4, <2>5, <2>6, RegistryStep DEF Create
<1>. QED BY <1>5, <1>6

\* A record expires only while it is idle, and is removed only when it has expired.
LEMMA ExpiryStep ==
  ASSUME NetIInv, NEW t \in Tests, TimeToLiveEnds(t) \/ FindsExpired(t) PROVE NetIInv'
<1>1. RegistryIsBounded'
  <2>1. IsFiniteSet(known) /\ Cardinality(known) <= MaxRecords
    BY DEF NetIInv, RegistryIsBounded
  <2>2. known' \in SUBSET known
    BY DEF TimeToLiveEnds, FindsExpired
  <2>3. IsFiniteSet(known') /\ Cardinality(known') <= Cardinality(known)
    BY <2>1, <2>2, FS_Subset
  <2>4. Cardinality(known') \in Nat /\ Cardinality(known) \in Nat
    BY <2>1, <2>3, FS_CardinalityType
  <2>. QED BY <2>1, <2>3, <2>4, NetworkTestAssumption DEF RegistryIsBounded
<1>2. due' \subseteq known' /\ known' \subseteq made' /\ made' \subseteq Tests
  BY DEF NetIInv, NetTypeOK, TimeToLiveEnds, FindsExpired
<1>3. \A u \in Tests : active[u] > 0 => u \in known' \ due'
  BY DEF NetIInv, RunningIsKnown, TimeToLiveEnds, FindsExpired, Expires
<1>. QED BY <1>1, <1>2, <1>3, RegistryStep DEF TimeToLiveEnds, FindsExpired

-----------------------------------------------------------------------------
Endings == TransferStatus \ {"not_started", "running"}

\* What finish_record leaves of the status of every direction.
LEMMA FinishedStatus ==
  ASSUME NetTypeOK, NEW t \in Tests, NEW d \in Direction, NEW s \in Endings, FinishRecord(t, d, s)
  PROVE  /\ status' \in [Tests -> [Direction -> TransferStatus]]
         /\ \A u \in Tests, e \in Direction :
              status'[u][e] = IF u = t /\ e = d /\ Running(t, d) THEN s ELSE status[u][e]
<1>1. status \in [Tests -> [Direction -> TransferStatus]] /\ s \in TransferStatus
  BY DEF NetTypeOK, Endings
<1>2. CASE Running(t, d)
  BY <1>1, <1>2 DEF FinishRecord
<1>3. CASE ~Running(t, d)
  BY <1>1, <1>3 DEF FinishRecord, recordVars
<1>. QED BY <1>2, <1>3

\* finish_record keeps the permits right: the last direction that ends gives the permit back.
LEMMA FinishedPermits ==
  ASSUME NetTypeOK, PermitsMatch, NEW t \in Tests, NEW d \in Direction, NEW s \in Endings, FinishRecord(t, d, s)
  PROVE  /\ PermitsMatch' /\ active' \in [Tests -> 0..2] /\ permit' \subseteq Tests /\ free' \in 0..MaxActive
         /\ lastFinished' \in [Tests -> Nat] /\ clock' \in Nat
         /\ \A u \in Tests : active'[u] <= active[u]
<1>. USE DEF NetTypeOK
<1>0. \A u \in Tests : active[u] \in 0..2
  OBVIOUS
<1>1. CASE ~Running(t, d)
  <2>1. UNCHANGED <<status, active, permit, free, lastFinished, clock>>
    BY <1>1 DEF FinishRecord, recordVars
  <2>2. PermitsMatch'
    BY <2>1 DEF PermitsMatch
  <2>3. ASSUME NEW u \in Tests PROVE active'[u] <= active[u]
    <3>1. active[u] \in 0..2 /\ active'[u] = active[u]
      BY <1>0, <2>1
    <3>. HIDE DEF NetTypeOK
    <3>. QED BY <3>1
  <2>. QED BY <2>1, <2>2, <2>3
<1>2. CASE Running(t, d)
  <2>1. s # "running" /\ s # "not_started" /\ d \in {"upload", "download"}
    BY DEF Endings, Direction
  <2>2. status' = [status EXCEPT ![t][d] = s] /\ active' = [active EXCEPT ![t] = @ - 1]
    BY <1>2 DEF FinishRecord
  <2>3. Count(status[t]) = Count(status'[t]) + 1 /\ Count(status'[t]) \in Nat
    <3>1. status[t][d] = "running" /\ status'[t] = [status[t] EXCEPT ![d] = s]
      BY <1>2, <2>2 DEF Running
    <3>2. \A e \in Direction : status'[t][e] = IF e = d THEN s ELSE status[t][e]
      BY <3>1
    <3>3. CASE d = "upload"
      BY <2>1, <3>1, <3>2, <3>3 DEF Count, Direction
    <3>4. CASE d = "download"
      BY <2>1, <3>1, <3>2, <3>4 DEF Count, Direction
    <3>. QED BY <2>1, <3>3, <3>4
  <2>4. \A u \in Tests \ {t} : status'[u] = status[u] /\ active'[u] = active[u]
    BY <2>2
  <2>5. active[t] \in 1..2 /\ active'[t] = active[t] - 1 /\ active[t] = Count(status[t])
    BY <2>2, <2>3 DEF PermitsMatch
  <2>6. \A u \in Tests : active'[u] = Count(status'[u])
    <3>1. \A u \in Tests \ {t} : active'[u] = Count(status'[u])
      BY <2>4 DEF PermitsMatch
    <3>2. active'[t] = Count(status'[t])
      BY <2>3, <2>5
    <3>. QED BY <3>1, <3>2
  <2>7. /\ active' \in [Tests -> 0..2] /\ lastFinished' \in [Tests -> Nat] /\ clock' \in Nat
        /\ \A u \in Tests : active'[u] <= active[u]
    <3>1. active[t] - 1 \in 0..2
      BY <2>5
    <3>2. active' \in [Tests -> 0..2]
      BY <2>2, <3>1
    <3>3. lastFinished' \in [Tests -> Nat] /\ clock' \in Nat
      BY <1>2 DEF FinishRecord
    <3>4. ASSUME NEW u \in Tests PROVE active'[u] <= active[u]
      <4>1. active[u] \in 0..2 /\ (active'[u] = active[u] \/ active'[u] = active[u] - 1)
        BY <1>0, <2>4, <2>5
      <4>. HIDE DEF NetTypeOK
      <4>. QED BY <4>1
    <3>. QED BY <3>2, <3>3, <3>4
  <2>8. t \in permit /\ Cardinality(permit) \in Nat /\ IsFiniteSet(permit)
    BY <2>5, FS_CardinalityType DEF PermitsMatch
  <2>9. CASE active[t] = 1
    <3>1. permit' = permit \ {t} /\ free' = free + 1
      BY <1>2, <2>9 DEF FinishRecord
    <3>2. IsFiniteSet(permit') /\ Cardinality(permit') = Cardinality(permit) - 1
      BY <2>8, <3>1, FS_RemoveElement
    <3>3. Cardinality(permit') \in Nat
      BY <3>2, FS_CardinalityType
    <3>4. free' + Cardinality(permit') = MaxActive
      BY <2>8, <3>1, <3>2 DEF PermitsMatch
    <3>5. \A u \in Tests : u \in permit' <=> active'[u] > 0
      BY <2>4, <2>5, <2>9, <3>1 DEF PermitsMatch
    <3>6. PermitsMatch'
      BY <2>6, <3>2, <3>4, <3>5 DEF PermitsMatch
    <3>7. permit' \subseteq Tests /\ free' \in 0..MaxActive
      BY <3>1, <3>3, <3>4, NetworkTestAssumption
    <3>. QED BY <2>7, <3>6, <3>7
  <2>10. CASE active[t] # 1
    <3>1. permit' = permit /\ free' = free
      BY <1>2, <2>10 DEF FinishRecord
    <3>2. \A u \in Tests : u \in permit' <=> active'[u] > 0
      BY <2>4, <2>5, <2>10, <3>1 DEF PermitsMatch
    <3>3. PermitsMatch'
      BY <2>6, <3>1, <3>2 DEF PermitsMatch
    <3>. QED BY <2>7, <3>1, <3>3
  <2>. QED BY <2>9, <2>10
<1>. QED BY <1>1, <1>2

\* A step of a transfer leaves the registry alone, and finishes a direction or no direction.
LEMMA TransferStep ==
  ASSUME NetIInv, UNCHANGED <<registryVars, request>>,
         NEW t \in Tests, NEW d \in Direction, NEW s \in Endings, FinishRecord(t, d, s) \/ UNCHANGED recordVars,
         bytes' \in [Tests -> [Direction -> 0..MaxBytes]], late' \subseteq Tests \X Direction,
         transfer' \in [Tests -> [Direction -> {"none", "open", "seen", "counted", "over"}]],
         watchdog' \in [Tests -> {"none", "asleep", "awake"}],
         RunningEnds', CompletedIsWhole', NothingBeforeTheStart'
  PROVE  NetIInv'
<1>. USE DEF registryVars
<1>1. NetTypeOK /\ PermitsMatch
  BY DEF NetIInv
<1>2. /\ status' \in [Tests -> [Direction -> TransferStatus]]
      /\ PermitsMatch' /\ active' \in [Tests -> 0..2] /\ permit' \subseteq Tests /\ free' \in 0..MaxActive
      /\ lastFinished' \in [Tests -> Nat] /\ clock' \in Nat
      /\ \A u \in Tests : active'[u] <= active[u]
  <2>1. CASE FinishRecord(t, d, s)
    BY <1>1, <2>1, FinishedStatus, FinishedPermits
  <2>2. CASE UNCHANGED recordVars
    <3>1. UNCHANGED <<status, active, permit, free, lastFinished, clock>>
      BY <2>2 DEF recordVars
    <3>2. PermitsMatch'
      BY <1>1, <3>1 DEF PermitsMatch
    <3>3. ASSUME NEW u \in Tests PROVE active'[u] <= active[u]
      <4>1. active[u] \in 0..2 /\ active'[u] = active[u]
        BY <1>1, <3>1 DEF NetTypeOK
      <4>. QED BY <4>1
    <3>. QED BY <1>1, <3>1, <3>2, <3>3 DEF NetTypeOK
  <2>. QED BY <2>1, <2>2
<1>3. NetTypeOK'
  BY <1>1, <1>2 DEF NetTypeOK
<1>4. RunningIsKnown'
  <2>. SUFFICES ASSUME NEW u \in Tests, active'[u] > 0 PROVE u \in known' \ due'
    BY DEF RunningIsKnown
  <2>1. active[u] > 0
    <3>1. active[u] \in 0..2 /\ active'[u] \in 0..2 /\ active'[u] <= active[u]
      BY <1>1, <1>2 DEF NetTypeOK
    <3>. QED BY <3>1
  <2>. QED BY <2>1 DEF NetIInv, RunningIsKnown
<1>5. RegistryIsBounded'
  BY DEF NetIInv, RegistryIsBounded
<1>. QED BY <1>2, <1>3, <1>4, <1>5 DEF NetIInv

\* The guard of a transfer finishes its direction and is gone; what it has measured so far stays.
LEMMA FinishStep ==
  ASSUME NetIInv, UNCHANGED <<registryVars, bytes, request>>,
         NEW t \in Tests, NEW d \in Direction, NEW s \in Endings, Finish(t, d, s),
         d = "download" /\ s = "completed" /\ Running(t, d) /\ request[t] # Timed => bytes[t][d] = request[t]
  PROVE  NetIInv'
<1>1. NetTypeOK
  BY DEF NetIInv
<1>2. FinishRecord(t, d, s) /\ transfer' = [transfer EXCEPT ![t][d] = "over"] /\ late' = late \ {<<t, d>>}
  BY DEF Finish, Reaches
<1>3. \A u \in Tests, e \in Direction :
         status'[u][e] = IF u = t /\ e = d /\ Running(t, d) THEN s ELSE status[u][e]
  BY <1>1, <1>2, FinishedStatus
<1>4. ~Running(t, d)'
  BY <1>3 DEF Running, Endings
<1>5. \A u \in Tests, e \in Direction : Running(u, e)' => Running(u, e) /\ ~(u = t /\ e = d)
  BY <1>3, <1>4 DEF Running, Endings
<1>6. transfer' \in [Tests -> [Direction -> {"none", "open", "seen", "counted", "over"}]]
  BY <1>1, <1>2 DEF NetTypeOK
<1>7. \A u \in Tests, e \in Direction : ~(u = t /\ e = d) => transfer'[u][e] = transfer[u][e]
  BY <1>1, <1>2 DEF NetTypeOK
<1>8. watchdog' \in [Tests -> {"none", "asleep", "awake"}] /\ \A u \in Tests : u # t \/ d # "download" => watchdog'[u] = watchdog[u]
  BY <1>1 DEF Finish, NetTypeOK
<1>9. RunningEnds'
  BY <1>5, <1>7, <1>8 DEF NetIInv, RunningEnds, Direction
<1>10. CompletedIsWhole'
  BY <1>3 DEF NetIInv, CompletedIsWhole, Running, Direction, Endings
<1>11. NothingBeforeTheStart'
  BY <1>3 DEF NetIInv, NothingBeforeTheStart, Endings
<1>12. late' \subseteq Tests \X Direction /\ bytes' \in [Tests -> [Direction -> 0..MaxBytes]]
  BY <1>1, <1>2 DEF NetTypeOK
<1>. QED BY <1>2, <1>6, <1>8, <1>9, <1>10, <1>11, <1>12, TransferStep

\* A transfer that goes on keeps its type and its guard.
LEMMA TransferMoves ==
  ASSUME NetTypeOK, NEW t \in Tests, NEW d \in Direction, NEW step \in {"open", "seen", "counted"},
         Reaches(t, d, step)
  PROVE  /\ transfer' \in [Tests -> [Direction -> {"none", "open", "seen", "counted", "over"}]]
         /\ \A u \in Tests, e \in Direction :
              transfer'[u][e] = transfer[u][e] \/ transfer'[u][e] \in {"open", "seen", "counted"}
<1>1. transfer \in [Tests -> [Direction -> {"none", "open", "seen", "counted", "over"}]]
  BY DEF NetTypeOK
<1>2. transfer' = [transfer EXCEPT ![t] = [transfer[t] EXCEPT ![d] = step]]
  BY DEF Reaches
<1>3. [transfer[t] EXCEPT ![d] = step] \in [Direction -> {"none", "open", "seen", "counted", "over"}]
  BY <1>1
<1>4. \A u \in Tests, e \in Direction : transfer'[u][e] = IF u = t /\ e = d THEN step ELSE transfer[u][e]
  BY <1>1, <1>2
<1>. QED BY <1>1, <1>2, <1>3, <1>4

\* A direction that counts bytes runs, and goes on to where its guard still is.
LEMMA CountStep ==
  ASSUME NetIInv, UNCHANGED <<registryVars, recordVars, watchdog, late, request>>,
         NEW t \in Tests, NEW d \in Direction, NEW n \in Nat, Counts(t, d, n), AddBytes(t, d, n),
         transfer' = transfer \/ \E step \in {"open", "seen", "counted"} : Reaches(t, d, step),
         d = "download" /\ request[t] # Timed => bytes[t][d] + n <= request[t]
  PROVE  NetIInv'
<1>1. NetTypeOK
  BY DEF NetIInv
<1>2. bytes' = [bytes EXCEPT ![t][d] = bytes[t][d] + n] /\ bytes[t][d] + n \in 0..MaxBytes
      /\ status[t][d] = "running"
  BY <1>1, NetworkTestAssumption DEF Counts, AddBytes, Running, NetTypeOK
<1>3. bytes' \in [Tests -> [Direction -> 0..MaxBytes]]
  BY <1>1, <1>2 DEF NetTypeOK
<1>4. \A u \in Tests, e \in Direction : bytes'[u][e] = IF u = t /\ e = d THEN bytes[t][d] + n ELSE bytes[u][e]
  BY <1>1, <1>2 DEF NetTypeOK
<1>5. transfer' \in [Tests -> [Direction -> {"none", "open", "seen", "counted", "over"}]]
      /\ \A u \in Tests, e \in Direction :
           transfer'[u][e] = transfer[u][e] \/ transfer'[u][e] \in {"open", "seen", "counted"}
  <2>1. CASE transfer' = transfer
    BY <1>1, <2>1 DEF NetTypeOK
  <2>2. CASE transfer' # transfer
    BY <1>1, <2>2, TransferMoves
  <2>. QED BY <2>1, <2>2
<1>6. RunningEnds'
  BY <1>5 DEF NetIInv, RunningEnds, Running, recordVars
<1>7. CompletedIsWhole'
  BY <1>2, <1>4 DEF NetIInv, CompletedIsWhole, recordVars, Direction
<1>8. NothingBeforeTheStart'
  BY <1>2, <1>4 DEF NetIInv, NothingBeforeTheStart, recordVars
<1>9. PICK s \in Endings : s = "failed"
  BY DEF Endings, TransferStatus
<1>. QED BY <1>1, <1>3, <1>5, <1>6, <1>7, <1>8, <1>9, TransferStep DEF NetTypeOK

\* A transfer that only moves on, or whose deadline passes.
LEMMA MoveStep ==
  ASSUME NetIInv, UNCHANGED <<registryVars, recordVars, bytes, request>>,
         late' \subseteq Tests \X Direction,
         transfer' = transfer \/ \E t \in Tests, d \in Direction, step \in {"open", "seen", "counted"} : Reaches(t, d, step),
         watchdog' = watchdog \/ \E t \in Tests : watchdog' = [watchdog EXCEPT ![t] = "awake"]
  PROVE  NetIInv'
<1>1. NetTypeOK
  BY DEF NetIInv
<1>2. transfer' \in [Tests -> [Direction -> {"none", "open", "seen", "counted", "over"}]]
      /\ \A u \in Tests, e \in Direction :
           transfer'[u][e] = transfer[u][e] \/ transfer'[u][e] \in {"open", "seen", "counted"}
  <2>1. CASE transfer' = transfer
    BY <1>1, <2>1 DEF NetTypeOK
  <2>2. CASE transfer' # transfer
    BY <1>1, <2>2, TransferMoves
  <2>. QED BY <2>1, <2>2
<1>3. watchdog' \in [Tests -> {"none", "asleep", "awake"}]
      /\ \A u \in Tests : watchdog'[u] = watchdog[u] \/ watchdog'[u] = "awake"
  BY <1>1 DEF NetTypeOK
<1>4. status' = status
  BY DEF recordVars
<1>5. NetTypeOK'
  BY <1>1, <1>2, <1>3 DEF NetTypeOK, registryVars, recordVars
<1>6. RunningEnds'
  BY <1>2, <1>3, <1>4 DEF NetIInv, RunningEnds, Running
<1>7. CompletedIsWhole' /\ NothingBeforeTheStart' /\ PermitsMatch' /\ RegistryIsBounded' /\ RunningIsKnown'
  BY DEF NetIInv, CompletedIsWhole, NothingBeforeTheStart, PermitsMatch, RegistryIsBounded, RunningIsKnown,
         registryVars, recordVars
<1>. QED BY <1>5, <1>6, <1>7 DEF NetIInv

\* A transfer starts with a permit that nobody else has, or with that of its test.
LEMMA StartedPermits ==
  ASSUME NetIInv, NEW t \in Tests, NEW d \in Direction, StartTransfer(t, d)
  PROVE  /\ PermitsMatch' /\ active' \in [Tests -> 0..2] /\ permit' \subseteq Tests /\ free' \in 0..MaxActive
         /\ \A u \in Tests \ {t} : active'[u] = active[u]
<1>. USE DEF NetTypeOK, NetIInv
<1>1. status' = [status EXCEPT ![t][d] = "running"] /\ active' = [active EXCEPT ![t] = active[t] + 1]
      /\ status[t][d] = "not_started"
  BY DEF StartTransfer
<1>2. Count(status'[t]) = Count(status[t]) + 1 /\ Count(status[t]) \in Nat /\ Count(status'[t]) \in 0..2
  <2>1. \A e \in Direction : status'[t][e] = IF e = d THEN "running" ELSE status[t][e]
    BY <1>1
  <2>2. CASE d = "upload"
    BY <1>1, <2>1, <2>2 DEF Count, Direction
  <2>3. CASE d = "download"
    BY <1>1, <2>1, <2>3 DEF Count, Direction
  <2>. QED BY <2>2, <2>3 DEF Direction
<1>3. \A u \in Tests \ {t} : status'[u] = status[u] /\ active'[u] = active[u]
  BY <1>1
<1>4. active'[t] = active[t] + 1 /\ active[t] = Count(status[t]) /\ active'[t] = Count(status'[t])
      /\ active[t] \in Nat
  BY <1>1, <1>2 DEF PermitsMatch
<1>5. active' \in [Tests -> 0..2]
  BY <1>1, <1>2, <1>4
<1>6. \A u \in Tests : active'[u] = Count(status'[u])
  BY <1>3, <1>4 DEF PermitsMatch
<1>7. IsFiniteSet(permit) /\ Cardinality(permit) \in Nat /\ free + Cardinality(permit) = MaxActive
  BY FS_CardinalityType DEF PermitsMatch
<1>8. CASE active[t] = 0
  <2>1. free > 0 /\ free' = free - 1 /\ permit' = permit \cup {t} /\ t \notin permit
    BY <1>4, <1>8 DEF StartTransfer, PermitsMatch
  <2>2. IsFiniteSet(permit') /\ Cardinality(permit') = Cardinality(permit) + 1
    BY <1>7, <2>1, FS_AddElement
  <2>3. free' + Cardinality(permit') = MaxActive
    BY <1>7, <2>1, <2>2
  <2>4. \A u \in Tests : u \in permit' <=> active'[u] > 0
    BY <1>3, <1>4, <2>1 DEF PermitsMatch
  <2>. QED BY <1>3, <1>5, <1>6, <2>1, <2>2, <2>3, <2>4, NetworkTestAssumption DEF PermitsMatch
<1>9. CASE active[t] # 0
  <2>1. free' = free /\ permit' = permit
    BY <1>9 DEF StartTransfer
  <2>2. \A u \in Tests : u \in permit' <=> active'[u] > 0
    BY <1>3, <1>4, <1>9, <2>1 DEF PermitsMatch
  <2>. QED BY <1>3, <1>5, <1>6, <1>7, <2>1, <2>2 DEF PermitsMatch
<1>. QED BY <1>8, <1>9

LEMMA StartStep ==
  ASSUME NetIInv, NEW t \in Tests,
         StartUpload(t) \/ \E r \in Sizes \cup {Timed} : StartDownload(t, r)
  PROVE  NetIInv'
<1>. USE DEF registryVars
<1>1. NetTypeOK
  BY DEF NetIInv
<1>2. PICK d \in Direction :
        /\ StartTransfer(t, d)
        /\ \/ d = "upload" /\ UNCHANGED <<watchdog, request>>
           \/ /\ d = "download" /\ watchdog' = [watchdog EXCEPT ![t] = "asleep"]
              /\ \E r \in Sizes \cup {Timed} : request' = [request EXCEPT ![t] = r]
  BY DEF StartUpload, StartDownload, Direction
<1>3. /\ PermitsMatch' /\ active' \in [Tests -> 0..2] /\ permit' \subseteq Tests /\ free' \in 0..MaxActive
      /\ \A u \in Tests \ {t} : active'[u] = active[u]
  BY <1>2, StartedPermits
<1>4. /\ t \in known \ due /\ status[t][d] = "not_started"
      /\ status' = [status EXCEPT ![t][d] = "running"] /\ transfer' = [transfer EXCEPT ![t][d] = "open"]
      /\ UNCHANGED <<registryVars, bytes, lastFinished, clock, late>>
  BY <1>2 DEF StartTransfer, Reaches
<1>5. \A u \in Tests, e \in Direction :
        /\ status'[u][e] = IF u = t /\ e = d THEN "running" ELSE status[u][e]
        /\ transfer'[u][e] = IF u = t /\ e = d THEN "open" ELSE transfer[u][e]
  BY <1>1, <1>4 DEF NetTypeOK
<1>6. /\ status' \in [Tests -> [Direction -> TransferStatus]]
      /\ transfer' \in [Tests -> [Direction -> {"none", "open", "seen", "counted", "over"}]]
  BY <1>1, <1>4 DEF NetTypeOK, TransferStatus
<1>7. /\ watchdog' \in [Tests -> {"none", "asleep", "awake"}] /\ request' \in [Tests -> Sizes \cup {Timed}]
      /\ \A u \in Tests : watchdog'[u] = watchdog[u] \/ watchdog'[u] = "asleep"
      /\ d = "download" => watchdog'[t] = "asleep"
      /\ \A u \in Tests : u # t \/ d = "upload" => request'[u] = request[u]
  BY <1>1, <1>2 DEF NetTypeOK
<1>8. NetTypeOK'
  BY <1>1, <1>3, <1>4, <1>6, <1>7 DEF NetTypeOK
<1>9. RunningIsKnown'
  BY <1>3, <1>4 DEF NetIInv, RunningIsKnown
<1>10. RunningEnds'
  BY <1>5, <1>7 DEF NetIInv, RunningEnds, Running, Direction
<1>11. CompletedIsWhole'
  <2>. SUFFICES ASSUME NEW u \in Tests, request'[u] # Timed
                PROVE  /\ bytes'[u]["download"] <= request'[u]
                       /\ status'[u]["download"] = "completed" => bytes'[u]["download"] = request'[u]
    BY DEF CompletedIsWhole
  <2>1. bytes' = bytes /\ "download" \in Direction
    BY <1>4 DEF Direction
  <2>2. CASE u = t /\ d = "download"
    <3>1. bytes[t]["download"] = 0
      BY <1>4, <2>1, <2>2 DEF NetIInv, NothingBeforeTheStart
    <3>2. request'[t] \in Nat
      BY <1>7, <2>2, NetworkTestAssumption
    <3>3. status'[t]["download"] = "running"
      BY <1>5, <2>1, <2>2
    <3>. QED BY <2>1, <2>2, <3>1, <3>2, <3>3
  <2>3. CASE ~(u = t /\ d = "download")
    <3>1. request'[u] = request[u] /\ status'[u]["download"] = status[u]["download"]
      BY <1>2, <1>5, <1>7, <2>1, <2>3
    <3>. QED BY <2>1, <3>1 DEF NetIInv, CompletedIsWhole
  <2>. QED BY <2>2, <2>3
<1>12. NothingBeforeTheStart' /\ RegistryIsBounded'
  BY <1>4, <1>5 DEF NetIInv, NothingBeforeTheStart, RegistryIsBounded
<1>. QED BY <1>3, <1>8, <1>9, <1>10, <1>11, <1>12 DEF NetIInv

-----------------------------------------------------------------------------
LEMMA UploadStep ==
  ASSUME NetIInv, NEW t \in Tests,
         (\E n \in 1..Chunk : UploadChunk(t, n)) \/ (\E s \in Endings : UploadEnds(t, s))
  PROVE  NetIInv'
<1>1. "upload" \in Direction /\ "failed" \in Endings
  BY DEF Direction, Endings, TransferStatus
<1>2. CASE \E n \in 1..Chunk : UploadChunk(t, n)
  <2>1. PICK n \in 1..Chunk : UploadChunk(t, n)
    BY <1>2
  <2>2. CASE Counts(t, "upload", n)
    BY <1>1, <2>1, <2>2, CountStep, NetworkTestAssumption DEF UploadChunk
  <2>3. CASE ~Counts(t, "upload", n)
    BY <1>1, <2>1, <2>3, FinishStep DEF UploadChunk
  <2>. QED BY <2>2, <2>3
<1>3. CASE \E s \in Endings : UploadEnds(t, s)
  BY <1>1, <1>3, FinishStep DEF UploadEnds
<1>. QED BY <1>2, <1>3

\* What a download asks for is never passed: the last chunk is as long as what remains.
LEMMA DownloadStep ==
  ASSUME NetIInv, NEW t \in Tests,
         PollStream(t) \/ PollIsLate(t) \/ PollCounts(t) \/ PollYields(t) \/ DownloadDropped(t)
  PROVE  NetIInv'
<1>1. "download" \in Direction /\ {"failed", "canceled", "completed", "timed_out"} \subseteq Endings
  BY DEF Direction, Endings, TransferStatus
<1>2. NetTypeOK /\ bytes[t]["download"] \in Nat
  BY <1>1, NetworkTestAssumption DEF NetIInv, NetTypeOK
<1>3. late \subseteq Tests \X Direction
  BY <1>2 DEF NetTypeOK
<1>4. CASE PollStream(t)
  <2>1. CASE Running(t, "download")
    BY <1>1, <1>3, <1>4, <2>1, MoveStep DEF PollStream
  <2>2. CASE ~Running(t, "download")
    BY <1>1, <1>4, <2>2, FinishStep DEF PollStream
  <2>. QED BY <2>1, <2>2
<1>5. CASE PollIsLate(t)
  BY <1>1, <1>5, FinishStep DEF PollIsLate, TimeIsUp
<1>6. CASE PollCounts(t)
  <2>. DEFINE n == ChunkSize(t)
  <2>1. n \in Nat /\ (request[t] # Timed => bytes[t]["download"] + n <= request[t])
    <3>1. CASE request[t] = Timed
      BY <3>1, NetworkTestAssumption DEF ChunkSize
    <3>2. CASE request[t] # Timed
      <4>1. request[t] \in Nat /\ bytes[t]["download"] <= request[t]
        BY <1>2, <3>2, NetworkTestAssumption DEF NetTypeOK, NetIInv, CompletedIsWhole
      <4>. QED BY <1>2, <3>2, <4>1, NetworkTestAssumption DEF ChunkSize, Remaining
    <3>. QED BY <3>1, <3>2
  <2>2. CASE Counts(t, "download", n)
    <3>1. AddBytes(t, "download", n) /\ Reaches(t, "download", "counted")
          /\ UNCHANGED <<registryVars, recordVars, watchdog, late, request>>
      BY <1>6, <2>2 DEF PollCounts
    <3>. HIDE DEF n
    <3>. QED BY <1>1, <2>1, <2>2, <3>1, CountStep
  <2>3. CASE ~Counts(t, "download", n)
    BY <1>1, <1>6, <2>3, FinishStep DEF PollCounts
  <2>. QED BY <2>2, <2>3
<1>7. CASE PollYields(t)
  <2>1. CASE request[t] # Timed /\ Remaining(t) = 0
    <3>1. request[t] \in Nat
      BY <1>2, <2>1, NetworkTestAssumption DEF NetTypeOK
    <3>2. bytes[t]["download"] = request[t]
      BY <1>2, <2>1, <3>1 DEF Remaining
    <3>. QED BY <1>1, <1>7, <2>1, <3>2, FinishStep DEF PollYields
  <2>2. CASE ~(request[t] # Timed /\ Remaining(t) = 0)
    BY <1>1, <1>3, <1>7, <2>2, MoveStep DEF PollYields
  <2>. QED BY <2>1, <2>2
<1>8. CASE DownloadDropped(t)
  BY <1>1, <1>8, FinishStep DEF DownloadDropped
<1>. QED BY <1>4, <1>5, <1>6, <1>7, <1>8

\* The watchdog ends the download, if the stream has not, and leaves its guard alone.
LEMMA WatchdogStep ==
  ASSUME NetIInv, NEW t \in Tests, WatchdogFinishes(t) PROVE NetIInv'
<1>1. "download" \in Direction /\ TimeIsUp(t) \in Endings /\ (request[t] # Timed => TimeIsUp(t) # "completed")
  BY DEF Direction, Endings, TransferStatus, TimeIsUp
<1>2. NetTypeOK
  BY DEF NetIInv
<1>3. /\ FinishRecord(t, "download", TimeIsUp(t)) /\ watchdog' = [watchdog EXCEPT ![t] = "none"]
      /\ UNCHANGED <<registryVars, bytes, transfer, late, request>>
  BY DEF WatchdogFinishes
<1>4. \A u \in Tests, e \in Direction :
        status'[u][e] = IF u = t /\ e = "download" /\ Running(t, "download") THEN TimeIsUp(t) ELSE status[u][e]
  BY <1>1, <1>2, <1>3, FinishedStatus
<1>5. RunningEnds'
  BY <1>1, <1>2, <1>3, <1>4 DEF NetIInv, RunningEnds, Running, Endings, NetTypeOK
<1>6. CompletedIsWhole' /\ NothingBeforeTheStart'
  BY <1>1, <1>3, <1>4 DEF NetIInv, CompletedIsWhole, NothingBeforeTheStart, Endings
<1>7. /\ bytes' \in [Tests -> [Direction -> 0..MaxBytes]] /\ late' \subseteq Tests \X Direction
      /\ transfer' \in [Tests -> [Direction -> {"none", "open", "seen", "counted", "over"}]]
      /\ watchdog' \in [Tests -> {"none", "asleep", "awake"}]
  BY <1>2, <1>3 DEF NetTypeOK
<1>. QED BY <1>1, <1>3, <1>5, <1>6, <1>7, TransferStep

\* Every step of a test keeps the invariant.
LEMMA NetNextKeepsNetIInv ==
  ASSUME NetIInv, [NetNext]_testVars PROVE NetIInv'
<1>1. CASE UNCHANGED testVars
  BY <1>1 DEF testVars, registryVars, recordVars, NetIInv, NetTypeOK, PermitsMatch, RegistryIsBounded,
              RunningIsKnown, RunningEnds, CompletedIsWhole, NothingBeforeTheStart, Running
<1>2. CASE Create
  BY <1>2, CreateStep
<1>3. CASE \E t \in Tests : TimeToLiveEnds(t) \/ FindsExpired(t)
  BY <1>3, ExpiryStep
<1>4. CASE \E t \in Tests : StartUpload(t) \/ \E r \in Sizes \cup {Timed} : StartDownload(t, r)
  BY <1>4, StartStep
<1>5. CASE \E t \in Tests, d \in Direction : TransferIsLate(t, d)
  <2>1. late' \subseteq Tests \X Direction
    BY <1>5 DEF TransferIsLate, NetIInv, NetTypeOK
  <2>. QED BY <1>5, <2>1, MoveStep DEF TransferIsLate
<1>6. CASE \E t \in Tests : (\E n \in 1..Chunk : UploadChunk(t, n)) \/ (\E s \in Endings : UploadEnds(t, s))
  BY <1>6, UploadStep
<1>7. CASE \E t \in Tests : PollStream(t) \/ PollIsLate(t) \/ PollCounts(t) \/ PollYields(t) \/ DownloadDropped(t)
  BY <1>7, DownloadStep
<1>8. CASE \E t \in Tests : WatchdogWakes(t)
  <2>1. late' \subseteq Tests \X Direction
    BY <1>8 DEF WatchdogWakes, NetIInv, NetTypeOK
  <2>. QED BY <1>8, <2>1, MoveStep DEF WatchdogWakes
<1>9. CASE \E t \in Tests : WatchdogFinishes(t)
  BY <1>9, WatchdogStep
<1>. QED BY <1>1, <1>2, <1>3, <1>4, <1>5, <1>6, <1>7, <1>8, <1>9 DEF NetNext, Endings

-----------------------------------------------------------------------------
\* For any tests, chunks and limits: permits are neither lost nor given back twice, what runs is known and
\* will end, the registry is bounded, and a download that completed has sent what was asked for.
THEOREM NetworkTestsAreSound == NetSpec => []NetTestInv
<1>1. NetSpec => []NetIInv
  BY NetInitHolds, NetNextKeepsNetIInv, PTL DEF NetSpec
<1>. QED BY <1>1, NetIInvIsStronger, PTL

\* For any tests, chunks and limits: what a direction has measured stays, and a test that transfers is
\* neither evicted nor expired (finish_record, add_bytes and create).
THEOREM ResultsStay == NetSpec => ResultStays
<1>. DEFINE A == \A t \in Tests :
       /\ \A d \in Direction :
            status[t][d] \notin {"not_started", "running"} =>
              status'[t][d] = status[t][d] /\ bytes'[t][d] = bytes[t][d]
       /\ permit' \cap {t} # {} => t \in known'
<1>1. ASSUME NetIInv, NetIInv', [NetNext]_testVars PROVE A
  <2>1. NetTypeOK /\ NetTypeOK'
    BY <1>1 DEF NetIInv
  <2>2. \A t \in Tests : t \in permit' => t \in known'
    BY <1>1, <2>1 DEF NetIInv, PermitsMatch, RunningIsKnown, NetTypeOK
  <2>. SUFFICES ASSUME NEW t \in Tests, NEW d \in Direction, status[t][d] \notin {"not_started", "running"}
                PROVE  status'[t][d] = status[t][d] /\ bytes'[t][d] = bytes[t][d]
    BY <2>2
  <2>3. \A u \in Tests, e \in Direction, s \in Endings : FinishRecord(u, e, s) => status'[t][d] = status[t][d]
    BY <2>1, FinishedStatus DEF Running
  <2>4. \A u \in Tests, e \in Direction, n \in Int :
          Counts(u, e, n) /\ AddBytes(u, e, n) => bytes'[t][d] = bytes[t][d]
    BY <2>1 DEF Counts, AddBytes, Running, NetTypeOK
  <2>5. {"upload", "download"} \subseteq Direction /\ {"failed", "canceled", "completed", "timed_out"} \subseteq Endings
        /\ \A u \in Tests : TimeIsUp(u) \in Endings
    BY DEF Direction, Endings, TransferStatus, TimeIsUp
  <2>6. CASE UNCHANGED <<status, bytes>>
    BY <2>6
  <2>7. CASE \E u \in Tests, e \in Direction : StartTransfer(u, e)
    BY <2>1, <2>7 DEF StartTransfer, NetTypeOK
  <2>8. CASE \E u \in Tests : (\E n \in 1..Chunk : UploadChunk(u, n)) \/ (\E s \in Endings : UploadEnds(u, s))
    BY <2>3, <2>4, <2>5, <2>8 DEF UploadChunk, UploadEnds, Finish, recordVars
  <2>9. CASE \E u \in Tests : PollStream(u) \/ PollIsLate(u) \/ PollYields(u) \/ DownloadDropped(u)
    BY <2>3, <2>5, <2>9 DEF PollStream, PollIsLate, PollYields, DownloadDropped, Finish, recordVars
  <2>10. CASE \E u \in Tests : PollCounts(u)
    <3>1. PICK u \in Tests : PollCounts(u)
      BY <2>10
    <3>2. ChunkSize(u) \in Int
      <4>1. request[u] \in Nat \cup {Timed} /\ bytes[u]["download"] \in Int
        <5>1. request[u] \in Sizes \cup {Timed} /\ bytes[u] \in [Direction -> 0..MaxBytes]
          BY <2>1 DEF NetTypeOK
        <5>2. "download" \in Direction
          BY DEF Direction
        <5>3. bytes[u]["download"] \in 0..MaxBytes
          BY <5>1, <5>2
        <5>4. bytes[u]["download"] \in Int
          BY <5>3
        <5>5. Sizes \subseteq Nat
          BY NetworkTestAssumption
        <5>. QED BY <5>1, <5>4, <5>5
      <4>. QED BY <4>1, NetworkTestAssumption DEF ChunkSize, Remaining
    <3>. QED BY <2>3, <2>4, <2>5, <3>1, <3>2 DEF PollCounts, Finish, recordVars
  <2>11. CASE \E u \in Tests : WatchdogFinishes(u)
    BY <2>3, <2>5, <2>11 DEF WatchdogFinishes
  <2>12. CASE Create \/ \E u \in Tests : TimeToLiveEnds(u) \/ FindsExpired(u)
    BY <2>6, <2>12 DEF Create, TimeToLiveEnds, FindsExpired, recordVars
  <2>13. CASE \E u \in Tests : WatchdogWakes(u) \/ \E e \in Direction : TransferIsLate(u, e)
    BY <2>6, <2>13 DEF WatchdogWakes, TransferIsLate, recordVars
  <2>14. CASE \E u \in Tests : StartUpload(u) \/ \E r \in Sizes \cup {Timed} : StartDownload(u, r)
    BY <2>5, <2>7, <2>14 DEF StartUpload, StartDownload
  <2>15. CASE UNCHANGED testVars
    BY <2>6, <2>15 DEF testVars, recordVars
  <2>. QED BY <1>1, <2>8, <2>9, <2>10, <2>11, <2>12, <2>13, <2>14, <2>15 DEF NetNext, Endings
<1>2. NetSpec => []NetIInv
  BY NetInitHolds, NetNextKeepsNetIInv, PTL DEF NetSpec
<1>. QED BY <1>1, <1>2, PTL DEF NetSpec, ResultStays
=============================================================================
