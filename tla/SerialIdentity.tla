--------------------------- MODULE SerialIdentity ---------------------------
(***************************************************************************)
(* How ostool-server finds the device of a key (a serial number, or a link *)
(* of /dev/serial/by-id or by-path) and opens it.  It reads the USB        *)
(* devices, the links and the ports one after the other, decides, and      *)
(* opens a name; devices are plugged in and out meanwhile and the kernel   *)
(* uses names again.  A console is locked and put into raw mode, and gets  *)
(* its settings back; the relay of a power supply is opened, written and   *)
(* closed.                                                                 *)
(***************************************************************************)
EXTENDS Naturals, FiniteSets

CONSTANTS
  Devices,   \* serial adapters
  Sockets,   \* USB sockets; a by-path link is called like its socket
  Names,     \* /dev/ttyUSB*
  Numbers,   \* serial numbers
  Terminals,  \* who opens a console
  Relays,    \* who switches a relay
  Keys,      \* keys of the configuration: [kind, value]
  Fleets,    \* what the adapters may be: [number, told]
  Wishes,    \* which keys the users may have; a user without a key does nothing
  Absent,    \* no device, name, number or link
  MaxPlugs   \* bound: devices plugged in or out

Users == Terminals \cup Relays

ASSUME SerialIdentityAssumption ==
  /\ IsFiniteSet(Devices) /\ Absent \notin Devices \cup Names \cup Numbers \cup Sockets
  /\ Terminals \cap Relays = {} /\ MaxPlugs \in Nat
  /\ Keys \subseteq [kind : {"number"}, value : Numbers] \cup [kind : {"path"}, value : Sockets]
                    \cup [kind : {"id"}, value : Numbers \cup {Absent}]
  /\ Fleets \subseteq [number : [Devices -> Numbers \cup {Absent}], told : [Devices -> BOOLEAN]]
  /\ Wishes \subseteq [Users -> Keys \cup {Absent}]

VARIABLES
  number,   \* what is burnt into a device, Absent or a serial number: alike devices may have the same
  told,     \* whether the port driver reads the number; the USB list always has it
  place,    \* the socket of a device
  name,     \* its /dev name while it is plugged in
  idLink,   \* by-id has one link for devices that look the same: the device it leads to
  user,     \* of a console or relay: where it is, its key, what it has read, what it has found and opened
  settings, \* of the terminal of a device: "own", "raw", or as a relay has left it
  plugs,
  moved,    \* history: users during whose search something was plugged
  overlap   \* history: a device was opened while another had it open

idVars == <<number, told, place, name, idLink, user, settings, plugs, moved, overlap>>
bus == <<number, told, place, name, idLink, plugs>>

Plugged == {d \in Devices : name[d] # Absent}
Resting(key) == [at |-> "idle", key |-> key, usb |-> {}, paths |-> {}, ids |-> {}, found |-> Absent,
                 device |-> Absent, saved |-> "own"]
PutUser(u, at) == user' = [user EXCEPT ![u].at = at]
Rest(u) == user' = [user EXCEPT ![u] = Resting(user[u].key)]

\* All adapters are of one vendor and product; their by-id link is told by the number.
IdInit ==
  /\ \E fleet \in Fleets : number = fleet.number /\ told = fleet.told
  /\ place = [d \in Devices |-> Absent] /\ name = [d \in Devices |-> Absent]
  /\ idLink = [n \in Numbers \cup {Absent} |-> Absent]
  /\ \E wish \in Wishes : user = [u \in Users |-> Resting(wish[u])]
  /\ settings = [d \in Devices |-> "own"] /\ plugs = 0 /\ moved = {} /\ overlap = FALSE

-----------------------------------------------------------------------------
(***************************************************************************)
(* The bus                                                                 *)
(***************************************************************************)
Disturbed == moved' = {u \in Users : user[u].at # "idle"} \cup moved

PlugIn(d, s, n) ==
  /\ plugs < MaxPlugs /\ plugs' = plugs + 1
  /\ name[d] = Absent /\ \A e \in Plugged : place[e] # s /\ name[e] # n
  /\ place' = [place EXCEPT ![d] = s] /\ name' = [name EXCEPT ![d] = n]
  /\ idLink' = [idLink EXCEPT ![number[d]] = d]
  /\ settings' = [settings EXCEPT ![d] = "own"]
  /\ Disturbed /\ UNCHANGED <<number, told, user, overlap>>

\* The link goes to another device that looks the same.
PlugOut(d) ==
  /\ plugs < MaxPlugs /\ plugs' = plugs + 1
  /\ name[d] # Absent
  /\ place' = [place EXCEPT ![d] = Absent] /\ name' = [name EXCEPT ![d] = Absent]
  /\ LET alike == {e \in Plugged \ {d} : number[e] = number[d]}
     IN idLink' = IF idLink[number[d]] # d THEN idLink
                  ELSE [idLink EXCEPT ![number[d]] = IF alike = {} THEN Absent ELSE CHOOSE e \in alike : TRUE]
  /\ Disturbed /\ UNCHANGED <<number, told, user, settings, overlap>>

-----------------------------------------------------------------------------
(***************************************************************************)
(* discover_serial_ports and resolve_serial_key                            *)
(***************************************************************************)
\* load_usb_devices
WithUsb(u) == [user[u] EXCEPT !.at = "links", !.usb = {d \in Devices : place[d] # Absent}]

ListsUsb(u) ==
  /\ user[u].at = "idle" /\ user[u].key # Absent
  /\ user' = [user EXCEPT ![u] = WithUsb(u)]
  /\ moved' = moved \ {u}
  /\ UNCHANGED <<bus, settings, overlap>>

\* load_usb_path_map, load_usb_id_map: from the name of a port to its link.
PathMap == {<<name[d], place[d]>> : d \in Plugged}
IdMap == {<<name[d], number[d]>> : d \in {e \in Plugged : idLink[number[e]] = e}}
WithLinks(u) == [user[u] EXCEPT !.at = "ports", !.paths = PathMap, !.ids = IdMap]

ReadsLinks(u) ==
  /\ user[u].at = "links"
  /\ user' = [user EXCEPT ![u] = WithLinks(u)]
  /\ UNCHANGED <<bus, settings, moved, overlap>>

\* match_usb_device and what the driver reports: a number that is not told is that of the only device it can be.
NumberOf(u, d) ==
  IF told[d] \/ number[d] = Absent THEN number[d]
  ELSE IF Cardinality(user[u].usb) = 1 THEN number[CHOOSE e \in user[u].usb : TRUE]
  ELSE Absent

\* The names of the ports that a key matches.
Matches(u, key) ==
  CASE key.kind = "number" -> {name[d] : d \in {e \in Plugged : NumberOf(u, e) = key.value}}
    [] key.kind = "path" -> {name[d] : d \in {e \in Plugged : <<name[e], key.value>> \in user[u].paths}}
    [] key.kind = "id" -> {name[d] : d \in {e \in Plugged : <<name[e], key.value>> \in user[u].ids}}

\* The links as they are now; a key that matches no port may be one of them.
Targets(key) ==
  CASE key.kind = "number" -> {}
    [] key.kind = "path" -> {name[d] : d \in {e \in Plugged : place[e] = key.value}}
    [] key.kind = "id" -> {name[d] : d \in {e \in Plugged : idLink[key.value] = e}}

\* Mutant: the first of several ports is taken.
Mutant_TakesFirst(u, n) ==
  \/ n \in Matches(u, user[u].key)
  \/ Matches(u, user[u].key) = {} /\ n \in Targets(user[u].key)

\* resolve_serial_key_from_records: several ports are an error.
Resolves(u, n) ==
  \/ Matches(u, user[u].key) = {n}
  \/ Matches(u, user[u].key) = {} /\ n \in Targets(user[u].key)

WithName(u, n) == [Resting(user[u].key) EXCEPT !.at = "open", !.found = n]

Finds(u) ==
  /\ user[u].at = "ports"
  /\ \E n \in Names : Resolves(u, n) /\ user' = [user EXCEPT ![u] = WithName(u, n)]
  /\ UNCHANGED <<bus, settings, moved, overlap>>

DoesNotFind(u) ==
  /\ user[u].at = "ports"
  /\ \A n \in Names : ~Resolves(u, n)
  /\ Rest(u) /\ UNCHANGED <<bus, settings, moved, overlap>>

-----------------------------------------------------------------------------
(***************************************************************************)
(* NativeBackend::open and the relay                                       *)
(***************************************************************************)
HasOpen(u, d) == user[u].device = d /\ user[u].at \in {"lock", "raw", "held", "write"}

\* A console remembers the settings before it has the lock.
WithDevice(u, d) ==
  [Resting(user[u].key) EXCEPT !.at = IF u \in Terminals THEN "lock" ELSE "write", !.device = d, !.saved = settings[d]]

\* The name is opened, whatever it stands for by now.
Opens(u) ==
  /\ user[u].at = "open"
  /\ \E d \in Plugged :
       /\ name[d] = user[u].found
       /\ user' = [user EXCEPT ![u] = WithDevice(u, d)]
       /\ overlap' = (overlap \/ \E v \in Users \ {u} : HasOpen(v, d))
       /\ settings' = IF u \in Terminals THEN settings ELSE [settings EXCEPT ![d] = "relay"]
  /\ UNCHANGED <<bus, moved>>

NameIsGone(u) ==
  /\ user[u].at = "open" /\ \A d \in Plugged : name[d] # user[u].found
  /\ Rest(u) /\ UNCHANGED <<bus, settings, moved, overlap>>

Holds(u) == user[u].at \in {"raw", "held"}

\* flock, without waiting
Locks(u) ==
  /\ user[u].at = "lock" /\ \A v \in Terminals : ~(Holds(v) /\ user[v].device = user[u].device)
  /\ PutUser(u, "raw")
  /\ UNCHANGED <<bus, settings, moved, overlap>>

DoesNotLock(u) ==
  /\ user[u].at = "lock" /\ \E v \in Terminals : Holds(v) /\ user[v].device = user[u].device
  /\ Rest(u) /\ UNCHANGED <<bus, settings, moved, overlap>>

GoesRaw(u) ==
  /\ user[u].at = "raw"
  /\ settings' = [settings EXCEPT ![user[u].device] = "raw"] /\ PutUser(u, "held")
  /\ UNCHANGED <<bus, moved, overlap>>

\* RestoreSettings::drop, also when the line cannot be configured; the lock goes with the last descriptor.
Restores(u) ==
  /\ Holds(u)
  /\ settings' = [settings EXCEPT ![user[u].device] = user[u].saved] /\ Rest(u)
  /\ UNCHANGED <<bus, moved, overlap>>

\* write_zhongsheng_relay_action, or its timeout
Switches(u) ==
  /\ user[u].at = "write" /\ Rest(u)
  /\ UNCHANGED <<bus, settings, moved, overlap>>

IdNext ==
  \/ \E d \in Devices : PlugOut(d) \/ \E s \in Sockets, n \in Names : PlugIn(d, s, n)
  \/ \E u \in Users :
       \/ ListsUsb(u) \/ ReadsLinks(u) \/ Finds(u) \/ DoesNotFind(u) \/ Opens(u) \/ NameIsGone(u)
       \/ Locks(u) \/ DoesNotLock(u) \/ GoesRaw(u) \/ Restores(u) \/ Switches(u)

IdSpec == IdInit /\ [][IdNext]_idVars

-----------------------------------------------------------------------------
UserStates ==
  [at : {"idle", "links", "ports", "open", "lock", "raw", "held", "write"}, key : Keys \cup {Absent},
   usb : SUBSET Devices, paths : SUBSET (Names \X Sockets), ids : SUBSET (Names \X (Numbers \cup {Absent})),
   found : Names \cup {Absent}, device : Devices \cup {Absent}, saved : {"own", "raw", "relay"}]

IdTypeOK ==
  /\ number \in [Devices -> Numbers \cup {Absent}] /\ told \in [Devices -> BOOLEAN]
  /\ place \in [Devices -> Sockets \cup {Absent}] /\ name \in [Devices -> Names \cup {Absent}]
  /\ idLink \in [Numbers \cup {Absent} -> Devices \cup {Absent}]
  /\ user \in [Users -> UserStates] /\ settings \in [Devices -> {"own", "raw", "relay"}]
  /\ plugs \in 0..MaxPlugs /\ moved \subseteq Users /\ overlap \in BOOLEAN

\* The device a key names.
Named(key, d) ==
  /\ name[d] # Absent
  /\ CASE key.kind = "number" -> number[d] = key.value
       [] key.kind = "path" -> place[d] = key.value
       [] key.kind = "id" -> idLink[key.value] = d

\* Unless something is plugged during the search, the device that is opened is one its key names.
OpensTheRightDevice ==
  \A u \in Users \ moved : \A d \in Devices : HasOpen(u, d) => Named(user[u].key, d)

\* A key that names two devices, and can be seen to, opens neither.
RefusesAmbiguity ==
  \A u \in Users \ moved : \A d, e \in Devices :
    HasOpen(u, d) /\ Named(user[u].key, d) /\ Named(user[u].key, e) /\ told[d] /\ told[e] => d = e

\* One console at a time has a device.
OneConsole ==
  \A u, v \in Terminals : Holds(u) /\ Holds(v) /\ user[u].device = user[v].device => u = v

\* A device that no console holds has its own settings, unless two had it open at one time.
SettingsAreRestored ==
  ~overlap => \A d \in Plugged : settings[d] = "raw" => \E u \in Terminals : HasOpen(u, d)

\* serial/discovery.rs, native.rs: a key opens its device, alone, and leaves it as it was.
IdentityInv == IdTypeOK /\ OpensTheRightDevice /\ RefusesAmbiguity /\ OneConsole /\ SettingsAreRestored
=============================================================================
