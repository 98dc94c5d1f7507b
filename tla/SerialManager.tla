--------------------------- MODULE SerialManager ---------------------------
(***************************************************************************)
(* The serial discovery actor of ostool-serial (manager.rs) and the lease  *)
(* and reservation objects it hands out (lib.rs).                          *)
(*                                                                         *)
(* The actor handles one command or one event and then reconciles; the     *)
(* scan workers it spawns open ports, read identity frames and send their  *)
(* stream or its closing back as an event. A command whose sender waits    *)
(* for the answer is handled where it is sent. Lease tokens and candidate  *)
(* generations come from one counter and are only compared for one port,   *)
(* so each port counts its own. Timers are free: a deadline may pass at    *)
(* any reconcile. Error texts and line-setting rotation are left out.      *)
(*                                                                         *)
(* An operator named Mutant_... is the definition after it with a          *)
(* plausible bug; nothing uses it but the test that a property notices.    *)
(***************************************************************************)
EXTENDS Naturals, FiniteSets

CONSTANTS
  Ports,        \* port names; a selector is the port it matches
  Requests,     \* BindRequests, each sent at most once
  Wired,        \* Wired[p]: the serial ids of the device on port p, over its boots
  Manual,       \* owner name of a PortReservation
  Free,         \* owner of a port that is not leased
  NoPort,       \* no remembered location
  MaxManual     \* bound: Reserve and Exclude commands

Owners == {r.owner : r \in Requests}
Macs == {r.mac : r \in Requests}
SerialIds == {r.serial_id : r \in Requests}

ASSUME RequestsAssumption ==
  \A r \in Requests : r.generation \in Nat
ASSUME NamesAssumption ==
  /\ Manual \notin Owners /\ Free \notin Owners \cup {Manual}
  /\ NoPort \notin Ports
  /\ MaxManual \in Nat

VARIABLES
  actor,         \* "select", or "reconcile" after a command, an event or a tick
  sent,          \* requests whose Bind command has been handled
  pending,       \* Discovery.pending
  scanning,      \* those of them that scan every port
  over,          \* those past their deadline, or whose bind() future was dropped
  expected,      \* the watch channel the scan workers read
  candidates,    \* keys of Discovery.candidates
  generation,    \* Candidate.generation
  closing,       \* Candidate.closing, and the stop channel
  leased,        \* Discovery.leased: token and owner of a port
  locations,     \* Discovery.locations
  exclusions,    \* Discovery.exclusions
  excluding,     \* excluded_replies is not empty
  reservations,  \* Discovery.reservations
  waiters,       \* release_waiters
  failed,        \* Discovery.failed
  ports,         \* the last inventory
  enumerating,   \* an inventory is under way
  sequence,      \* Discovery.sequence
  tasks,         \* scan and close workers: port, generation, state, identity read
  leases,        \* SerialLease and PortReservation objects
  released,      \* history: owners whose last wait_owner_released was answered
  manuals        \* consumed budget

requestVars == <<sent, pending, scanning, over, expected>>
portVars == <<candidates, generation, closing, failed, ports, enumerating>>
leaseVars == <<leased, locations, sequence>>
claimVars == <<exclusions, excluding, reservations, manuals>>
waitVars == <<waiters, released>>
vars == <<actor, requestVars, portVars, leaseVars, claimVars, waitVars, tasks, leases>>

NoId == "none"
TaskState == {"opening", "reading", "found", "closing"}
Task == [port : Ports, generation : Nat, state : TaskState, id : SerialIds \cup {NoId}]
Lease == [port : Ports, token : Nat, owner : Owners \cup {Manual}, mac : Macs \cup {NoId}, state : {"held", "closing"}]
NotLeased == [token |-> 0, owner |-> Free]

TypeOK ==
  /\ actor \in {"select", "reconcile"}
  /\ sent \in SUBSET Requests
  /\ pending \in SUBSET sent
  /\ scanning \in SUBSET pending
  /\ over \in SUBSET Requests
  /\ expected \in SUBSET Requests
  /\ candidates \in SUBSET Ports
  /\ generation \in [Ports -> Nat]
  /\ closing \in SUBSET candidates
  /\ leased \in [Ports -> [token : Nat, owner : Owners \cup {Manual, Free}]]
  /\ locations \in [Macs -> Ports \cup {NoPort}]
  /\ exclusions \in SUBSET Ports
  /\ excluding \in BOOLEAN
  /\ reservations \in SUBSET Ports
  /\ waiters \in SUBSET Owners
  /\ failed \in SUBSET Ports
  /\ ports \in SUBSET Ports
  /\ enumerating \in BOOLEAN
  /\ sequence \in [Ports -> Nat]
  /\ tasks \in SUBSET Task
  /\ leases \in SUBSET Lease
  /\ released \in SUBSET Owners
  /\ manuals \in Nat

Init ==
  /\ actor = "select"
  /\ sent = {} /\ pending = {} /\ scanning = {} /\ over = {} /\ expected = {}
  /\ candidates = {} /\ generation = [p \in Ports |-> 0] /\ closing = {}
  /\ leased = [p \in Ports |-> NotLeased]
  /\ locations = [m \in Macs |-> NoPort]
  /\ exclusions = {} /\ excluding = FALSE /\ reservations = {}
  /\ waiters = {} /\ failed = {}
  /\ ports = {} /\ enumerating = FALSE
  /\ sequence = [p \in Ports |-> 0]
  /\ tasks = {} /\ leases = {}
  /\ released = {} /\ manuals = 0

\* One turn of the actor's loop: a command, an event or a tick, then reconcile.
Turn == actor = "select" /\ actor' = "reconcile"

is_leased(p) == leased[p].owner # Free

(***************************************************************************)
(* Commands.                                                               *)
(***************************************************************************)
\* A later boot of the same owner and device cancels the requests of the earlier ones.
superseded(r) == {q \in pending : q.owner = r.owner /\ q.mac = r.mac /\ q.generation < r.generation}

\* Command::Bind. A second request for a device or an identity is refused as Busy. An owner
\* (the serial runtime of a session) never counts its generation down.
Bind(r) ==
  LET kept == pending \ superseded(r)
      busy == \E q \in kept : q.mac = r.mac \/ q.serial_id = r.serial_id
  IN
  /\ Turn
  /\ r \notin sent /\ \A q \in sent : q.owner = r.owner => q.generation <= r.generation
  /\ sent' = sent \cup {r}
  /\ pending' = IF busy THEN kept ELSE kept \cup {r}
  /\ scanning' = (scanning \cap kept)
                   \cup IF ~busy /\ locations[r.mac] = NoPort THEN {r} ELSE {}
  /\ failed' = IF ~busy /\ \A q \in kept : q.parameters # r.parameters THEN {} ELSE failed
  /\ over' = over \cap kept
  /\ released' = released \ {r.owner}
  /\ UNCHANGED <<expected, candidates, generation, closing, ports, enumerating,
                 leaseVars, claimVars, waiters, tasks, leases>>

\* Command::Exclude: refused when a new selector matches a leased port.
exclude_busy(S) == \E p \in S \ exclusions : is_leased(p)

Exclude(S) ==
  /\ Turn
  /\ manuals < MaxManual
  /\ manuals' = manuals + 1
  /\ exclusions' = IF exclude_busy(S) THEN exclusions ELSE S
  /\ excluding' = (excluding \/ ~exclude_busy(S))
  /\ UNCHANGED <<requestVars, portVars, leaseVars, reservations, waitVars, tasks, leases>>

\* Command::Reserve: refused when the port is leased or another reservation waits for it.
reserve_busy(p) == is_leased(p) \/ p \in reservations

Reserve(p) ==
  /\ Turn
  /\ manuals < MaxManual
  /\ manuals' = manuals + 1
  /\ reservations' = IF reserve_busy(p) THEN reservations ELSE reservations \cup {p}
  /\ UNCHANGED <<requestVars, portVars, leaseVars, exclusions, excluding, waitVars, tasks, leases>>

\* The future of reserve() is dropped; reconcile forgets the reservation.
ReserveCancelled(p) ==
  /\ Turn
  /\ p \in reservations
  /\ reservations' = reservations \ {p}
  /\ UNCHANGED <<requestVars, portVars, leaseVars, exclusions, excluding, manuals, waitVars, tasks, leases>>

\* Command::WaitOwner.
WaitOwner(o) ==
  /\ Turn
  /\ waiters' = waiters \cup {o}
  /\ UNCHANGED <<requestVars, portVars, leaseVars, claimVars, released, tasks, leases>>

\* The waiter's timeout passes and its future is dropped.
WaitCancelled(o) ==
  /\ Turn
  /\ o \in waiters
  /\ waiters' = waiters \ {o}
  /\ UNCHANGED <<requestVars, portVars, leaseVars, claimVars, released, tasks, leases>>

\* The deadline of a request passes, or its bind() future is dropped.
RequestOver(r) ==
  /\ r \in pending \ over
  /\ over' = over \cup {r}
  /\ UNCHANGED <<actor, sent, pending, scanning, expected, portVars, leaseVars, claimVars, waitVars, tasks, leases>>

(***************************************************************************)
(* Leases.                                                                 *)
(***************************************************************************)
has_token(l) == leased[l.port].token = l.token

\* SerialLease::confirm and Command::Confirm: the device has acknowledged the binding. The
\* command may be handled after the lease is dropped, but before the Release queued behind it.
Confirm(l) ==
  /\ Turn
  /\ l \in leases /\ l.owner # Manual
  /\ locations' = IF has_token(l)
                    THEN [locations EXCEPT ![l.mac] = l.port] ELSE locations
  /\ UNCHANGED <<requestVars, portVars, leased, sequence, claimVars, waitVars, tasks, leases>>

\* Command::Invalidate: a failed read, write or verification.
Invalidate(m) ==
  /\ Turn
  /\ locations' = [locations EXCEPT ![m] = NoPort]
  /\ UNCHANGED <<requestVars, portVars, leased, sequence, claimVars, waitVars, tasks, leases>>

\* Drop of a SerialLease starts closing its stream; a PortReservation is dropped after its IO.
LeaseDropped(l) ==
  /\ l \in leases /\ l.state = "held"
  /\ leases' = (leases \ {l}) \cup {[l EXCEPT !.state = "closing"]}
  /\ UNCHANGED <<actor, requestVars, portVars, leaseVars, claimVars, waitVars, tasks>>

\* The stream is closed; Command::Release with the token of the lease.
Release(l) ==
  /\ Turn
  /\ l \in leases /\ l.state = "closing"
  /\ leases' = leases \ {l}
  /\ leased' = IF has_token(l)
                 THEN [leased EXCEPT ![l.port] = NotLeased] ELSE leased
  /\ UNCHANGED <<requestVars, portVars, locations, sequence, claimVars, waitVars, tasks>>

(***************************************************************************)
(* scan: one worker for each candidate.                                    *)
(***************************************************************************)
Move(t, to) == (tasks \ {t}) \cup {[t EXCEPT !.state = to]}

\* An open that is under way is never aborted, whatever the stop channel says.
ScanOpens(t) ==
  /\ t \in tasks /\ t.state = "opening"
  /\ tasks' = Move(t, "reading")
  /\ UNCHANGED <<actor, requestVars, portVars, leaseVars, claimVars, waitVars, leases>>

\* No parameters open the port, or the worker is stopped first: it reports Closed.
ScanOpenFails(t) ==
  /\ t \in tasks /\ t.state = "opening"
  /\ tasks' = Move(t, "closing")
  /\ UNCHANGED <<actor, requestVars, portVars, leaseVars, claimVars, waitVars, leases>>

\* An identity frame that some request expects: the stream travels in the Found event.
ScanFinds(t, id) ==
  /\ t \in tasks /\ t.state = "reading"
  /\ id \in Wired[t.port] /\ \E r \in expected : r.serial_id = id
  /\ tasks' = (tasks \ {t}) \cup {[t EXCEPT !.state = "found", !.id = id]}
  /\ UNCHANGED <<actor, requestVars, portVars, leaseVars, claimVars, waitVars, leases>>

\* The stop channel, an empty expectation or a read error ends the worker: it drops the stream.
ScanStops(t) ==
  /\ t \in tasks /\ t.state = "reading"
  /\ tasks' = Move(t, "closing")
  /\ UNCHANGED <<actor, requestVars, portVars, leaseVars, claimVars, waitVars, leases>>

(***************************************************************************)
(* Events.                                                                 *)
(***************************************************************************)
Mutant_open_candidate(t) == t.port \in candidates \ closing /\ generation[t.port] = t.generation
is_candidate(t) == t.port \in candidates /\ generation[t.port] = t.generation

\* Event::Closed: a candidate that closed on its own is not tried again.
Closed(t) ==
  /\ Turn
  /\ t \in tasks /\ t.state = "closing"
  /\ tasks' = tasks \ {t}
  /\ candidates' = IF is_candidate(t) THEN candidates \ {t.port} ELSE candidates
  /\ closing' = IF is_candidate(t) THEN closing \ {t.port} ELSE closing
  /\ failed' = IF is_candidate(t) /\ t.port \notin closing THEN failed \cup {t.port} ELSE failed
  /\ UNCHANGED <<requestVars, generation, ports, enumerating, leaseVars, claimVars, waitVars, leases>>

Mutant_current_closing(t) == is_candidate(t)
is_current(t) == is_candidate(t) /\ t.port \notin closing

is_waiting(r, id) == r \in pending \ over /\ r.serial_id = id

\* Event::Found of a current candidate for a request that still waits: the stream moves into
\* a lease, and the port is leased under a new token.
FoundLease(t, r) ==
  LET token == sequence[t.port] + 1
  IN
  /\ Turn
  /\ t \in tasks /\ t.state = "found" /\ is_current(t)
  /\ is_waiting(r, t.id)
  /\ tasks' = tasks \ {t}
  /\ candidates' = candidates \ {t.port}
  /\ pending' = pending \ {r}
  /\ scanning' = scanning \ {r}
  /\ sequence' = [sequence EXCEPT ![t.port] = token]
  /\ leased' = [leased EXCEPT ![t.port] = [token |-> token, owner |-> r.owner]]
  /\ leases' = leases \cup {[port |-> t.port, token |-> token, owner |-> r.owner, mac |-> r.mac, state |-> "held"]}
  /\ UNCHANGED <<sent, over, expected, generation, closing, failed, ports, enumerating, locations, claimVars, waitVars>>

\* Event::Found that comes too late: the candidate is closing, the request is gone or past
\* its deadline. The name stays a closing candidate until the stream is closed.
stale_candidates(t) == candidates \cup {t.port}

FoundStale(t) ==
  /\ Turn
  /\ t \in tasks /\ t.state = "found"
  /\ ~is_current(t) \/ \A r \in pending : ~is_waiting(r, t.id)
  /\ tasks' = Move(t, "closing")
  /\ candidates' = stale_candidates(t)
  /\ generation' = [generation EXCEPT ![t.port] = t.generation]
  /\ closing' = closing \cup {t.port}
  /\ UNCHANGED <<requestVars, failed, ports, enumerating, leaseVars, claimVars, waitVars, leases>>

\* Event::Inventory; an error leaves the ports as they were.
Inventory(P) ==
  /\ Turn
  /\ enumerating
  /\ enumerating' = FALSE
  /\ ports' = P
  /\ UNCHANGED <<requestVars, candidates, generation, closing, failed,
                 leaseVars, claimVars, waitVars, tasks, leases>>

\* The 25 ms tick.
Tick ==
  /\ Turn
  /\ UNCHANGED <<requestVars, portVars, leaseVars, claimVars, waitVars, tasks, leases>>

(***************************************************************************)
(* reconcile. C: requests whose future was dropped; L: requests whose      *)
(* deadline or scan window has passed; T: requests whose remembered port   *)
(* stayed silent for a second; start: the enumeration interval has passed. *)
(***************************************************************************)
\* A port that nothing else claims may be scanned.
may_open(p, excl, resv) == p \notin candidates \cup failed \cup excl \cup resv /\ ~is_leased(p)

\* A waiter is answered when its owner has no lease and no request, and no candidate is
\* left over from the last request.
owner_released(o, P) ==
  /\ \A p \in Ports : leased[p].owner # o
  /\ \A r \in P : r.owner # o
  /\ P = {} => candidates = {}

\* A reservation waits until the candidate of its port is gone.
may_grant(p) == p \in reservations \ candidates

\* A worker is stopped when no request waits, or its port is excluded or reserved.
must_close(p, P) == P = {} \/ p \in exclusions \cup reservations

Reconcile(C, T, L, start) ==
  LET P == pending \ (C \cup L)
      S == (scanning \cup T) \cap P
      where == [m \in Macs |-> IF \E r \in T \cup L : r.mac = m THEN NoPort ELSE locations[m]]
      granted == {p \in Ports : may_grant(p)}
      waiting == reservations \ granted
      cached(p) == \E r \in P : where[r.mac] = p
      opened == {p \in ports : /\ P # {}
                               /\ may_open(p, exclusions, reservations)
                               /\ S # {} \/ cached(p)}
      answered == {o \in waiters : owner_released(o, P)}
  IN
  /\ actor = "reconcile" /\ actor' = "select"
  /\ pending' = P /\ scanning' = S /\ over' = {} /\ expected' = P
  /\ locations' = where
  /\ closing' = closing \cup {p \in candidates : must_close(p, P)}
  /\ excluding' = (excluding /\ candidates \cap exclusions # {})
  /\ reservations' = waiting
  /\ sequence' = [p \in Ports |-> IF p \in granted \cup opened THEN sequence[p] + 1 ELSE sequence[p]]
  /\ leased' = [p \in Ports |-> IF p \in granted THEN [token |-> sequence[p] + 1, owner |-> Manual] ELSE leased[p]]
  /\ leases' = leases \cup {[port |-> p, token |-> sequence[p] + 1, owner |-> Manual, mac |-> NoId, state |-> "held"] : p \in granted}
  /\ waiters' = waiters \ answered
  /\ released' = released \cup answered
  /\ candidates' = candidates \cup opened
  /\ generation' = [p \in Ports |-> IF p \in opened THEN sequence[p] + 1 ELSE generation[p]]
  /\ tasks' = tasks \cup {[port |-> p, generation |-> sequence[p] + 1, state |-> "opening", id |-> NoId] : p \in opened}
  /\ enumerating' = (enumerating \/ (P # {} /\ start))
  /\ UNCHANGED <<sent, exclusions, failed, ports, manuals>>

ReconcileStep ==
  \E C \in SUBSET over :
    \E L \in {L \in SUBSET (pending \ C) : over \subseteq C \cup L} :
      \E T \in SUBSET (pending \ (scanning \cup C \cup L)) :
        \E start \in BOOLEAN : Reconcile(C, T, L, start)

CommandStep ==
  \/ \E r \in Requests : Bind(r) \/ RequestOver(r)
  \/ \E S \in SUBSET Ports : Exclude(S)
  \/ \E p \in Ports : Reserve(p) \/ ReserveCancelled(p)
  \/ \E o \in Owners : WaitOwner(o) \/ WaitCancelled(o)
  \/ \E l \in leases : Confirm(l) \/ Release(l)
  \/ \E m \in Macs : Invalidate(m)

ScanStep(t) ==
  \/ ScanOpens(t) \/ ScanOpenFails(t) \/ ScanStops(t)
  \/ \E id \in SerialIds : ScanFinds(t, id)

EventStep(t) == Closed(t) \/ FoundStale(t) \/ \E r \in Requests : FoundLease(t, r)

Next ==
  \/ CommandStep
  \/ \E t \in tasks : ScanStep(t) \/ EventStep(t)
  \/ \E l \in leases : LeaseDropped(l)
  \/ \E P \in SUBSET Ports : Inventory(P)
  \/ Tick
  \/ ReconcileStep

Spec == Init /\ [][Next]_vars

(***************************************************************************)
(* Fairness. The actor's task keeps running and its select is fair between *)
(* commands, events and ticks; a worker's open ends, and a stopped worker  *)
(* closes its stream; a request has a deadline. Owners owe nothing: a      *)
(* lease is held as long as its session likes.                             *)
(***************************************************************************)
Fairness ==
  /\ WF_vars(ReconcileStep)
  /\ WF_vars(Tick)
  /\ \A p \in Ports :
       /\ WF_vars(\E t \in tasks : t.port = p /\ (ScanOpens(t) \/ ScanOpenFails(t)))
       /\ WF_vars(\E t \in tasks : t.port = p /\ p \in closing /\ ScanStops(t))
       /\ SF_vars(\E t \in tasks : t.port = p /\ EventStep(t))
       /\ SF_vars(\E l \in leases : l.port = p /\ Release(l))
  /\ \A r \in Requests : SF_vars(ReconcileStep /\ r \in pending /\ r \notin pending')

LiveSpec == Spec /\ Fairness

-----------------------------------------------------------------------------
(***************************************************************************)
(* Safety.                                                                 *)
(***************************************************************************)
\* A port is opened by one worker, one closing stream, one lease or one reservation, never by
\* two of them: whatever order Found, Closed, Reserve, Exclude and Release arrive in.
OneReaderPerPort ==
  /\ \A t, u \in tasks : t.port = u.port => t = u
  /\ \A l, k \in leases : l.port = k.port => l = k
  /\ \A t \in tasks, l \in leases : t.port # l.port

\* Discovery.leased and the lease objects agree: no stale Release frees a port under a newer
\* lease, and no port stays leased after its lease object is gone.
LeasesAreRegistered ==
  /\ \A l \in leases : leased[l.port] = [token |-> l.token, owner |-> l.owner]
  /\ \A p \in Ports : is_leased(p) => \E l \in leases : l.port = p

\* A relay port named in exclusions is never leased to a session, and once Exclude is answered
\* no worker has it open.
ExcludedPortIsLeftAlone ==
  \A p \in exclusions :
    /\ leased[p].owner \in {Manual, Free}
    /\ actor = "select" /\ ~excluding => \A t \in tasks : t.port # p

\* wait_owner_released returns only when the owner's streams are really closed, and they stay
\* closed until the owner binds again.
ReleasedOwnerHoldsNothing ==
  \A o \in released :
    /\ \A l \in leases : l.owner # o
    /\ \A r \in pending : r.owner # o

\* A superseded boot never completes: a waiting request is the latest its owner sent for the device.
PendingIsLatest ==
  \A r \in pending, q \in sent : q.owner = r.owner /\ q.mac = r.mac => q.generation <= r.generation

\* A lease is on the port that showed the identity its request asked for.
LeaseMatchesDevice ==
  \A l \in leases : l.owner # Manual =>
    \E r \in sent : r.owner = l.owner /\ r.mac = l.mac /\ r.serial_id \in Wired[l.port]

-----------------------------------------------------------------------------
(***************************************************************************)
(* The inductive invariant.                                                *)
(***************************************************************************)
\* Every worker and every closing stream keeps its port name in candidates.
TasksAreCandidates == \A t \in tasks : is_candidate(t)

\* A port has one claim: a candidate or waiting reservation is not leased.
ClaimsAreDisjoint == \A p \in candidates \cup reservations : ~is_leased(p)

\* Reconcile leaves no reserved or excluded candidate that a Found event could still lease.
ClaimedCandidatesClose ==
  /\ actor = "select" => candidates \cap (reservations \cup exclusions) \subseteq closing
  /\ ~excluding => candidates \cap exclusions = {}

FoundIsWired == \A t \in tasks : t.state = "found" => t.id \in Wired[t.port]

\* The claims of scans, leases, reservations and exclusions on a port agree between any two
\* turns of the actor: the reason why the properties above hold.
ManagerInv ==
  /\ TypeOK
  /\ TasksAreCandidates
  /\ ClaimsAreDisjoint
  /\ ClaimedCandidatesClose
  /\ FoundIsWired
  /\ OneReaderPerPort
  /\ LeasesAreRegistered
  /\ ExcludedPortIsLeftAlone
  /\ ReleasedOwnerHoldsNothing
  /\ PendingIsLatest
  /\ LeaseMatchesDevice

-----------------------------------------------------------------------------
(***************************************************************************)
(* Liveness.                                                               *)
(***************************************************************************)
\* A reservation is granted, refused or given up: it never waits for ever behind a scan.
ReservationIsServed ==
  \A p \in Ports : p \in reservations ~> p \notin reservations

\* wait_owner_released returns once the owner has let go of its leases.
WaiterIsAnswered ==
  \A o \in Owners : o \in waiters ~> (o \notin waiters \/ \E l \in leases : l.owner = o /\ l.state = "held")

\* When the last request is gone every candidate port is closed.
IdleManagerClosesPorts ==
  pending = {} ~> (candidates = {} \/ pending # {})

\* Whoever waits for a port or its release is answered, and no port is kept for nobody.
ManagerServes == ReservationIsServed /\ WaiterIsAnswered /\ IdleManagerClosesPorts
=============================================================================
