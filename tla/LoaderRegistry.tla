--------------------------- MODULE LoaderRegistry ---------------------------
(***************************************************************************)
(* The registry of loaders of ostool-server (loader.rs) and the requests   *)
(* that reach it: discovery probes and announcements over UDP, polls and   *)
(* status reports over HTTP (api/router.rs, api/ota.rs, device.rs).  A     *)
(* permanent MAC may be reported by several loaders: a rebooted one under  *)
(* a new registration, or a second machine with the same address.          *)
(*                                                                         *)
(* Offers may be lost, and a poll, a report or an announcement may arrive  *)
(* late: a machine may use every registration it was ever offered.  Times  *)
(* are ages, counted up to one more than the retention; registrations are  *)
(* numbered in the order they were issued.  The admin page shows           *)
(* snapshots(), read again when the topic "loaders" is invalidated.        *)
(***************************************************************************)
EXTENDS Integers, FiniteSets

CONSTANTS
  Loaders,         \* machines whose axloader is running
  Announcing,      \* those with protocol v5 or v6, which announce themselves
  Macs,            \* permanent MAC addresses
  MacOf,           \* the MAC a machine reports
  None,
  MaxOffers,       \* bound: registrations
  OnlineTtl, RegistrationTtl, Retention

Ids == 1..MaxOffers
Ages == 0..(Retention + 1)

VARIABLES
  registrations,  \* LoaderRegistryState::registrations
  devices,        \* LoaderRegistryState::devices
  offers,         \* the number of ids handed out
  holder,         \* the machine an id was offered to
  reconciling,    \* announcing machines whose status is being read
  deadline,       \* how long the deadline task still sleeps, -1 when it is due, or None
  notified,       \* deadline_changed
  invalidated,          \* the topic "loaders" is invalidated
  shown,          \* the last projection of it
  stale,          \* history: the age of the last use of a superseded registration, up to OnlineTtl + 1
  accepted,       \* history: the MAC whose poll or report the last step has accepted
  missed          \* history: the deadline task was woken for something else when it was due

stateVars == <<registrations, devices>>
taskVars == <<deadline, missed, shown>>
vars == <<stateVars, offers, holder, reconciling, taskVars, notified, invalidated, stale, accepted>>

\* seen is the age of the last request, issued of the offer; superseded registrations are
\* "again" once they have been used after another one had replaced them.
Registration == [mac : Macs, issued : Ages, seen : Ages \cup {None}, superseded : {"no", "yes", "again"}]

\* current_registration_id is a registration of a polling loader or the boot of an announcing one.
DeviceRecord == [ip : Loaders, seen : Ages, current : Ids \cup Loaders, conflict : BOOLEAN]

Summary == [online : BOOLEAN, conflict : BOOLEAN]

ASSUME RegistryAssumption ==
  /\ Announcing \subseteq Loaders /\ MacOf \in [Loaders -> Macs] /\ MaxOffers \in Nat
  /\ OnlineTtl \in Nat /\ RegistrationTtl \in Nat /\ Retention \in Nat
  /\ OnlineTtl <= RegistrationTtl /\ RegistrationTtl <= Retention
  /\ None \notin Int \cup Loaders \cup Registration \cup DeviceRecord /\ Loaders \cap Nat = {}

\* Registrations, records and what is shown keep their types.
TypeOK ==
  /\ registrations \in [Ids -> Registration \cup {None}]
  /\ devices \in [Macs -> DeviceRecord \cup {None}]
  /\ offers \in 0..MaxOffers /\ holder \in [Ids -> Loaders \cup {None}]
  /\ reconciling \subseteq Announcing
  /\ deadline \in {None, -1} \cup 0..Retention /\ notified \in BOOLEAN /\ missed \in BOOLEAN
  /\ invalidated \in BOOLEAN /\ shown \in [Macs -> Summary \cup {None}]
  /\ stale \in [Macs -> Ages] /\ accepted \subseteq Macs

Init ==
  /\ registrations = [i \in Ids |-> None] /\ devices = [m \in Macs |-> None]
  /\ offers = 0 /\ holder = [i \in Ids |-> None] /\ reconciling = {}
  /\ deadline = None /\ notified = FALSE /\ missed = FALSE
  /\ invalidated = TRUE /\ shown = [m \in Macs |-> None]
  /\ stale = [m \in Macs |-> OnlineTtl + 1] /\ accepted = {}

-----------------------------------------------------------------------------
Known(rs) == {i \in Ids : rs[i] # None}
Present(ds) == {m \in Macs : ds[m] # None}

\* Mutant: a superseded loader that is heard of again is not a conflict.
Mutant_no_conflict(rs, mac) == FALSE

\* A superseded loader has been heard of again within ONLINE_TTL.
has_live_superseded_report(rs, mac) ==
  \E i \in Known(rs) : rs[i].mac = mac /\ rs[i].superseded = "again" /\ rs[i].seen <= OnlineTtl

\* prune: old registrations and records go, and every conflict is decided anew.
KeepRegistration(r) == IF r.seen = None THEN r.issued <= RegistrationTtl ELSE r.seen <= Retention

Kept ==
  [i \in Ids |-> IF registrations[i] # None /\ KeepRegistration(registrations[i])
                   THEN registrations[i] ELSE None]

\* The conflict between announcing machines lasts while the device is heard of.
V5Conflict(d) == d.conflict /\ d.current \notin Known(Kept) /\ d.seen < OnlineTtl

Pruned ==
  [m \in Macs |->
     IF devices[m] = None \/ devices[m].seen > Retention THEN None
     ELSE [devices[m] EXCEPT !.conflict = V5Conflict(devices[m]) \/ has_live_superseded_report(Kept, m)]]

\* The topic is invalidated and the deadline task looks again.
Notify == invalidated' = TRUE /\ notified' = TRUE

\* offer: a probe registers its loader; the offer may never arrive.
Offer(l) ==
  /\ l \notin Announcing /\ offers < MaxOffers
  /\ offers' = offers + 1
  /\ registrations' = [Kept EXCEPT ![offers + 1] =
       [mac |-> MacOf[l], issued |-> 0, seen |-> None, superseded |-> "no"]]
  /\ devices' = Pruned
  /\ holder' \in {[holder EXCEPT ![offers + 1] = x] : x \in {l, None}}
  /\ accepted' = {}
  /\ UNCHANGED <<reconciling, taskVars, notified, invalidated, stale>>

-----------------------------------------------------------------------------
(***************************************************************************)
(* Polls and status reports of machine l under registration i.             *)
(***************************************************************************)
Rejected == registrations' = Kept /\ devices' = Pruned /\ accepted' = {} /\ UNCHANGED stale

Conflicting(rs, mac) ==
  /\ registrations' = rs
  /\ devices' = [Pruned EXCEPT ![mac] = IF @ = None THEN None ELSE [@ EXCEPT !.conflict = TRUE]]
  /\ accepted' = {}

\* The registration was issued before the one the device has: it counts as superseded from now on.
Outdated(i, mac) ==
  /\ Conflicting([Kept EXCEPT ![i].seen = 0, ![i].superseded = "yes"], mac)
  /\ UNCHANGED stale

\* The registration becomes or stays the current one of the device.
Taken(i, mac, l) ==
  LET rs == [x \in Ids |->
               IF x = i THEN [Kept[x] EXCEPT !.seen = 0]
               ELSE IF Kept[x] # None /\ Pruned[mac] # None /\ Pruned[mac].current = x
                 THEN [Kept[x] EXCEPT !.superseded = "yes"]
               ELSE Kept[x]]
      conflict == has_live_superseded_report(rs, mac)
  IN /\ registrations' = rs
     /\ devices' = [Pruned EXCEPT ![mac] = [ip |-> l, seen |-> 0, current |-> i, conflict |-> conflict]]
     /\ accepted' = IF conflict THEN {} ELSE {mac}
     /\ UNCHANGED stale

\* A registration that another one has replaced is used again: both loaders are refused.
Superseded(i, mac) ==
  /\ Conflicting([Kept EXCEPT ![i].seen = 0, ![i].superseded = "again"], mac)
  /\ stale' = [stale EXCEPT ![mac] = 0]

\* A registration gives way to one that was issued later, and to no other.
MayTake(i, d) == d = None \/ d.current \notin Known(Kept) \/ i >= d.current

\* accept_poll
Poll(l, i) ==
  /\ holder[i] = l
  /\ LET mac == MacOf[l]
     IN \/ Kept[i] = None /\ Rejected
        \/ Kept[i] # None /\ Kept[i].superseded # "no" /\ Superseded(i, mac)
        \/ /\ Kept[i] # None /\ Kept[i].superseded = "no"
           /\ IF MayTake(i, Pruned[mac]) THEN Taken(i, mac, l) ELSE Outdated(i, mac)
  /\ Notify /\ UNCHANGED <<offers, holder, reconciling, taskVars>>

\* The report comes from the registration the device has now, and from no other machine.
IsCurrent(i, d) == d # None /\ ~d.conflict /\ d.current = i

\* accept_status and accept_ota_status
Report(l, i) ==
  /\ holder[i] = l
  /\ LET mac == MacOf[l]
     IN \/ Kept[i] # None /\ Kept[i].superseded # "no" /\ Superseded(i, mac)
        \/ Kept[i] = None /\ Rejected
        \/ Kept[i] # None /\ Kept[i].superseded = "no" /\ ~IsCurrent(i, Pruned[mac]) /\ Rejected
        \/ /\ Kept[i] # None /\ Kept[i].superseded = "no" /\ IsCurrent(i, Pruned[mac])
           /\ registrations' = [Kept EXCEPT ![i].seen = 0]
           /\ devices' = [Pruned EXCEPT ![mac].seen = 0]
           /\ accepted' = {mac}
           /\ UNCHANGED stale
  /\ Notify /\ UNCHANGED <<offers, holder, reconciling, taskVars>>

-----------------------------------------------------------------------------
(***************************************************************************)
(* Announcements.                                                          *)
(***************************************************************************)
\* serve_udp_discovery: touch_announcement, then a reconciliation of the boot unless one runs.
Announce(l) ==
  /\ l \in Announcing
  /\ devices' = [devices EXCEPT ![MacOf[l]] =
       IF @ # None /\ @.current = l /\ @.ip = l THEN [@ EXCEPT !.seen = 0] ELSE @]
  /\ reconciling' = reconciling \cup {l}
  /\ notified' = TRUE /\ accepted' = {}
  /\ UNCHANGED <<registrations, offers, holder, taskVars, invalidated, stale>>

\* The machine does not answer the status request.
FetchFails(l) ==
  /\ l \in reconciling
  /\ reconciling' = reconciling \ {l}
  /\ accepted' = {}
  /\ UNCHANGED <<stateVars, offers, holder, taskVars, notified, invalidated, stale>>

\* Another machine has the MAC, or had it a moment ago.
AnnouncementConflicts(l) ==
  LET d == Pruned[MacOf[l]]
  IN d # None /\ (d.ip # l \/ d.conflict) /\ d.seen < OnlineTtl

\* accept_announcement
Accept(l) ==
  /\ l \in reconciling
  /\ reconciling' = reconciling \ {l}
  /\ registrations' = Kept
  /\ devices' = [Pruned EXCEPT ![MacOf[l]] =
       IF AnnouncementConflicts(l) THEN [@ EXCEPT !.conflict = TRUE]
                                   ELSE [ip |-> l, seen |-> 0, current |-> l, conflict |-> FALSE]]
  /\ accepted' = {}
  /\ Notify /\ UNCHANGED <<offers, holder, taskVars, stale>>

-----------------------------------------------------------------------------
(***************************************************************************)
(* Time, the deadline task and the projection of the topic.                *)
(***************************************************************************)
\* How long it is until a record goes offline or is forgotten, until an offer lapses and
\* until a registration has been silent for ONLINE_TTL.
Deadlines ==
  (UNION {{OnlineTtl - devices[m].seen, Retention - devices[m].seen} : m \in Present(devices)})
    \cup (UNION {LET r == registrations[i]
                 IN {RegistrationTtl - r.issued, OnlineTtl - (IF r.seen = None THEN r.issued ELSE r.seen)}
                 : i \in Known(registrations)})

\* Mutant: only the retention of the records is waited for.
Mutant_retention_only == {Retention - devices[m].seen : m \in Present(devices)} \cap Nat

\* start_deadlines ignores the deadlines that have passed.
Upcoming == Deadlines \cap Nat

NextDeadline == IF Upcoming = {} THEN {None} ELSE {t \in Upcoming : \A u \in Upcoming : t <= u}

\* deadline_changed.notified(): the task looks for the next deadline, also when the one it
\* slept for has just passed.
DeadlineChanged ==
  /\ notified
  /\ notified' = FALSE /\ deadline' \in NextDeadline
  /\ missed' = (missed \/ deadline = -1)
  /\ UNCHANGED <<stateVars, offers, holder, reconciling, shown, invalidated, stale>> /\ accepted' = {}

\* The sleep ends a millisecond after the deadline; then the task looks for the next one.
DeadlinePasses ==
  /\ deadline = -1
  /\ invalidated' = TRUE /\ deadline' \in NextDeadline
  /\ UNCHANGED <<stateVars, offers, holder, reconciling, shown, missed, notified, stale>> /\ accepted' = {}

Snapshot ==
  [m \in Macs |-> IF Pruned[m] = None THEN None
     ELSE [online |-> Pruned[m].seen <= OnlineTtl, conflict |-> Pruned[m].conflict]]

\* The projector of AdminEvents reads snapshots(), which prunes first.
Project ==
  /\ invalidated
  /\ invalidated' = FALSE /\ shown' = Snapshot
  /\ registrations' = Kept /\ devices' = Pruned
  /\ accepted' = {}
  /\ UNCHANGED <<offers, holder, reconciling, deadline, missed, notified, stale>>

Older(age) == IF age = None THEN None ELSE IF age > Retention THEN age ELSE age + 1

\* Time passes; the deadline task does not fall behind by a whole unit of it.
Tick ==
  /\ ~notified /\ deadline # -1
  /\ registrations' = [i \in Ids |-> IF registrations[i] = None THEN None
       ELSE [registrations[i] EXCEPT !.issued = Older(@), !.seen = Older(@)]]
  /\ devices' = [m \in Macs |-> IF devices[m] = None THEN None ELSE [devices[m] EXCEPT !.seen = Older(@)]]
  /\ stale' = [m \in Macs |-> IF stale[m] > OnlineTtl THEN stale[m] ELSE stale[m] + 1]
  /\ deadline' = IF deadline = None THEN None ELSE deadline - 1
  /\ accepted' = {}
  /\ UNCHANGED <<offers, holder, reconciling, shown, missed, notified, invalidated>>

Next ==
  \/ \E l \in Loaders : Offer(l) \/ Announce(l) \/ FetchFails(l) \/ Accept(l)
                         \/ \E i \in Ids : Poll(l, i) \/ Report(l, i)
  \/ DeadlineChanged \/ DeadlinePasses \/ Project \/ Tick

Spec == Init /\ [][Next]_vars

\* The tasks run and time passes; nothing makes a machine speak.
FairSpec ==
  Spec /\ WF_vars(DeadlineChanged) /\ WF_vars(DeadlinePasses) /\ WF_vars(Project) /\ WF_vars(Tick)

-----------------------------------------------------------------------------
\* The current registration of a device is never one that was superseded, and what a record
\* names was offered to a machine with that MAC.
CurrentIsLatest ==
  \A m \in Present(devices) :
    LET c == devices[m].current
    IN IF c \in Ids THEN /\ holder[c] # None /\ MacOf[holder[c]] = m
                         /\ c \in Known(registrations) => registrations[c].superseded = "no"
                    ELSE c \in Announcing /\ MacOf[c] = m

\* No poll or report is accepted while a loader that had been replaced is still heard of: two
\* machines with one MAC are both refused until one of them is silent for ONLINE_TTL.
AcceptedIsAlone == \A m \in accepted : stale[m] > OnlineTtl

\* An id names one offer: nothing is registered under an id that was not handed out, nobody
\* holds it, and the registration is of the MAC of the machine that holds it.
OffersAreOwned ==
  \A i \in Ids :
    /\ i > offers => registrations[i] = None /\ holder[i] = None
    /\ registrations[i] # None /\ holder[i] # None => registrations[i].mac = MacOf[holder[i]]

\* As long as the use of a replaced registration counts, the registry remembers one.
StaleIsKnown ==
  \A m \in Macs : stale[m] <= OnlineTtl =>
    \E i \in Known(registrations) :
      /\ registrations[i].mac = m /\ registrations[i].superseded = "again"
      /\ registrations[i].seen # None /\ registrations[i].seen <= stale[m]

\* Whatever order offers, polls and reports arrive in, a registration is current only while
\* it was not replaced, and is served only while it is alone.
RegistryInv == TypeOK /\ CurrentIsLatest /\ OffersAreOwned /\ StaleIsKnown /\ AcceptedIsAlone

Offline(m) == devices[m] # None /\ devices[m].seen > OnlineTtl

\* A loader that goes silent is shown offline although nobody asks, unless the deadline task
\* was woken by an announcement in the moment the deadline passed.
ExpiryIsShown ==
  \A m \in Macs : Offline(m) ~> (missed \/ ~Offline(m) \/ (shown[m] # None => ~shown[m].online))
=============================================================================
