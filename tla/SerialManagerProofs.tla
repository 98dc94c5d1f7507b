------------------------ MODULE SerialManagerProofs ------------------------
(***************************************************************************)
(* Proofs about SerialManager for any ports, devices, sessions and number  *)
(* of reservations and exclusions, and about SerialIdentity for any        *)
(* adapters, keys, users and number of plugs.                              *)
(***************************************************************************)
EXTENDS SerialManager, SerialIdentity, FiniteSetTheorems, TLAPS

USE RequestsAssumption, NamesAssumption

\* What start() builds satisfies the invariant.
LEMMA InitManagerInv == Init => ManagerInv
  <1> SUFFICES ASSUME Init PROVE ManagerInv
    OBVIOUS
  <1> USE DEF Init, NotLeased, is_leased
  <1>1. TypeOK
    BY DEF TypeOK, Macs
  <1>2. TasksAreCandidates /\ ClaimsAreDisjoint /\ ClaimedCandidatesClose /\ FoundIsWired
    BY DEF TasksAreCandidates, ClaimsAreDisjoint, ClaimedCandidatesClose, FoundIsWired
  <1>3. OneReaderPerPort /\ LeasesAreRegistered /\ ExcludedPortIsLeftAlone
    BY DEF OneReaderPerPort, LeasesAreRegistered, ExcludedPortIsLeftAlone
  <1>4. ReleasedOwnerHoldsNothing /\ PendingIsLatest /\ LeaseMatchesDevice
    BY DEF ReleasedOwnerHoldsNothing, PendingIsLatest, LeaseMatchesDevice
  <1> QED
    BY <1>1, <1>2, <1>3, <1>4 DEF ManagerInv

\* What a worker becomes when it reads an identity.
LEMMA TaskFound ==
  ASSUME NEW t \in Task, NEW id \in SerialIds, NEW u, u = [t EXCEPT !.state = "found", !.id = id]
  PROVE  /\ u \in Task /\ u.port = t.port /\ u.generation = t.generation
         /\ u.state = "found" /\ u.id = id
  BY DEF Task, TaskState

\* What a lease becomes when it is dropped.
LEMMA LeaseClosing ==
  ASSUME NEW l \in Lease, NEW k, k = [l EXCEPT !.state = "closing"]
  PROVE  /\ k \in Lease /\ k.port = l.port /\ k.token = l.token
         /\ k.owner = l.owner /\ k.mac = l.mac
  BY DEF Lease

\* Confirm changes remembered locations only.
LEMMA ConfirmEffect ==
  ASSUME TypeOK, NEW l \in leases, Confirm(l)
  PROVE  /\ locations' \in [Macs -> Ports \cup {NoPort}]
         /\ actor' = "reconcile"
         /\ UNCHANGED <<requestVars, portVars, leased, sequence, claimVars, waitVars, tasks, leases>>
  <1>1. l.port \in Ports /\ locations \in [Macs -> Ports \cup {NoPort}]
    BY DEF TypeOK, Lease
  <1> QED
    BY <1>1 DEF Confirm, Turn

\* A Release always finds its token: it frees the port of the lease it comes from.
LEMMA ReleaseEffect ==
  ASSUME TypeOK, LeasesAreRegistered, NEW l \in leases, Release(l)
  PROVE  /\ leases' = leases \ {l}
         /\ leased' = [leased EXCEPT ![l.port] = NotLeased]
         /\ actor' = "reconcile"
         /\ UNCHANGED <<requestVars, portVars, locations, sequence, claimVars, waitVars, tasks>>
  <1>0. leased[l.port] = [token |-> l.token, owner |-> l.owner]
    BY Zenon DEF LeasesAreRegistered
  <1>1. leased[l.port].token = l.token
    BY <1>0
  <1> QED
    BY <1>1 DEF Release, Turn, has_token

\* The commands that touch no lease and no worker preserve the invariant.
LEMMA RequestCommandKeepsManagerInv ==
  ASSUME ManagerInv,
         \/ \E r \in Requests : Bind(r) \/ RequestOver(r)
         \/ \E S \in SUBSET Ports : Exclude(S)
         \/ \E p \in Ports : Reserve(p) \/ ReserveCancelled(p)
         \/ \E o \in Owners : WaitOwner(o) \/ WaitCancelled(o)
         \/ \E m \in Macs : Invalidate(m)
         \/ \E P \in SUBSET Ports : Inventory(P)
         \/ Tick
  PROVE  ManagerInv'
  <1> USE DEF ManagerInv, TypeOK, TasksAreCandidates, ClaimsAreDisjoint, ClaimedCandidatesClose,
        FoundIsWired, OneReaderPerPort, LeasesAreRegistered, ExcludedPortIsLeftAlone,
        ReleasedOwnerHoldsNothing, PendingIsLatest, LeaseMatchesDevice, is_leased, is_candidate,
        Turn, requestVars, portVars, leaseVars, claimVars, waitVars
  <1>1. ASSUME NEW r \in Requests, Bind(r) PROVE ManagerInv'
    BY <1>1 DEF Bind, superseded
  <1>2. ASSUME NEW r \in Requests, RequestOver(r) PROVE ManagerInv'
    BY <1>2 DEF RequestOver
  <1>3. ASSUME NEW S \in SUBSET Ports, Exclude(S) PROVE ManagerInv'
    <2> USE <1>3 DEF Exclude, exclude_busy
    <2>1. TypeOK'
      BY DEF TypeOK
    <2>2. ClaimedCandidatesClose' /\ ExcludedPortIsLeftAlone'
      OBVIOUS
    <2>3. TasksAreCandidates' /\ ClaimsAreDisjoint' /\ FoundIsWired' /\ OneReaderPerPort' /\ LeasesAreRegistered'
      OBVIOUS
    <2>4. ReleasedOwnerHoldsNothing' /\ PendingIsLatest' /\ LeaseMatchesDevice'
      OBVIOUS
    <2> QED
      BY <2>1, <2>2, <2>3, <2>4
  <1>4. ASSUME NEW p \in Ports, Reserve(p) PROVE ManagerInv'
    BY <1>4 DEF Reserve, reserve_busy
  <1>5. ASSUME NEW p \in Ports, ReserveCancelled(p) PROVE ManagerInv'
    BY <1>5 DEF ReserveCancelled
  <1>6. ASSUME NEW o \in Owners, WaitOwner(o) \/ WaitCancelled(o) PROVE ManagerInv'
    BY <1>6 DEF WaitOwner, WaitCancelled
  <1>7. ASSUME NEW m \in Macs, Invalidate(m) PROVE ManagerInv'
    BY <1>7 DEF Invalidate
  <1>8. ASSUME NEW P \in SUBSET Ports, Inventory(P) PROVE ManagerInv'
    BY <1>8 DEF Inventory
  <1>9. CASE Tick
    BY <1>9 DEF Tick
  <1> QED
    BY <1>1, <1>2, <1>3, <1>4, <1>5, <1>6, <1>7, <1>8, <1>9

\* Confirm, Drop and Release preserve the invariant: the token names the one lease of a port.
LEMMA LeaseStepKeepsManagerInv ==
  ASSUME ManagerInv, NEW l \in leases, Confirm(l) \/ LeaseDropped(l) \/ Release(l)
  PROVE  ManagerInv'
  <1> USE DEF ManagerInv, TypeOK, TasksAreCandidates, ClaimsAreDisjoint, ClaimedCandidatesClose,
        FoundIsWired, OneReaderPerPort, LeasesAreRegistered, ExcludedPortIsLeftAlone,
        ReleasedOwnerHoldsNothing, PendingIsLatest, LeaseMatchesDevice, is_leased, is_candidate,
        Turn, Lease, NotLeased, has_token, requestVars, portVars, leaseVars, claimVars, waitVars
  <1>1. CASE Confirm(l)
    BY <1>1, ConfirmEffect
  <1>2. CASE LeaseDropped(l)
    <2> DEFINE k == [l EXCEPT !.state = "closing"]
    <2>1. /\ k \in Lease /\ k.port = l.port /\ k.token = l.token /\ k.owner = l.owner /\ k.mac = l.mac
      BY LeaseClosing
    <2>2. /\ leases' = (leases \ {l}) \cup {k}
          /\ UNCHANGED <<actor, requestVars, portVars, leaseVars, claimVars, waitVars, tasks>>
      BY <1>2 DEF LeaseDropped
    <2> HIDE DEF k
    <2>3. TypeOK' /\ TasksAreCandidates' /\ ClaimsAreDisjoint' /\ ClaimedCandidatesClose' /\ FoundIsWired'
      BY <2>1, <2>2
    <2>4. OneReaderPerPort' /\ ExcludedPortIsLeftAlone'
      BY <2>1, <2>2
    <2>5. LeasesAreRegistered'
      <3>1. \A x \in leases' : leased'[x.port] = [token |-> x.token, owner |-> x.owner]
        <4> SUFFICES ASSUME NEW x \in leases' PROVE leased'[x.port] = [token |-> x.token, owner |-> x.owner]
          OBVIOUS
        <4>1. CASE x \in leases
          BY <4>1, <2>2 DEF LeasesAreRegistered
        <4>2. CASE x = k
          BY <4>2, <2>1, <2>2 DEF LeasesAreRegistered
        <4> QED
          BY <4>1, <4>2, <2>2
      <3>2. \A p \in Ports : leased'[p].owner # Free => \E x \in leases' : x.port = p
        BY <2>1, <2>2
      <3> QED
        BY <3>1, <3>2
    <2>6. ReleasedOwnerHoldsNothing' /\ PendingIsLatest' /\ LeaseMatchesDevice'
      BY <2>1, <2>2
    <2> QED
      BY <2>3, <2>4, <2>5, <2>6
  <1>3. CASE Release(l)
    <2>1. /\ leases' = leases \ {l}
          /\ leased' = [leased EXCEPT ![l.port] = NotLeased]
          /\ actor' = "reconcile"
          /\ UNCHANGED <<requestVars, portVars, locations, sequence, claimVars, waitVars, tasks>>
      BY <1>3, ReleaseEffect
    <2>2. TypeOK'
      BY <2>1
    <2>3. TasksAreCandidates' /\ ClaimsAreDisjoint' /\ ClaimedCandidatesClose' /\ FoundIsWired'
      BY <2>1
    <2>4. OneReaderPerPort' /\ ExcludedPortIsLeftAlone'
      BY <2>1
    <2>5. LeasesAreRegistered'
      BY <2>1
    <2>6. ReleasedOwnerHoldsNothing' /\ PendingIsLatest' /\ LeaseMatchesDevice'
      BY <2>1
    <2> QED
      BY <2>2, <2>3, <2>4, <2>5, <2>6
  <1> QED
    BY <1>1, <1>2, <1>3

\* A scan worker's own steps and the Closed and stale Found events preserve the invariant.
LEMMA WorkerStepKeepsManagerInv ==
  ASSUME ManagerInv, NEW t \in tasks, ScanStep(t) \/ Closed(t) \/ FoundStale(t)
  PROVE  ManagerInv'
  <1> USE DEF ManagerInv, TypeOK, TasksAreCandidates, ClaimsAreDisjoint, ClaimedCandidatesClose,
        FoundIsWired, OneReaderPerPort, LeasesAreRegistered, ExcludedPortIsLeftAlone,
        ReleasedOwnerHoldsNothing, PendingIsLatest, LeaseMatchesDevice, is_leased, is_candidate,
        Turn, Task, TaskState, Move, requestVars, portVars, leaseVars, claimVars, waitVars
  <1>1. CASE ScanOpens(t) \/ ScanOpenFails(t) \/ ScanStops(t)
    BY <1>1 DEF ScanOpens, ScanOpenFails, ScanStops
  <1>2. ASSUME NEW id \in SerialIds, ScanFinds(t, id) PROVE ManagerInv'
    <2> DEFINE u == [t EXCEPT !.state = "found", !.id = id]
    <2>0. t \in Task
      OBVIOUS
    <2>1. /\ u \in Task /\ u.port = t.port /\ u.generation = t.generation
          /\ u.state = "found" /\ u.id = id
      BY <2>0, TaskFound, Zenon
    <2>2. /\ tasks' = (tasks \ {t}) \cup {u}
          /\ id \in Wired[t.port]
          /\ UNCHANGED <<actor, requestVars, portVars, leaseVars, claimVars, waitVars, leases>>
      BY <1>2 DEF ScanFinds
    <2> HIDE DEF u
    <2>3. TypeOK'
      BY <2>1, <2>2
    <2>4. TasksAreCandidates' /\ ClaimsAreDisjoint' /\ ClaimedCandidatesClose'
      BY <2>1, <2>2
    <2>5. FoundIsWired' /\ LeasesAreRegistered'
      BY <2>1, <2>2
    <2>6. OneReaderPerPort' /\ ExcludedPortIsLeftAlone'
      BY <2>1, <2>2
    <2>7. ReleasedOwnerHoldsNothing' /\ PendingIsLatest' /\ LeaseMatchesDevice'
      BY <2>2
    <2> QED
      BY <2>3, <2>4, <2>5, <2>6, <2>7
  <1>3. CASE Closed(t)
    BY <1>3 DEF Closed
  <1>4. CASE FoundStale(t)
    BY <1>4 DEF FoundStale, stale_candidates
  <1> QED
    BY <1>1, <1>2, <1>3, <1>4 DEF ScanStep

\* A Found event that becomes a lease takes the port from its candidate: the port was not
\* leased, and as the candidate was not closing it was neither reserved nor excluded.
LEMMA FoundLeaseKeepsManagerInv ==
  ASSUME ManagerInv, NEW t \in tasks, NEW r \in Requests, FoundLease(t, r)
  PROVE  ManagerInv'
  <1> DEFINE p == t.port
             token == sequence[p] + 1
             l == [port |-> p, token |-> token, owner |-> r.owner, mac |-> r.mac, state |-> "held"]
  <1>1. /\ tasks' = tasks \ {t}
        /\ candidates' = candidates \ {p}
        /\ pending' = pending \ {r}
        /\ scanning' = scanning \ {r}
        /\ sequence' = [sequence EXCEPT ![p] = token]
        /\ leased' = [leased EXCEPT ![p] = [token |-> token, owner |-> r.owner]]
        /\ leases' = leases \cup {l}
        /\ UNCHANGED <<sent, over, expected, generation, closing, failed, ports, enumerating, locations, claimVars, waitVars>>
        /\ actor = "select" /\ actor' = "reconcile"
        /\ t.state = "found" /\ is_current(t)
        /\ r \in pending /\ r.serial_id = t.id
    BY DEF FoundLease, Turn, is_waiting
  <1>2. t \in Task /\ p \in Ports /\ token \in Nat
    BY DEF ManagerInv, TypeOK, Task
  <1>3. /\ p \in candidates /\ p \notin closing
        /\ leased[p].owner = Free
        /\ p \notin reservations /\ p \notin exclusions
    BY <1>1 DEF ManagerInv, ClaimsAreDisjoint, ClaimedCandidatesClose, is_current, is_candidate, is_leased
  <1>4. r.owner \in Owners /\ r.mac \in Macs /\ r.owner # Manual /\ r.owner # Free
    BY DEF Owners, Macs
  <1>5. l \in Lease /\ l.port = p /\ l.token = token /\ l.owner = r.owner /\ l.mac = r.mac
    BY <1>2, <1>4 DEF Lease
  <1>6. leased \in [Ports -> [token : Nat, owner : Owners \cup {Manual, Free}]]
    BY DEF ManagerInv, TypeOK
  <1>7. /\ leased'[p] = [token |-> token, owner |-> r.owner]
        /\ \A q \in Ports : q # p => leased'[q] = leased[q]
        /\ leased' \in [Ports -> [token : Nat, owner : Owners \cup {Manual, Free}]]
    BY <1>1, <1>2, <1>4, <1>6
  <1>8. \A k \in leases : k.port \in Ports /\ k.port # p
    BY <1>3 DEF ManagerInv, TypeOK, Lease, OneReaderPerPort
  <1> HIDE DEF l, token
  <1>a. TypeOK'
    BY <1>1, <1>2, <1>3, <1>5, <1>7 DEF ManagerInv, TypeOK, claimVars, waitVars
  <1>b. TasksAreCandidates' /\ FoundIsWired'
    BY <1>1 DEF ManagerInv, TasksAreCandidates, FoundIsWired, is_candidate, OneReaderPerPort
  <1>c. ClaimsAreDisjoint' /\ ClaimedCandidatesClose'
    BY <1>1, <1>2, <1>3, <1>7 DEF ManagerInv, TypeOK, ClaimsAreDisjoint, ClaimedCandidatesClose, is_leased, claimVars
  <1>d. OneReaderPerPort'
    BY <1>1, <1>5, <1>8 DEF ManagerInv, OneReaderPerPort
  <1>e. LeasesAreRegistered'
    <2>1. \A k \in leases' : leased'[k.port] = [token |-> k.token, owner |-> k.owner]
      BY <1>1, <1>5, <1>7, <1>8, Zenon DEF ManagerInv, LeasesAreRegistered
    <2>2. \A q \in Ports : leased'[q].owner # Free => \E k \in leases' : k.port = q
      BY <1>1, <1>5, <1>7 DEF ManagerInv, LeasesAreRegistered, is_leased
    <2> QED
      BY <2>1, <2>2 DEF LeasesAreRegistered, is_leased
  <1>f. ExcludedPortIsLeftAlone'
    BY <1>1, <1>3, <1>7 DEF ManagerInv, TypeOK, ExcludedPortIsLeftAlone, claimVars
  <1>g. ReleasedOwnerHoldsNothing' /\ PendingIsLatest'
    BY <1>1, <1>5 DEF ManagerInv, ReleasedOwnerHoldsNothing, PendingIsLatest, waitVars
  <1>h. LeaseMatchesDevice'
    BY <1>1, <1>5 DEF ManagerInv, TypeOK, LeaseMatchesDevice, FoundIsWired
  <1> QED
    BY <1>a, <1>b, <1>c, <1>d, <1>e, <1>f, <1>g, <1>h DEF ManagerInv

\* reconcile preserves the invariant: it grants a reservation only when no candidate is left on
\* the port and opens only ports that nothing else claims.
LEMMA ReconcileKeepsManagerInv ==
  ASSUME ManagerInv, NEW C \in SUBSET over, NEW L \in SUBSET (pending \ C),
         NEW T \in SUBSET (pending \ (scanning \cup C \cup L)), NEW start \in BOOLEAN,
         Reconcile(C, T, L, start)
  PROVE  ManagerInv'
  <1> DEFINE P == pending \ (C \cup L)
             granted == {p \in Ports : may_grant(p)}
             where == [m \in Macs |-> IF \E r \in T \cup L : r.mac = m THEN NoPort ELSE locations[m]]
             opened == {p \in ports : /\ P # {}
                                      /\ may_open(p, exclusions, reservations)
                                      /\ (scanning \cup T) \cap P # {} \/ \E r \in P : where[r.mac] = p}
             answered == {o \in waiters : owner_released(o, P)}
             grant(p) == [port |-> p, token |-> sequence[p] + 1, owner |-> Manual, mac |-> NoId, state |-> "held"]
             worker(p) == [port |-> p, generation |-> sequence[p] + 1, state |-> "opening", id |-> NoId]
  <1>1. /\ actor = "reconcile" /\ actor' = "select"
        /\ pending' = P /\ scanning' = (scanning \cup T) \cap P /\ over' = {} /\ expected' = P
        /\ locations' = where
        /\ closing' = closing \cup {p \in candidates : must_close(p, P)}
        /\ excluding' = (excluding /\ candidates \cap exclusions # {})
        /\ reservations' = reservations \ granted
        /\ sequence' = [p \in Ports |-> IF p \in granted \cup opened THEN sequence[p] + 1 ELSE sequence[p]]
        /\ leased' = [p \in Ports |-> IF p \in granted THEN [token |-> sequence[p] + 1, owner |-> Manual] ELSE leased[p]]
        /\ leases' = leases \cup {grant(p) : p \in granted}
        /\ waiters' = waiters \ answered
        /\ released' = released \cup answered
        /\ candidates' = candidates \cup opened
        /\ generation' = [p \in Ports |-> IF p \in opened THEN sequence[p] + 1 ELSE generation[p]]
        /\ tasks' = tasks \cup {worker(p) : p \in opened}
        /\ enumerating' = (enumerating \/ (P # {} /\ start))
        /\ UNCHANGED <<sent, exclusions, failed, ports, manuals>>
    BY DEF Reconcile
  <1>2. TypeOK
    BY DEF ManagerInv
  <1>3. /\ granted \subseteq Ports /\ granted \subseteq reservations
        /\ granted \cap candidates = {}
        /\ \A p \in granted : leased[p].owner = Free
    BY <1>2 DEF ManagerInv, ClaimsAreDisjoint, is_leased, may_grant
  <1>4. /\ opened \subseteq Ports
        /\ opened \cap candidates = {} /\ opened \cap reservations = {} /\ opened \cap exclusions = {}
        /\ \A p \in opened : leased[p].owner = Free /\ P # {}
    BY <1>2 DEF TypeOK, may_open, is_leased
  <1>5. /\ sequence \in [Ports -> Nat]
        /\ leased \in [Ports -> [token : Nat, owner : Owners \cup {Manual, Free}]]
    BY <1>2 DEF TypeOK
  <1>6. \A p \in Ports : /\ grant(p) \in Lease /\ grant(p).port = p /\ grant(p).token = sequence[p] + 1
                          /\ grant(p).owner = Manual
    BY <1>5 DEF Lease
  <1>7. \A p \in Ports : /\ worker(p) \in Task /\ worker(p).port = p /\ worker(p).generation = sequence[p] + 1
                          /\ worker(p).state = "opening"
    BY <1>5 DEF Task, TaskState
  <1>8. \A p \in Ports : leased'[p] = IF p \in granted THEN [token |-> sequence[p] + 1, owner |-> Manual] ELSE leased[p]
    BY <1>1
  <1>9. \A t \in tasks : t.port \in Ports /\ t.port \in candidates /\ generation[t.port] = t.generation
    BY <1>2 DEF ManagerInv, TypeOK, Task, TasksAreCandidates, is_candidate
  <1>10. \A l \in leases : /\ l.port \in Ports /\ leased[l.port].owner = l.owner /\ l.owner # Free
                            /\ l.port \notin candidates /\ l.port \notin granted /\ l.port \notin opened
    <2> SUFFICES ASSUME NEW l \in leases
                 PROVE  /\ l.port \in Ports /\ leased[l.port].owner = l.owner /\ l.owner # Free
                        /\ l.port \notin candidates /\ l.port \notin granted /\ l.port \notin opened
      OBVIOUS
    <2>1. l.port \in Ports /\ l.owner # Free
      BY <1>2 DEF TypeOK, Lease
    <2>2. leased[l.port] = [token |-> l.token, owner |-> l.owner]
      BY Zenon DEF ManagerInv, LeasesAreRegistered
    <2>3. leased[l.port].owner = l.owner
      BY <2>2
    <2>4. l.port \notin candidates
      BY <2>1, <2>3 DEF ManagerInv, ClaimsAreDisjoint, is_leased
    <2> QED
      BY <2>1, <2>3, <2>4, <1>3, <1>4
  <1> HIDE DEF P, granted, opened, answered, where, grant, worker
  <1>a. TypeOK'
    <2>1. P \subseteq pending /\ where \in [Macs -> Ports \cup {NoPort}] /\ answered \subseteq Owners
      BY <1>2 DEF TypeOK, P, where, answered
    <2>2. sequence' \in [Ports -> Nat] /\ generation' \in [Ports -> Nat]
      BY <1>1, <1>2 DEF TypeOK
    <2>3. leased' \in [Ports -> [token : Nat, owner : Owners \cup {Manual, Free}]]
      BY <1>1, <1>5
    <2>4. tasks' \in SUBSET Task /\ leases' \in SUBSET Lease
      BY <1>1, <1>2, <1>3, <1>4, <1>6, <1>7 DEF TypeOK
    <2>5. closing' \in SUBSET candidates' /\ candidates' \in SUBSET Ports /\ reservations' \in SUBSET Ports
      BY <1>1, <1>2, <1>4 DEF TypeOK
    <2>6. excluding' \in BOOLEAN /\ enumerating' \in BOOLEAN
      BY <1>1, <1>2 DEF TypeOK
    <2>7. pending' \in SUBSET sent' /\ scanning' \in SUBSET pending' /\ expected' \in SUBSET Requests /\ over' \in SUBSET Requests
      BY <1>1, <1>2, <2>1 DEF TypeOK
    <2> QED
      BY <1>1, <1>2, <2>1, <2>2, <2>3, <2>4, <2>5, <2>6, <2>7 DEF TypeOK
  <1>b. TasksAreCandidates' /\ FoundIsWired'
    <2> SUFFICES ASSUME NEW t \in tasks'
                 PROVE  /\ t.port \in candidates' /\ generation'[t.port] = t.generation
                        /\ t.state = "found" => t.id \in Wired[t.port]
      BY DEF TasksAreCandidates, FoundIsWired, is_candidate
    <2>1. CASE t \in tasks
      BY <2>1, <1>1, <1>4, <1>9 DEF ManagerInv, FoundIsWired
    <2>2. ASSUME NEW p \in opened, t = worker(p)
          PROVE  /\ t.port \in candidates' /\ generation'[t.port] = t.generation
                 /\ t.state = "found" => t.id \in Wired[t.port]
      BY <2>2, <1>1, <1>4, <1>7
    <2> QED
      BY <2>1, <2>2, <1>1
  <1>c. ClaimsAreDisjoint' /\ ClaimedCandidatesClose'
    <2>1. ClaimsAreDisjoint'
      BY <1>1, <1>2, <1>3, <1>4, <1>8 DEF ManagerInv, TypeOK, ClaimsAreDisjoint, is_leased
    <2>2. ClaimedCandidatesClose'
      BY <1>1, <1>4 DEF ManagerInv, ClaimedCandidatesClose, must_close
    <2> QED
      BY <2>1, <2>2
  <1>d. OneReaderPerPort'
    <2>1. \A t, u \in tasks' : t.port = u.port => t = u
      BY <1>1, <1>4, <1>7, <1>9 DEF ManagerInv, OneReaderPerPort
    <2>2. \A l, k \in leases' : l.port = k.port => l = k
      BY <1>1, <1>3, <1>6, <1>10 DEF ManagerInv, OneReaderPerPort
    <2>3. \A t \in tasks', l \in leases' : t.port # l.port
      <3> SUFFICES ASSUME NEW t \in tasks', NEW l \in leases' PROVE t.port # l.port
        OBVIOUS
      <3>1. t.port \in candidates \/ t.port \in opened
        BY <1>1, <1>4, <1>7, <1>9
      <3>2. l.port \notin candidates /\ l.port \notin opened
        BY <1>1, <1>3, <1>4, <1>6, <1>10
      <3> QED
        BY <3>1, <3>2
    <2> QED
      BY <2>1, <2>2, <2>3 DEF OneReaderPerPort
  <1>e. LeasesAreRegistered'
    <2>1. ASSUME NEW k \in leases' PROVE leased'[k.port] = [token |-> k.token, owner |-> k.owner]
      <3>1. CASE k \in leases
        <4>1. leased[k.port] = [token |-> k.token, owner |-> k.owner]
          BY <3>1, Zenon DEF ManagerInv, LeasesAreRegistered
        <4> QED
          BY <3>1, <4>1, <1>8, <1>10
      <3>2. ASSUME NEW p \in granted, k = grant(p) PROVE leased'[k.port] = [token |-> k.token, owner |-> k.owner]
        BY <3>2, <1>3, <1>6, <1>8
      <3> QED
        BY <3>1, <3>2, <1>1
    <2>2. ASSUME NEW q \in Ports, leased'[q].owner # Free PROVE \E k \in leases' : k.port = q
      <3>1. CASE q \in granted
        BY <3>1, <1>1, <1>6
      <3>2. CASE q \notin granted
        BY <3>2, <2>2, <1>1, <1>8 DEF ManagerInv, LeasesAreRegistered, is_leased
      <3> QED
        BY <3>1, <3>2
    <2> QED
      BY <2>1, <2>2 DEF LeasesAreRegistered, is_leased
  <1>f. ExcludedPortIsLeftAlone'
    <2>1. ASSUME NEW p \in exclusions PROVE leased'[p].owner \in {Manual, Free}
      <3>1. p \in Ports /\ leased[p].owner \in {Manual, Free}
        BY <1>2 DEF ManagerInv, TypeOK, ExcludedPortIsLeftAlone
      <3>2. CASE p \in granted
        <4>1. leased'[p] = [token |-> sequence[p] + 1, owner |-> Manual]
          BY <3>1, <3>2, <1>8
        <4> QED
          BY <4>1
      <3>3. CASE p \notin granted
        <4>1. leased'[p] = leased[p]
          BY <3>1, <3>3, <1>8
        <4> QED
          BY <3>1, <4>1
      <3> QED
        BY <3>2, <3>3
    <2>2. ~excluding' => candidates' \cap exclusions = {}
      BY <1>1, <1>4 DEF ManagerInv, ClaimedCandidatesClose
    <2>3. \A t \in tasks' : t.port \in candidates'
      BY <1>b DEF TasksAreCandidates, is_candidate
    <2> QED
      BY <1>1, <2>1, <2>2, <2>3 DEF ExcludedPortIsLeftAlone
  <1>g. ReleasedOwnerHoldsNothing' /\ PendingIsLatest'
    <2>1. ASSUME NEW o \in released' PROVE (\A l \in leases' : l.owner # o) /\ (\A r \in P : r.owner # o)
      <3>1. CASE o \in released
        BY <3>1, <1>1, <1>2, <1>3, <1>6 DEF ManagerInv, TypeOK, ReleasedOwnerHoldsNothing, P
      <3>2. CASE o \in answered
        <4>1. o \in Owners /\ (\A p \in Ports : leased[p].owner # o) /\ (\A r \in P : r.owner # o)
          BY <3>2, <1>2 DEF answered, owner_released, TypeOK
        <4> QED
          BY <4>1, <1>1, <1>3, <1>6, <1>10
      <3> QED
        BY <3>1, <3>2, <1>1
    <2> QED
      BY <1>1, <2>1 DEF ManagerInv, ReleasedOwnerHoldsNothing, PendingIsLatest, P
  <1>h. LeaseMatchesDevice'
    BY <1>1, <1>3, <1>6 DEF ManagerInv, LeaseMatchesDevice
  <1> QED
    BY <1>a, <1>b, <1>c, <1>d, <1>e, <1>f, <1>g, <1>h DEF ManagerInv

\* Every step of the manager, its workers and its lease holders preserves the invariant.
LEMMA NextKeepsManagerInv == ManagerInv /\ [Next]_vars => ManagerInv'
  <1> SUFFICES ASSUME ManagerInv, [Next]_vars PROVE ManagerInv'
    OBVIOUS
  <1>1. CASE CommandStep
    BY <1>1, RequestCommandKeepsManagerInv, LeaseStepKeepsManagerInv DEF CommandStep
  <1>2. ASSUME NEW t \in tasks, ScanStep(t) \/ EventStep(t) PROVE ManagerInv'
    BY <1>2, WorkerStepKeepsManagerInv, FoundLeaseKeepsManagerInv DEF EventStep
  <1>3. ASSUME NEW l \in leases, LeaseDropped(l) PROVE ManagerInv'
    BY <1>3, LeaseStepKeepsManagerInv
  <1>4. CASE (\E P \in SUBSET Ports : Inventory(P)) \/ Tick
    BY <1>4, RequestCommandKeepsManagerInv
  <1>5. CASE ReconcileStep
    BY <1>5, ReconcileKeepsManagerInv DEF ReconcileStep
  <1>6. CASE UNCHANGED vars
    BY <1>6 DEF vars, requestVars, portVars, leaseVars, claimVars, waitVars, ManagerInv, TypeOK,
        TasksAreCandidates, ClaimsAreDisjoint, ClaimedCandidatesClose, FoundIsWired, OneReaderPerPort,
        LeasesAreRegistered, ExcludedPortIsLeftAlone, ReleasedOwnerHoldsNothing, PendingIsLatest,
        LeaseMatchesDevice, is_leased, is_candidate
  <1> QED
    BY <1>1, <1>2, <1>3, <1>4, <1>5, <1>6 DEF Next

\* The claims on a port agree in every state the manager reaches (Discovery, manager.rs).
THEOREM ManagerInvariant == Spec => []ManagerInv
  BY InitManagerInv, NextKeepsManagerInv, PTL DEF Spec

\* No port ever has two readers among workers, closing streams, leases and reservations: the
\* reason why event() keeps the name of a stale stream among the candidates until it is closed.
THEOREM PortHasOneReader == Spec => []OneReaderPerPort
  <1>1. ManagerInv => OneReaderPerPort
    BY DEF ManagerInv
  <1> QED
    BY <1>1, ManagerInvariant, PTL

\* Discovery.leased names exactly the lease objects that exist: a Release frees only its own.
THEOREM LeaseTableIsExact == Spec => []LeasesAreRegistered
  <1>1. ManagerInv => LeasesAreRegistered
    BY DEF ManagerInv
  <1> QED
    BY <1>1, ManagerInvariant, PTL

\* exclude() keeps its promise: after its answer no candidate IO is on an excluded port, and no
\* session ever leases one.
THEOREM ExclusionHolds == Spec => []ExcludedPortIsLeftAlone
  <1>1. ManagerInv => ExcludedPortIsLeftAlone
    BY DEF ManagerInv
  <1> QED
    BY <1>1, ManagerInvariant, PTL

\* wait_owner_released answers only for an owner that holds nothing.
THEOREM WaitMeansReleased == Spec => []ReleasedOwnerHoldsNothing
  <1>1. ManagerInv => ReleasedOwnerHoldsNothing
    BY DEF ManagerInv
  <1> QED
    BY <1>1, ManagerInvariant, PTL

\* A request of a superseded boot is never served (Command::Bind).
THEOREM SupersededBootIsCancelled == Spec => []PendingIsLatest
  <1>1. ManagerInv => PendingIsLatest
    BY DEF ManagerInv
  <1> QED
    BY <1>1, ManagerInvariant, PTL

\* A session's lease is on a port wired to the device it asked for (Event::Found).
THEOREM LeaseIsForItsDevice == Spec => []LeaseMatchesDevice
  <1>1. ManagerInv => LeaseMatchesDevice
    BY DEF ManagerInv
  <1> QED
    BY <1>1, ManagerInvariant, PTL

-----------------------------------------------------------------------------
(***************************************************************************)
(* SerialIdentity.                                                         *)
(***************************************************************************)
\* A plugged device has a name and a socket of its own.
BusIsOrderly ==
  /\ \A d \in Devices : name[d] # Absent <=> place[d] # Absent
  /\ \A d, e \in Plugged : name[d] = name[e] \/ place[d] = place[e] => d = e

Opened == {"lock", "raw", "held", "write"}

\* Who searches or has something open, and for what.
Orderly(u, r) ==
  /\ r.at # "idle" => r.key \in Keys
  /\ r.at \in Opened => r.device \in Devices
  /\ r.at \in {"lock", "raw", "held"} => u \in Terminals
  /\ r.at = "write" => u \in Relays
UsersAreOrderly == \A u \in Users : Orderly(u, user[u])

\* A key that is a number is told by one device.
ToldByOne(key) ==
  \A d, e \in Plugged : told[d] /\ told[e] /\ number[d] = key.value /\ number[e] = key.value => d = e

\* What a search has read and found is still so.
IsFresh(r) ==
  /\ r.at \in {"links", "ports"} => r.usb = {d \in Devices : place[d] # Absent}
  /\ r.at = "ports" =>
       /\ r.paths = {<<name[d], place[d]>> : d \in Plugged}
       /\ r.ids = {<<name[d], number[d]>> : d \in {e \in Plugged : idLink[number[e]] = e}}
  /\ r.at = "open" => \A d \in Plugged : name[d] = r.found => Named(r.key, d)
  /\ r.at \in Opened => Named(r.key, r.device)
  /\ r.at \in {"open"} \cup Opened /\ r.key.kind = "number" => ToldByOne(r.key)
SearchesAreFresh == \A u \in Users \ moved : IsFresh(user[u])

\* Without an overlap a device has one user, and a console has not read settings that are somebody's raw mode.
OneUser ==
  ~overlap =>
    /\ \A u, v \in Users : user[u].at \in Opened /\ user[v].at \in Opened /\ user[u].device = user[v].device => u = v
    /\ \A u \in Users : user[u].at \in {"lock", "raw", "held"} => user[u].saved # "raw"

IdIInv ==
  /\ IdTypeOK /\ BusIsOrderly /\ UsersAreOrderly /\ SearchesAreFresh /\ OneConsole /\ OneUser /\ SettingsAreRestored

-----------------------------------------------------------------------------
LEMMA UsersTyped == IdTypeOK => user \in [Users -> UserStates]
  BY DEF IdTypeOK

\* A user at rest.
LEMMA AtRest ==
  ASSUME NEW key \in Keys \cup {Absent}
  PROVE  LET r == Resting(key) IN
           r \in UserStates /\ r.at = "idle" /\ r.key = key /\ (\A u : Orderly(u, r)) /\ IsFresh(r)
  BY DEF Resting, UserStates, Orderly, IsFresh, Opened

LEMMA KindOfKey ==
  ASSUME NEW key \in Keys
  PROVE  \/ key.kind = "number" /\ key.value \in Numbers
         \/ key.kind = "path" /\ key.value \in Sockets
         \/ key.kind = "id" /\ key.value \in Numbers \cup {Absent}
  BY SerialIdentityAssumption

\* A step of one user while the bus stays as it is.
LEMMA UserStep ==
  ASSUME IdIInv, NEW u \in Users, NEW r \in UserStates, user' = [user EXCEPT ![u] = r], UNCHANGED bus,
         moved' = moved \/ moved' = moved \ {u}, settings' \in [Devices -> {"own", "raw", "relay"}], overlap' \in BOOLEAN,
         Orderly(u, r), u \notin moved' => IsFresh(r), OneConsole', OneUser', SettingsAreRestored'
  PROVE  IdIInv'
<1>1. user \in [Users -> UserStates]
  BY UsersTyped DEF IdIInv
<1>2. user' \in [Users -> UserStates] /\ user'[u] = r /\ \A v \in Users : v # u => user'[v] = user[v]
  BY <1>1
<1>3. UNCHANGED <<number, told, place, name, idLink, plugs>>
  BY DEF bus
<1>4. IdTypeOK'
  BY <1>2, <1>3 DEF IdIInv, IdTypeOK, UserStates
<1>5. BusIsOrderly'
  BY <1>3 DEF IdIInv, BusIsOrderly, Plugged
<1>6. UsersAreOrderly'
  <2>1. \A v \in Users : Orderly(v, user'[v])
    BY <1>2 DEF IdIInv, UsersAreOrderly
  <2>. QED BY <2>1 DEF UsersAreOrderly, Orderly
<1>7. SearchesAreFresh'
  <2>1. ASSUME NEW v \in Users \ moved' PROVE IsFresh(user'[v])
    BY <1>2 DEF IdIInv, SearchesAreFresh
  <2>2. ASSUME NEW v \in Users \ moved' PROVE IsFresh(user[v])'
    BY <1>3, <2>1, ZenonT(30) DEF IsFresh, Named, ToldByOne, Plugged
  <2>. QED BY <2>2 DEF SearchesAreFresh
<1>. QED BY <1>4, <1>5, <1>6, <1>7 DEF IdIInv

\* A step of a user that neither has nor gets anything open.
LEMMA SearchStep ==
  ASSUME IdIInv, NEW u \in Users, NEW r \in UserStates, user' = [user EXCEPT ![u] = r], UNCHANGED bus,
         moved' = moved \/ moved' = moved \ {u}, UNCHANGED <<settings, overlap>>,
         user[u].at \notin Opened, r.at \notin Opened, Orderly(u, r), u \notin moved' => IsFresh(r)
  PROVE  IdIInv'
<1>1. user \in [Users -> UserStates]
  BY UsersTyped DEF IdIInv
<1>2. user'[u] = r /\ \A v \in Users : v # u => user'[v] = user[v]
  BY <1>1
<1>3. \A v \in Users : user'[v].at \in Opened <=> user[v].at \in Opened
  BY <1>2
<1>4. \A v \in Users : user[v].at \in Opened => user'[v] = user[v]
  BY <1>2
<1>5. OneConsole'
  <2>1. \A v \in Terminals : Holds(v)' => Holds(v) /\ user'[v] = user[v]
    BY <1>2 DEF Holds, Opened, Users
  <2>. QED BY <2>1 DEF IdIInv, OneConsole
<1>6. OneUser'
  <2>1. \A v \in Users : user'[v].at \in Opened => user[v].at \in Opened /\ user'[v] = user[v]
    BY <1>3, <1>4
  <2>. QED BY <2>1 DEF IdIInv, OneUser, Opened
<1>7. SettingsAreRestored'
  <2>1. \A v \in Terminals, d \in Devices : HasOpen(v, d) => HasOpen(v, d)'
    BY <1>4 DEF HasOpen, Opened, Users
  <2>2. Plugged' = Plugged
    BY DEF bus, Plugged
  <2>3. Plugged \subseteq Devices
    BY DEF Plugged
  <2>. QED BY <2>1, <2>2, <2>3 DEF IdIInv, SettingsAreRestored
<1>8. settings' \in [Devices -> {"own", "raw", "relay"}] /\ overlap' \in BOOLEAN
  BY DEF IdIInv, IdTypeOK
<1>. QED BY <1>5, <1>6, <1>7, <1>8, UserStep

-----------------------------------------------------------------------------
(***************************************************************************)
(* The search                                                              *)
(***************************************************************************)
\* The key as it is told by what has been read, while the bus is as it was read.
LEMMA NumberIsRight ==
  ASSUME IdIInv, NEW u \in Users, IsFresh(user[u]), user[u].at = "ports", NEW d \in Plugged
  PROVE  NumberOf(u, d) = number[d] \/ NumberOf(u, d) = Absent
<1>. SUFFICES ASSUME ~(told[d] \/ number[d] = Absent), Cardinality(user[u].usb) = 1
              PROVE  NumberOf(u, d) = number[d]
  BY DEF NumberOf
<1>1. user[u].usb = {e \in Devices : place[e] # Absent}
  BY DEF IsFresh
<1>2. d \in user[u].usb
  BY <1>1 DEF IdIInv, BusIsOrderly, Plugged
<1>3. IsFiniteSet(user[u].usb)
  BY <1>1, FS_Subset, SerialIdentityAssumption
<1>4. PICK x : user[u].usb = {x}
  BY <1>3, FS_Singleton
<1>5. (CHOOSE e \in user[u].usb : TRUE) = d
  BY <1>2, <1>4
<1>. QED BY <1>5 DEF NumberOf

\* What a key resolves to is what it names, and a number is told by no second device.
LEMMA ResolvesRight ==
  ASSUME IdIInv, NEW u \in Users, IsFresh(user[u]), user[u].at = "ports", user[u].key \in Keys,
         NEW n \in Names, Resolves(u, n)
  PROVE  /\ \A d \in Plugged : name[d] = n => Named(user[u].key, d)
         /\ user[u].key.kind = "number" => ToldByOne(user[u].key)
<1>. DEFINE key == user[u].key
<1>0. \A d \in Plugged : d \in Devices /\ name[d] # Absent
  BY DEF Plugged
<1>1. \A d, e \in Plugged : name[d] = name[e] => d = e
  BY DEF IdIInv, BusIsOrderly
<1>2. n \in Matches(u, key) \/ n \in Targets(key)
  BY DEF Resolves
<1>3. CASE key.kind = "number"
  <2>1. key.value \in Numbers /\ key.value # Absent
    BY <1>3, KindOfKey, SerialIdentityAssumption
  <2>2. Targets(key) = {}
    BY <1>3 DEF Targets
  <2>3. Matches(u, key) = {name[d] : d \in {e \in Plugged : NumberOf(u, e) = key.value}}
    BY <1>3 DEF Matches
  <2>4. Matches(u, key) = {n}
    BY <2>2 DEF Resolves
  <2>5. ASSUME NEW d \in Plugged, name[d] = n PROVE Named(key, d)
    <3>1. NumberOf(u, d) = key.value
      BY <1>1, <2>3, <2>4, <2>5
    <3>2. number[d] = key.value
      BY <2>1, <3>1, NumberIsRight
    <3>. QED BY <1>0, <1>3, <3>2 DEF Named
  <2>6. ASSUME NEW d \in Plugged, NEW e \in Plugged, told[d], told[e], number[d] = key.value, number[e] = key.value
        PROVE  d = e
    <3>1. NumberOf(u, d) = key.value /\ NumberOf(u, e) = key.value
      BY <2>6 DEF NumberOf
    <3>2. name[d] = n /\ name[e] = n
      BY <2>3, <2>4, <3>1
    <3>. QED BY <1>1, <3>2
  <2>. QED BY <2>5, <2>6 DEF ToldByOne
<1>4. CASE key.kind = "path"
  <2>1. Matches(u, key) = {name[d] : d \in {e \in Plugged : <<name[e], key.value>> \in user[u].paths}}
        /\ Targets(key) = {name[d] : d \in {e \in Plugged : place[e] = key.value}}
    BY <1>4 DEF Matches, Targets
  <2>2. user[u].paths = {<<name[d], place[d]>> : d \in Plugged}
    BY DEF IsFresh
  <2>3. ASSUME NEW d \in Plugged, name[d] = n PROVE place[d] = key.value
    <3>1. PICK e \in Plugged : name[e] = n /\ (<<name[e], key.value>> \in user[u].paths \/ place[e] = key.value)
      BY <1>2, <2>1
    <3>2. e = d
      BY <1>1, <2>3, <3>1
    <3>3. CASE <<name[e], key.value>> \in user[u].paths
      <4>1. PICK f \in Plugged : <<name[e], key.value>> = <<name[f], place[f]>>
        BY <2>2, <3>3
      <4>2. name[f] = name[e] /\ place[f] = key.value
        BY <4>1
      <4>. QED BY <1>1, <3>2, <4>2
    <3>. QED BY <3>1, <3>2, <3>3
  <2>. QED BY <1>0, <1>4, <2>3 DEF Named
<1>5. CASE key.kind = "id"
  <2>1. Matches(u, key) = {name[d] : d \in {e \in Plugged : <<name[e], key.value>> \in user[u].ids}}
        /\ Targets(key) = {name[d] : d \in {e \in Plugged : idLink[key.value] = e}}
    BY <1>5 DEF Matches, Targets
  <2>2. user[u].ids = {<<name[d], number[d]>> : d \in {e \in Plugged : idLink[number[e]] = e}}
    BY DEF IsFresh
  <2>3. ASSUME NEW d \in Plugged, name[d] = n PROVE idLink[key.value] = d
    <3>1. PICK e \in Plugged : name[e] = n /\ (<<name[e], key.value>> \in user[u].ids \/ idLink[key.value] = e)
      BY <1>2, <2>1
    <3>2. e = d
      BY <1>1, <2>3, <3>1
    <3>3. CASE <<name[e], key.value>> \in user[u].ids
      <4>1. PICK f \in {g \in Plugged : idLink[number[g]] = g} : <<name[e], key.value>> = <<name[f], number[f]>>
        BY <2>2, <3>3
      <4>2. name[f] = name[e] /\ number[f] = key.value /\ f \in Plugged /\ idLink[number[f]] = f
        BY <4>1
      <4>. QED BY <1>1, <3>2, <4>2
    <3>. QED BY <3>1, <3>2, <3>3
  <2>. QED BY <1>0, <1>5, <2>3 DEF Named
<1>. QED BY <1>3, <1>4, <1>5, KindOfKey

LEMMA ListsUsbKeeps == ASSUME IdIInv, NEW u \in Users, ListsUsb(u) PROVE IdIInv'
<1>. DEFINE r == WithUsb(u)
            usb == {d \in Devices : place[d] # Absent}
<1>1. user[u] \in UserStates /\ user[u].key \in Keys \cup {Absent}
  BY UsersTyped DEF IdIInv, UserStates
<1>2. user[u].at = "idle" /\ user[u].key # Absent /\ user' = [user EXCEPT ![u] = r] /\ moved' = moved \ {u}
      /\ UNCHANGED <<bus, settings, overlap>>
  BY DEF ListsUsb
<1>3. r = [user[u] EXCEPT !.at = "links", !.usb = usb] /\ usb \in SUBSET Devices
  BY DEF WithUsb
<1>. HIDE DEF usb
<1>5. r \in UserStates /\ r.at = "links" /\ r.usb = usb /\ r.key = user[u].key
  BY <1>1, <1>3 DEF UserStates
<1>. HIDE DEF r
<1>4. Orderly(u, r) /\ IsFresh(r)
  BY <1>1, <1>2, <1>5 DEF Orderly, IsFresh, Opened, usb
<1>. QED BY <1>2, <1>5, <1>4, SearchStep DEF Opened

LEMMA ReadsLinksKeeps == ASSUME IdIInv, NEW u \in Users, ReadsLinks(u) PROVE IdIInv'
<1>. DEFINE r == WithLinks(u)
<1>1. user[u] \in UserStates /\ Orderly(u, user[u]) /\ (u \notin moved => IsFresh(user[u]))
  BY UsersTyped DEF IdIInv, UsersAreOrderly, SearchesAreFresh
<1>2. user[u].at = "links" /\ user' = [user EXCEPT ![u] = r] /\ UNCHANGED <<bus, settings, moved, overlap>>
  BY DEF ReadsLinks
<1>3. \A d \in Plugged : d \in Devices /\ name[d] \in Names /\ place[d] \in Sockets /\ number[d] \in Numbers \cup {Absent}
  BY DEF IdIInv, IdTypeOK, BusIsOrderly, Plugged
<1>4. PathMap \in SUBSET (Names \X Sockets) /\ IdMap \in SUBSET (Names \X (Numbers \cup {Absent}))
  BY <1>3 DEF PathMap, IdMap
<1>5. r \in UserStates /\ r.at = "ports" /\ r.usb = user[u].usb /\ r.paths = PathMap /\ r.ids = IdMap /\ r.key = user[u].key
  BY <1>1, <1>4 DEF UserStates, WithLinks
<1>. HIDE DEF r
<1>6. Orderly(u, r)
  BY <1>1, <1>2, <1>5 DEF Orderly, Opened
<1>7. u \notin moved => IsFresh(r)
  BY <1>1, <1>2, <1>5 DEF IsFresh, Opened, PathMap, IdMap
<1>. QED BY <1>2, <1>5, <1>6, <1>7, SearchStep DEF Opened

LEMMA FindsKeeps == ASSUME IdIInv, NEW u \in Users, Finds(u) PROVE IdIInv'
<1>1. user[u].at = "ports" /\ UNCHANGED <<bus, settings, moved, overlap>>
  BY DEF Finds
<1>2. PICK n \in Names : Resolves(u, n) /\ user' = [user EXCEPT ![u] = WithName(u, n)]
  BY DEF Finds
<1>3. user[u].key \in Keys /\ (u \notin moved => IsFresh(user[u]))
  BY <1>1 DEF IdIInv, UsersAreOrderly, Orderly, SearchesAreFresh
<1>. DEFINE r == WithName(u, n)
<1>4. Resting(user[u].key) \in UserStates /\ Resting(user[u].key).key = user[u].key
  BY <1>3, AtRest
<1>5. r \in UserStates /\ r.at = "open" /\ r.found = n /\ r.key = user[u].key
  BY <1>4 DEF UserStates, WithName
<1>. HIDE DEF r
<1>6. Orderly(u, r) /\ (u \notin moved => IsFresh(r))
  BY <1>1, <1>2, <1>3, <1>5, ResolvesRight DEF Orderly, IsFresh, Opened
<1>7. user' = [user EXCEPT ![u] = r]
  BY <1>2 DEF r
<1>. QED BY <1>1, <1>5, <1>6, <1>7, SearchStep DEF Opened

LEMMA NotFoundKeeps == ASSUME IdIInv, NEW u \in Users, DoesNotFind(u) \/ NameIsGone(u) PROVE IdIInv'
<1>1. user[u].at \in {"ports", "open"} /\ UNCHANGED <<bus, settings, moved, overlap>> /\ user' = [user EXCEPT ![u] = Resting(user[u].key)]
  BY DEF DoesNotFind, NameIsGone, Rest
<1>2. user[u].key \in Keys
  BY <1>1 DEF IdIInv, UsersAreOrderly, Orderly
<1>. QED BY <1>1, <1>2, AtRest, SearchStep DEF Opened

-----------------------------------------------------------------------------
(***************************************************************************)
(* What is open                                                            *)
(***************************************************************************)
LEMMA OpensKeeps == ASSUME IdIInv, NEW u \in Users, Opens(u) PROVE IdIInv'
<1>1. PICK d \in Plugged :
        /\ name[d] = user[u].found
        /\ user' = [user EXCEPT ![u] = WithDevice(u, d)]
        /\ overlap' = (overlap \/ \E v \in Users \ {u} : HasOpen(v, d))
        /\ settings' = IF u \in Terminals THEN settings ELSE [settings EXCEPT ![d] = "relay"]
  BY DEF Opens
<1>2. user[u].at = "open" /\ UNCHANGED <<bus, moved>>
  BY DEF Opens
<1>. DEFINE r == WithDevice(u, d)
<1>3. user[u].key \in Keys /\ (u \notin moved => IsFresh(user[u])) /\ user \in [Users -> UserStates]
  BY <1>2, UsersTyped DEF IdIInv, UsersAreOrderly, Orderly, SearchesAreFresh
<1>4. d \in Devices /\ d # Absent /\ name[d] # Absent /\ settings \in [Devices -> {"own", "raw", "relay"}] /\ overlap \in BOOLEAN
  BY SerialIdentityAssumption DEF Plugged, IdIInv, IdTypeOK
<1>5. Resting(user[u].key) \in UserStates /\ Resting(user[u].key).key = user[u].key
  BY <1>3, AtRest
<1>6. r \in UserStates /\ r.at = (IF u \in Terminals THEN "lock" ELSE "write") /\ r.device = d /\ r.saved = settings[d]
      /\ r.key = user[u].key
  BY <1>4, <1>5 DEF UserStates, WithDevice
<1>7. user' = [user EXCEPT ![u] = r]
  BY <1>1
<1>. HIDE DEF r
<1>8. user'[u] = r /\ \A v \in Users : v # u => user'[v] = user[v]
  BY <1>3, <1>7
<1>9. settings' \in [Devices -> {"own", "raw", "relay"}] /\ overlap' \in BOOLEAN
      /\ \A e \in Devices : settings'[e] = "raw" => settings[e] = "raw" /\ (u \in Terminals \/ e # d)
  BY <1>1, <1>4
<1>10. u \in Terminals \/ u \in Relays
  BY DEF Users
<1>11. Orderly(u, r)
  BY <1>3, <1>4, <1>6, <1>10 DEF Orderly, Opened
<1>12. u \notin moved => IsFresh(r)
  <2>1. u \notin moved => Named(user[u].key, d) /\ (user[u].key.kind = "number" => ToldByOne(user[u].key))
    BY <1>1, <1>2, <1>3 DEF IsFresh
  <2>. QED BY <1>6, <2>1 DEF IsFresh, Opened
<1>13. ~overlap' => ~overlap /\ \A v \in Users \ {u} : ~HasOpen(v, d)
  BY <1>1
<1>14. OneConsole'
  <2>1. \A v \in Terminals : Holds(v)' => Holds(v) /\ user'[v] = user[v]
    BY <1>6, <1>8 DEF Holds, Users
  <2>. QED BY <2>1 DEF IdIInv, OneConsole
<1>15. OneUser'
  <2>1. \A v \in Users \ {u} : ~overlap' /\ user[v].at \in Opened => user[v].device # d
    BY <1>13 DEF HasOpen, Opened
  <2>2. ~overlap' /\ u \in Terminals => settings[d] # "raw"
    <3>1. ASSUME ~overlap', settings[d] = "raw" PROVE FALSE
      <4>1. PICK v \in Terminals : HasOpen(v, d)
        BY <1>13, <3>1 DEF IdIInv, SettingsAreRestored
      <4>2. v # u
        BY <1>2, <4>1 DEF HasOpen
      <4>. QED BY <1>13, <3>1, <4>1, <4>2 DEF Users
    <3>. QED BY <3>1
  <2>3. ~overlap' => \A v, w \in Users : user'[v].at \in Opened /\ user'[w].at \in Opened /\ user'[v].device = user'[w].device => v = w
    BY <1>6, <1>8, <1>13, <2>1 DEF IdIInv, OneUser
  <2>4. ~overlap' => \A v \in Users : user'[v].at \in {"lock", "raw", "held"} => user'[v].saved # "raw"
    BY <1>6, <1>8, <1>13, <2>2 DEF IdIInv, OneUser
  <2>. QED BY <2>3, <2>4 DEF OneUser, Opened
<1>16. SettingsAreRestored'
  <2>1. \A v \in Terminals, e \in Devices : HasOpen(v, e) => HasOpen(v, e)'
    BY <1>2, <1>8 DEF HasOpen, Users
  <2>2. Plugged' = Plugged /\ Plugged \subseteq Devices
    BY <1>2 DEF bus, Plugged
  <2>. QED BY <1>9, <1>13, <2>1, <2>2 DEF IdIInv, SettingsAreRestored
<1>. QED BY <1>2, <1>6, <1>7, <1>9, <1>11, <1>12, <1>14, <1>15, <1>16, UserStep

LEMMA LocksKeeps == ASSUME IdIInv, NEW u \in Users, Locks(u) \/ GoesRaw(u) PROVE IdIInv'
<1>. DEFINE r == [user[u] EXCEPT !.at = IF Locks(u) THEN "raw" ELSE "held"]
            d == user[u].device
<1>1. user \in [Users -> UserStates] /\ user[u] \in UserStates /\ Orderly(u, user[u]) /\ (u \notin moved => IsFresh(user[u]))
  BY UsersTyped DEF IdIInv, UsersAreOrderly, SearchesAreFresh
<1>2. user' = [user EXCEPT ![u] = r] /\ UNCHANGED <<bus, moved, overlap>> /\ user[u].at \in {"lock", "raw"}
      /\ (Locks(u) => user[u].at = "lock" /\ settings' = settings /\ \A v \in Terminals : ~(Holds(v) /\ user[v].device = d))
      /\ (~Locks(u) => user[u].at = "raw" /\ settings' = [settings EXCEPT ![d] = "raw"])
  BY DEF Locks, GoesRaw, PutUser
<1>3. r \in UserStates /\ r.at = (IF Locks(u) THEN "raw" ELSE "held") /\ r.device = d /\ r.saved = user[u].saved /\ r.key = user[u].key
  BY <1>1 DEF UserStates
<1>. HIDE DEF r
<1>4. u \in Terminals /\ d \in Devices
  BY <1>1, <1>2 DEF Orderly, Opened
<1>5. user'[u] = r /\ \A v \in Users : v # u => user'[v] = user[v]
  BY <1>1, <1>2
<1>6. settings' \in [Devices -> {"own", "raw", "relay"}] /\ overlap' \in BOOLEAN
      /\ \A e \in Devices : settings'[e] = "raw" => settings[e] = "raw" \/ e = d
  BY <1>2, <1>4 DEF IdIInv, IdTypeOK
<1>7. Orderly(u, r) /\ (u \notin moved => IsFresh(r))
  BY <1>1, <1>2, <1>3 DEF Orderly, IsFresh, Opened
<1>8. OneConsole'
  <2>1. \A v \in Terminals : Holds(v)' <=> Holds(v) \/ v = u
    BY <1>2, <1>3, <1>4, <1>5 DEF Holds, Users
  <2>2. \A v \in Terminals : user'[v].device = user[v].device
    BY <1>3, <1>5 DEF Users
  <2>3. \A v \in Terminals : v # u /\ Holds(v) => user[v].device # d
    BY <1>2, <1>4 DEF IdIInv, OneConsole, Holds
  <2>. QED BY <2>1, <2>2, <2>3 DEF IdIInv, OneConsole
<1>9. \A v \in Users : /\ user'[v].device = user[v].device /\ user'[v].saved = user[v].saved
                       /\ (user'[v].at \in Opened <=> user[v].at \in Opened)
                       /\ (user'[v].at \in {"lock", "raw", "held"} <=> user[v].at \in {"lock", "raw", "held"})
  BY <1>2, <1>3, <1>5 DEF Opened
<1>10. OneUser'
  BY <1>2, <1>9 DEF IdIInv, OneUser, Opened
<1>11. SettingsAreRestored'
  <2>1. \A v \in Terminals, e \in Devices : HasOpen(v, e)' <=> HasOpen(v, e)
    BY <1>9 DEF HasOpen, Opened, Users
  <2>2. Plugged' = Plugged /\ Plugged \subseteq Devices
    BY <1>2 DEF bus, Plugged
  <2>3. HasOpen(u, d)
    BY <1>2 DEF HasOpen
  <2>. QED BY <1>2, <1>4, <1>6, <2>1, <2>2, <2>3 DEF IdIInv, SettingsAreRestored
<1>. QED BY <1>2, <1>3, <1>6, <1>7, <1>8, <1>10, <1>11, UserStep

\* Whoever closes a device leaves it to the others, or as it was.
LEMMA ClosesKeeps == ASSUME IdIInv, NEW u \in Users, DoesNotLock(u) \/ Restores(u) \/ Switches(u) PROVE IdIInv'
<1>. DEFINE r == Resting(user[u].key)
            d == user[u].device
<1>1. user \in [Users -> UserStates] /\ user[u] \in UserStates /\ Orderly(u, user[u])
  BY UsersTyped DEF IdIInv, UsersAreOrderly
<1>2. user' = [user EXCEPT ![u] = r] /\ UNCHANGED <<bus, moved, overlap>> /\ user[u].at \in Opened
      /\ (Restores(u) => user[u].at \in {"raw", "held"} /\ settings' = [settings EXCEPT ![d] = user[u].saved])
      /\ (~Restores(u) => settings' = settings)
      /\ (DoesNotLock(u) => user[u].at = "lock" /\ \E v \in Terminals : Holds(v) /\ user[v].device = d)
      /\ (Switches(u) => user[u].at = "write")
  BY DEF DoesNotLock, Restores, Switches, Rest, Holds, Opened
<1>3. user[u].key \in Keys /\ d \in Devices
  BY <1>1, <1>2 DEF Orderly, Opened
<1>4. r \in UserStates /\ r.at = "idle" /\ Orderly(u, r) /\ IsFresh(r)
  BY <1>3, AtRest
<1>. HIDE DEF r
<1>5. user'[u] = r /\ \A v \in Users : v # u => user'[v] = user[v]
  BY <1>1, <1>2
<1>6. settings' \in [Devices -> {"own", "raw", "relay"}] /\ overlap' \in BOOLEAN
  BY <1>1, <1>2, <1>3 DEF IdIInv, IdTypeOK, UserStates
<1>7. OneConsole'
  <2>1. \A v \in Terminals : Holds(v)' => Holds(v) /\ user'[v] = user[v]
    BY <1>4, <1>5 DEF Holds, Users
  <2>. QED BY <2>1 DEF IdIInv, OneConsole
<1>8. OneUser'
  <2>1. \A v \in Users : user'[v].at \in Opened => user'[v] = user[v]
    BY <1>4, <1>5 DEF Opened
  <2>. QED BY <1>2, <2>1 DEF IdIInv, OneUser, Opened
<1>9. SettingsAreRestored'
  <2>1. Plugged' = Plugged /\ Plugged \subseteq Devices
    BY <1>2 DEF bus, Plugged
  <2>2. \A v \in Terminals, e \in Devices : v # u /\ HasOpen(v, e) => HasOpen(v, e)'
    BY <1>5 DEF HasOpen, Users
  <2>. SUFFICES ASSUME ~overlap, NEW e \in Plugged, settings'[e] = "raw" PROVE \E v \in Terminals : HasOpen(v, e)'
    BY <1>2, <2>1 DEF SettingsAreRestored
  <2>3. CASE Restores(u)
    <3>1. user[u].saved # "raw"
      BY <1>2, <2>3 DEF IdIInv, OneUser
    <3>2. e # d /\ settings[e] = "raw"
      BY <1>2, <1>3, <2>1, <2>3, <3>1 DEF IdIInv, IdTypeOK
    <3>3. PICK v \in Terminals : HasOpen(v, e)
      BY <3>2 DEF IdIInv, SettingsAreRestored
    <3>4. v # u
      BY <3>2, <3>3 DEF HasOpen
    <3>. QED BY <2>1, <2>2, <3>3, <3>4
  <2>4. CASE ~Restores(u)
    <3>1. PICK v \in Terminals : HasOpen(v, e)
      BY <1>2, <2>4 DEF IdIInv, SettingsAreRestored
    <3>2. v # u
      <4>1. CASE Switches(u)
        BY <1>1, <1>2, <4>1, SerialIdentityAssumption DEF Orderly
      <4>2. CASE DoesNotLock(u)
        <5>1. PICK w \in Terminals : Holds(w) /\ user[w].device = d
          BY <1>2, <4>2
        <5>2. w = u
          BY <1>2, <5>1 DEF IdIInv, OneUser, Holds, Opened, Users
        <5>. QED BY <1>2, <4>2, <5>1, <5>2 DEF Holds
      <4>. QED BY <2>4, <4>1, <4>2
    <3>. QED BY <2>1, <2>2, <3>1, <3>2
  <2>. QED BY <2>3, <2>4
<1>. QED BY <1>2, <1>4, <1>6, <1>7, <1>8, <1>9, UserStep
-----------------------------------------------------------------------------
(***************************************************************************)
(* The bus                                                                 *)
(***************************************************************************)
\* Who searches while something is plugged has moved; the others rest, and read what is there by then.
LEMMA PlugStep ==
  ASSUME IdIInv, Disturbed, UNCHANGED <<number, told, user, overlap>>, IdTypeOK', BusIsOrderly',
         \A d \in Plugged' : settings'[d] = "raw" => d \in Plugged /\ settings[d] = "raw"
  PROVE  IdIInv'
<1>1. UsersAreOrderly' /\ OneConsole' /\ OneUser'
  BY DEF IdIInv, UsersAreOrderly, Orderly, OneConsole, Holds, OneUser
<1>2. SearchesAreFresh'
  <2>1. \A u \in Users \ moved' : user'[u].at = "idle"
    BY DEF Disturbed
  <2>. QED BY <2>1 DEF SearchesAreFresh, IsFresh, Opened
<1>3. SettingsAreRestored'
  BY DEF IdIInv, SettingsAreRestored, HasOpen
<1>. QED BY <1>1, <1>2, <1>3 DEF IdIInv

LEMMA PlugInKeeps ==
  ASSUME IdIInv, NEW d \in Devices, NEW s \in Sockets, NEW n \in Names, PlugIn(d, s, n) PROVE IdIInv'
<1>1. /\ place \in [Devices -> Sockets \cup {Absent}] /\ name \in [Devices -> Names \cup {Absent}]
      /\ number \in [Devices -> Numbers \cup {Absent}] /\ idLink \in [Numbers \cup {Absent} -> Devices \cup {Absent}]
      /\ settings \in [Devices -> {"own", "raw", "relay"}] /\ moved \subseteq Users /\ plugs \in 0..MaxPlugs
  BY DEF IdIInv, IdTypeOK
<1>2. /\ place' = [place EXCEPT ![d] = s] /\ name' = [name EXCEPT ![d] = n] /\ name[d] = Absent
      /\ idLink' = [idLink EXCEPT ![number[d]] = d] /\ settings' = [settings EXCEPT ![d] = "own"]
      /\ plugs < MaxPlugs /\ plugs' = plugs + 1
      /\ Disturbed /\ UNCHANGED <<number, told, user, overlap>>
      /\ \A e \in Plugged : place[e] # s /\ name[e] # n
  BY DEF PlugIn
<1>3. s # Absent /\ n # Absent /\ MaxPlugs \in Nat
  BY SerialIdentityAssumption
<1>4. \A e \in Devices : /\ name'[e] = IF e = d THEN n ELSE name[e]
                         /\ place'[e] = IF e = d THEN s ELSE place[e]
                         /\ settings'[e] = IF e = d THEN "own" ELSE settings[e]
  BY <1>1, <1>2
<1>5. Plugged' = Plugged \cup {d}
  BY <1>3, <1>4 DEF Plugged
<1>6. IdTypeOK'
  <2>1. place' \in [Devices -> Sockets \cup {Absent}] /\ name' \in [Devices -> Names \cup {Absent}]
        /\ settings' \in [Devices -> {"own", "raw", "relay"}]
    BY <1>1, <1>2
  <2>2. idLink' \in [Numbers \cup {Absent} -> Devices \cup {Absent}]
    BY <1>1, <1>2
  <2>3. plugs' \in 0..MaxPlugs /\ moved' \subseteq Users
    BY <1>1, <1>2, <1>3 DEF Disturbed
  <2>. QED BY <1>2, <2>1, <2>2, <2>3 DEF IdIInv, IdTypeOK
<1>7. BusIsOrderly'
  <2>1. \A e \in Devices : name'[e] # Absent <=> place'[e] # Absent
    BY <1>3, <1>4 DEF IdIInv, BusIsOrderly
  <2>2. \A e, f \in Plugged' : name'[e] = name'[f] \/ place'[e] = place'[f] => e = f
    BY <1>2, <1>4, <1>5 DEF IdIInv, BusIsOrderly, Plugged
  <2>. QED BY <2>1, <2>2 DEF BusIsOrderly
<1>8. \A e \in Plugged' : settings'[e] = "raw" => e \in Plugged /\ settings[e] = "raw"
  BY <1>4, <1>5 DEF Plugged
<1>. QED BY <1>2, <1>6, <1>7, <1>8, PlugStep

LEMMA PlugOutKeeps == ASSUME IdIInv, NEW d \in Devices, PlugOut(d) PROVE IdIInv'
<1>. DEFINE alike == {e \in Plugged \ {d} : number[e] = number[d]}
            next == IF alike = {} THEN Absent ELSE CHOOSE e \in alike : TRUE
<1>1. /\ place \in [Devices -> Sockets \cup {Absent}] /\ name \in [Devices -> Names \cup {Absent}]
      /\ idLink \in [Numbers \cup {Absent} -> Devices \cup {Absent}]
      /\ moved \subseteq Users /\ plugs \in 0..MaxPlugs
  BY DEF IdIInv, IdTypeOK
<1>2. /\ place' = [place EXCEPT ![d] = Absent] /\ name' = [name EXCEPT ![d] = Absent]
      /\ idLink' = IF idLink[number[d]] # d THEN idLink ELSE [idLink EXCEPT ![number[d]] = next]
      /\ plugs < MaxPlugs /\ plugs' = plugs + 1
      /\ Disturbed /\ UNCHANGED <<number, told, user, settings, overlap>>
  BY DEF PlugOut
<1>3. next \in Devices \cup {Absent}
  BY DEF Plugged
<1>. HIDE DEF next
<1>4. \A e \in Devices : /\ name'[e] = IF e = d THEN Absent ELSE name[e]
                         /\ place'[e] = IF e = d THEN Absent ELSE place[e]
  BY <1>1, <1>2
<1>5. Plugged' = Plugged \ {d}
  BY <1>4 DEF Plugged
<1>6. IdTypeOK'
  <2>1. place' \in [Devices -> Sockets \cup {Absent}] /\ name' \in [Devices -> Names \cup {Absent}]
    BY <1>1, <1>2
  <2>2. idLink' \in [Numbers \cup {Absent} -> Devices \cup {Absent}]
    BY <1>1, <1>2, <1>3
  <2>3. plugs' \in 0..MaxPlugs /\ moved' \subseteq Users
    BY <1>1, <1>2, SerialIdentityAssumption DEF Disturbed
  <2>. QED BY <1>2, <2>1, <2>2, <2>3 DEF IdIInv, IdTypeOK
<1>7. BusIsOrderly'
  <2>1. \A e \in Devices : name'[e] # Absent <=> place'[e] # Absent
    BY <1>4 DEF IdIInv, BusIsOrderly
  <2>2. \A e, f \in Plugged' : name'[e] = name'[f] \/ place'[e] = place'[f] => e = f
    BY <1>4, <1>5 DEF IdIInv, BusIsOrderly, Plugged
  <2>. QED BY <2>1, <2>2 DEF BusIsOrderly
<1>8. \A e \in Plugged' : settings'[e] = "raw" => e \in Plugged /\ settings[e] = "raw"
  BY <1>2, <1>5
<1>. QED BY <1>2, <1>6, <1>7, <1>8, PlugStep

-----------------------------------------------------------------------------
LEMMA IdInitIInv == IdInit => IdIInv
<1>. SUFFICES ASSUME IdInit PROVE IdIInv
  OBVIOUS
<1>1. PICK wish \in Wishes : user = [u \in Users |-> Resting(wish[u])]
  BY DEF IdInit
<1>2. wish \in [Users -> Keys \cup {Absent}]
  BY SerialIdentityAssumption
<1>3. \A u \in Users : user[u] \in UserStates /\ user[u].at = "idle" /\ Orderly(u, user[u]) /\ IsFresh(user[u])
  BY <1>1, <1>2, AtRest
<1>4. number \in [Devices -> Numbers \cup {Absent}] /\ told \in [Devices -> BOOLEAN]
  <2>1. PICK fleet \in Fleets : number = fleet.number /\ told = fleet.told
    BY DEF IdInit
  <2>. QED BY <2>1, SerialIdentityAssumption
<1>5. IdTypeOK
  <2>1. user \in [Users -> UserStates]
    BY <1>1, <1>3
  <2>2. place \in [Devices -> Sockets \cup {Absent}] /\ name \in [Devices -> Names \cup {Absent}]
    BY DEF IdInit
  <2>3. idLink \in [Numbers \cup {Absent} -> Devices \cup {Absent}] /\ settings \in [Devices -> {"own", "raw", "relay"}]
    BY DEF IdInit
  <2>4. MaxPlugs \in Nat
    BY SerialIdentityAssumption
  <2>5. plugs \in 0..MaxPlugs
    BY <2>4 DEF IdInit
  <2>6. moved \subseteq Users /\ overlap \in BOOLEAN
    BY DEF IdInit
  <2>. QED BY <1>4, <2>1, <2>2, <2>3, <2>5, <2>6 DEF IdTypeOK
<1>6. BusIsOrderly /\ Plugged = {}
  BY DEF IdInit, BusIsOrderly, Plugged
<1>7. UsersAreOrderly /\ SearchesAreFresh
  BY <1>3 DEF UsersAreOrderly, SearchesAreFresh
<1>8. OneConsole /\ OneUser
  BY <1>3 DEF OneConsole, Holds, OneUser, Opened, Users
<1>9. SettingsAreRestored
  BY <1>6 DEF SettingsAreRestored
<1>. QED BY <1>5, <1>6, <1>7, <1>8, <1>9 DEF IdIInv

LEMMA IdNextIInv == IdIInv /\ [IdNext]_idVars => IdIInv'
<1>. SUFFICES ASSUME IdIInv, [IdNext]_idVars PROVE IdIInv'
  OBVIOUS
<1>1. ASSUME NEW d \in Devices, PlugOut(d) PROVE IdIInv'
  BY <1>1, PlugOutKeeps
<1>2. ASSUME NEW d \in Devices, NEW s \in Sockets, NEW n \in Names, PlugIn(d, s, n) PROVE IdIInv'
  BY <1>2, PlugInKeeps
<1>3. ASSUME NEW u \in Users, ListsUsb(u) \/ ReadsLinks(u) \/ Finds(u) \/ DoesNotFind(u) \/ NameIsGone(u) PROVE IdIInv'
  BY <1>3, ListsUsbKeeps, ReadsLinksKeeps, FindsKeeps, NotFoundKeeps
<1>4. ASSUME NEW u \in Users, Opens(u) \/ Locks(u) \/ GoesRaw(u) \/ DoesNotLock(u) \/ Restores(u) \/ Switches(u) PROVE IdIInv'
  BY <1>4, OpensKeeps, LocksKeeps, ClosesKeeps
<1>5. CASE UNCHANGED idVars
  <2>1. IdTypeOK' /\ BusIsOrderly' /\ UsersAreOrderly' /\ OneConsole'
    BY <1>5 DEF idVars, IdIInv, IdTypeOK, BusIsOrderly, Plugged, UsersAreOrderly, Orderly, OneConsole, Holds
  <2>2. SearchesAreFresh'
    <3>1. ASSUME NEW u \in Users \ moved' PROVE IsFresh(user'[u])
      BY <1>5 DEF idVars, IdIInv, SearchesAreFresh
    <3>2. ASSUME NEW u \in Users \ moved' PROVE IsFresh(user[u])'
      BY <1>5, <3>1 DEF idVars, IsFresh, Named, ToldByOne, Plugged
    <3>. QED BY <3>2 DEF SearchesAreFresh
  <2>3. OneUser' /\ SettingsAreRestored'
    BY <1>5 DEF idVars, IdIInv, OneUser, SettingsAreRestored, HasOpen, Plugged
  <2>. QED BY <2>1, <2>2, <2>3 DEF IdIInv
<1>. QED BY <1>1, <1>2, <1>3, <1>4, <1>5 DEF IdNext

LEMMA IdIInvImplies == IdIInv => IdentityInv
<1>. SUFFICES ASSUME IdIInv PROVE OpensTheRightDevice /\ RefusesAmbiguity
  BY DEF IdIInv, IdentityInv
<1>1. ASSUME NEW u \in Users \ moved, NEW d \in Devices, HasOpen(u, d)
      PROVE  user[u].key \in Keys /\ Named(user[u].key, d) /\ (user[u].key.kind = "number" => ToldByOne(user[u].key))
  <2>1. user[u].at \in Opened /\ user[u].device = d
    BY <1>1 DEF HasOpen, Opened
  <2>2. Orderly(u, user[u]) /\ IsFresh(user[u])
    BY DEF IdIInv, UsersAreOrderly, SearchesAreFresh
  <2>. QED BY <2>1, <2>2 DEF Orderly, IsFresh, Opened
<1>2. OpensTheRightDevice
  BY <1>1 DEF OpensTheRightDevice
<1>3. RefusesAmbiguity
  <2>. SUFFICES ASSUME NEW u \in Users \ moved, NEW d \in Devices, NEW e \in Devices, HasOpen(u, d),
                       Named(user[u].key, d), Named(user[u].key, e), told[d], told[e]
                PROVE  d = e
    BY DEF RefusesAmbiguity
  <2>. DEFINE key == user[u].key
  <2>1. key \in Keys /\ (key.kind = "number" => ToldByOne(key)) /\ d \in Plugged /\ e \in Plugged
    BY <1>1 DEF Named, Plugged
  <2>2. CASE key.kind = "number"
    BY <2>1, <2>2 DEF ToldByOne, Named
  <2>3. CASE key.kind = "path"
    BY <2>1, <2>3 DEF Named, IdIInv, BusIsOrderly
  <2>4. CASE key.kind = "id"
    BY <2>4 DEF Named
  <2>. QED BY <2>1, <2>2, <2>3, <2>4, KindOfKey
<1>. QED BY <1>2, <1>3

\* serial/discovery.rs, native.rs: whatever is plugged, unless it is plugged during the search a key opens a
\* device that it names; the device has one console, which leaves the settings as it has found them.
THEOREM IdentityIsSound == IdSpec => []IdentityInv
<1>1. IdSpec => []IdIInv
  BY IdInitIInv, IdNextIInv, PTL DEF IdSpec
<1>. QED BY <1>1, IdIInvImplies, PTL
=============================================================================
