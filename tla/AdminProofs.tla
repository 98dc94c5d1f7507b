---------------------------- MODULE AdminProofs ----------------------------
(***************************************************************************)
(* What the administration shows.  RegistryInv holds for any number of     *)
(* loaders, MAC addresses and offers and for any three time limits that    *)
(* the server could be built with: a registration is current only while    *)
(* nothing has replaced it, and no poll or report is accepted while a      *)
(* replaced one is heard of.  EventsInv holds for any number of browsers,  *)
(* changes and failures and any length of the history.                     *)
(***************************************************************************)
EXTENDS LoaderRegistry, AdminEvents, FiniteSetTheorems, SequenceTheorems, WellFoundedInduction, TLAPS

(***************************************************************************)
(* LoaderRegistry.                                                         *)
(***************************************************************************)
\* What the requests change and what the invariants read.
Records == TypeOK /\ CurrentIsLatest /\ OffersAreOwned /\ StaleIsKnown

\* Pruning keeps the types, and forgets nothing but whole entries and conflicts.
LEMMA PruningIsTyped ==
  ASSUME TypeOK
  PROVE  /\ Kept \in [Ids -> Registration \cup {None}] /\ Pruned \in [Macs -> DeviceRecord \cup {None}]
         /\ \A i \in Ids : Kept[i] # None => Kept[i] = registrations[i] /\ registrations[i] # None
         /\ \A m \in Macs : Pruned[m] # None =>
              /\ devices[m] # None /\ Pruned[m].current = devices[m].current /\ Pruned[m].ip = devices[m].ip
              /\ Pruned[m].seen = devices[m].seen
              /\ has_live_superseded_report(Kept, m) => Pruned[m].conflict
<1>1. None \notin Registration /\ None \notin DeviceRecord
  BY RegistryAssumption DEF Registration, DeviceRecord
<1>2. Kept \in [Ids -> Registration \cup {None}]
  BY DEF TypeOK, Kept
<1>3. \A i \in Ids : Kept[i] # None => Kept[i] = registrations[i] /\ registrations[i] # None
  BY DEF Kept
<1>4. ASSUME NEW m \in Macs, Pruned[m] # None
      PROVE  /\ Pruned[m] \in DeviceRecord
             /\ devices[m] # None /\ Pruned[m].current = devices[m].current /\ Pruned[m].ip = devices[m].ip
             /\ Pruned[m].seen = devices[m].seen
             /\ has_live_superseded_report(Kept, m) => Pruned[m].conflict
  <2> DEFINE conflict == V5Conflict(devices[m]) \/ has_live_superseded_report(Kept, m)
  <2>1. devices[m] \in DeviceRecord /\ Pruned[m] = [devices[m] EXCEPT !.conflict = conflict]
    BY <1>4 DEF Pruned, TypeOK
  <2>2. conflict \in BOOLEAN
    BY DEF V5Conflict, has_live_superseded_report
  <2>3. conflict <=> V5Conflict(devices[m]) \/ has_live_superseded_report(Kept, m)
    OBVIOUS
  <2> HIDE DEF conflict
  <2>. QED BY <1>1, <2>1, <2>2, <2>3 DEF DeviceRecord
<1>5. Pruned \in [Macs -> DeviceRecord \cup {None}]
  BY <1>4 DEF Pruned
<1>. QED BY <1>2, <1>3, <1>4, <1>5

\* A replaced registration that is still counted is not forgotten.
LEMMA StaleIsKept ==
  ASSUME Records, NEW m \in Macs, stale[m] <= OnlineTtl
  PROVE  /\ has_live_superseded_report(Kept, m)
         /\ \E i \in Known(Kept) :
              /\ Kept[i].mac = m /\ Kept[i].superseded = "again" /\ Kept[i].seen # None
              /\ Kept[i].seen <= stale[m]
<1>1. PICK i \in Known(registrations) :
        /\ registrations[i].mac = m /\ registrations[i].superseded = "again"
        /\ registrations[i].seen # None /\ registrations[i].seen <= stale[m]
  BY DEF Records, StaleIsKnown
<1>2. i \in Ids /\ registrations[i] \in Registration /\ stale[m] \in Ages
  BY <1>1 DEF Known, Records, TypeOK
<1>3. registrations[i].seen \in Ages /\ OnlineTtl \in Nat /\ Retention \in Nat /\ OnlineTtl <= Retention
  BY <1>1, <1>2, RegistryAssumption DEF Registration
<1>4. registrations[i].seen <= OnlineTtl /\ registrations[i].seen <= Retention
  BY <1>1, <1>2, <1>3 DEF Ages
<1>5. Kept[i] = registrations[i] /\ i \in Known(Kept)
  BY <1>1, <1>2, <1>4 DEF Kept, KeepRegistration, Known
<1>. QED BY <1>1, <1>4, <1>5 DEF has_live_superseded_report

\* Pruning alone keeps everything.
LEMMA PruningKeeps ==
  ASSUME Records, registrations' = Kept, devices' = Pruned, UNCHANGED <<stale, offers, holder>>
  PROVE  /\ registrations' \in [Ids -> Registration \cup {None}] /\ devices' \in [Macs -> DeviceRecord \cup {None}]
         /\ CurrentIsLatest' /\ OffersAreOwned' /\ StaleIsKnown'
<1>1. TypeOK
  BY DEF Records
<1>2. CurrentIsLatest'
  BY <1>1, PruningIsTyped DEF Records, CurrentIsLatest, Present, Known
<1>3. OffersAreOwned'
  BY <1>1, PruningIsTyped DEF Records, OffersAreOwned
<1>4. StaleIsKnown'
  BY StaleIsKept DEF StaleIsKnown, Known
<1>. QED BY <1>1, <1>2, <1>3, <1>4, PruningIsTyped

-----------------------------------------------------------------------------
(***************************************************************************)
(* Registrations.                                                          *)
(***************************************************************************)
\* An offer takes a new id.
LEMMA OfferStep ==
  ASSUME Records, NEW l \in Loaders, Offer(l)
  PROVE  RegistryInv'
<1>1. TypeOK /\ MacOf[l] \in Macs /\ offers \in 0..MaxOffers /\ MaxOffers \in Nat
  BY RegistryAssumption DEF Records, TypeOK
<1> DEFINE n == offers + 1
<1>2. n \in Ids /\ registrations[n] = None /\ holder[n] = None /\ offers' = n
  BY <1>1 DEF Offer, Ids, Records, OffersAreOwned
<1>3. PICK x \in {l, None} : holder' = [holder EXCEPT ![n] = x]
  BY DEF Offer
<1> DEFINE r == [mac |-> MacOf[l], issued |-> 0, seen |-> None, superseded |-> "no"]
<1>4. r \in Registration /\ r # None
  BY <1>1, RegistryAssumption DEF Registration, Ages, r
<1>5. registrations' = [Kept EXCEPT ![n] = r] /\ devices' = Pruned /\ stale' = stale /\ accepted' = {}
  BY DEF Offer
<1>6. r.mac = MacOf[l] /\ r.superseded = "no"
  OBVIOUS
<1> HIDE DEF n, r
<1>7. TypeOK'
  <2>1. registrations' \in [Ids -> Registration \cup {None}] /\ devices' \in [Macs -> DeviceRecord \cup {None}]
    BY <1>1, <1>4, <1>5, PruningIsTyped
  <2>2. holder' \in [Ids -> Loaders \cup {None}] /\ offers' \in 0..MaxOffers
    BY <1>1, <1>2, <1>3 DEF TypeOK, Ids
  <2>. QED BY <1>1, <1>5, <2>1, <2>2 DEF Offer, taskVars, TypeOK
<1>8. CurrentIsLatest'
  <2>. SUFFICES ASSUME NEW m \in Present(Pruned), Pruned[m].current \in Ids
                PROVE  /\ holder'[Pruned[m].current] # None /\ MacOf[holder'[Pruned[m].current]] = m
                       /\ registrations'[Pruned[m].current] # None
                            => registrations'[Pruned[m].current].superseded = "no"
    BY <1>1, <1>5, PruningIsTyped DEF Records, CurrentIsLatest, Present, Known
  <2>1. m \in Macs /\ Pruned[m] # None /\ devices[m] # None /\ Pruned[m].current = devices[m].current
    BY <1>1, PruningIsTyped DEF Present
  <2>2. /\ holder[Pruned[m].current] # None /\ MacOf[holder[Pruned[m].current]] = m
        /\ registrations[Pruned[m].current] # None => registrations[Pruned[m].current].superseded = "no"
    BY <2>1 DEF Records, CurrentIsLatest, Present, Known
  <2>3. Pruned[m].current # n
    BY <1>2, <2>2
  <2>. QED BY <1>1, <1>2, <1>3, <1>5, <2>2, <2>3, PruningIsTyped DEF TypeOK
<1>9. OffersAreOwned'
  <2>. SUFFICES ASSUME NEW i \in Ids
                PROVE  /\ i > n => registrations'[i] = None /\ holder'[i] = None
                       /\ registrations'[i] # None /\ holder'[i] # None => registrations'[i].mac = MacOf[holder'[i]]
    BY <1>2 DEF OffersAreOwned
  <2>1. CASE i = n
    BY <1>1, <1>2, <1>3, <1>4, <1>5, <1>6, <2>1, PruningIsTyped DEF TypeOK, n
  <2>2. CASE i # n
    <3>1. registrations'[i] = Kept[i] /\ holder'[i] = holder[i]
      BY <1>1, <1>2, <1>3, <1>5, <2>2, PruningIsTyped DEF TypeOK
    <3>2. i > n => i > offers
      BY <1>1 DEF n, Ids
    <3>. QED BY <1>1, <3>1, <3>2, PruningIsTyped DEF Records, OffersAreOwned
  <2>. QED BY <2>1, <2>2
<1>10. StaleIsKnown'
  <2>. SUFFICES ASSUME NEW m \in Macs, stale[m] <= OnlineTtl
                PROVE  \E i \in Known(registrations') :
                         /\ registrations'[i].mac = m /\ registrations'[i].superseded = "again"
                         /\ registrations'[i].seen # None /\ registrations'[i].seen <= stale[m]
    BY <1>5 DEF StaleIsKnown, Known
  <2>1. PICK i \in Known(Kept) : /\ Kept[i].mac = m /\ Kept[i].superseded = "again" /\ Kept[i].seen # None
                                 /\ Kept[i].seen <= stale[m]
    BY StaleIsKept
  <2>2. i \in Ids /\ i # n /\ registrations'[i] = Kept[i] /\ Kept[i] # None
    BY <1>1, <1>2, <1>5, <2>1, PruningIsTyped DEF Known
  <2>. QED BY <2>1, <2>2 DEF Known
<1>. QED BY <1>5, <1>7, <1>8, <1>9, <1>10 DEF RegistryInv, AcceptedIsAlone

\* A registration is current for one MAC at most: that of the machine that holds it.
LEMMA CurrentIsOwned ==
  ASSUME Records, NEW m \in Macs, Pruned[m] # None, Pruned[m].current \in Ids
  PROVE  /\ holder[Pruned[m].current] # None /\ MacOf[holder[Pruned[m].current]] = m
         /\ Kept[Pruned[m].current] # None => Kept[Pruned[m].current].superseded = "no"
<1>1. devices[m] # None /\ Pruned[m].current = devices[m].current
  BY PruningIsTyped DEF Records
<1>. QED BY <1>1, PruningIsTyped DEF Records, CurrentIsLatest, Present, Known

\* A registration that is not current is heard of and both loaders are refused.
LEMMA ConflictStep ==
  ASSUME Records, NEW i \in Ids, NEW mac \in Macs, NEW mark \in {"yes", "again"},
         Kept[i] # None, Kept[i].mac = mac, UNCHANGED <<offers, holder>>,
         Conflicting([Kept EXCEPT ![i].seen = 0, ![i].superseded = mark], mac),
         \A m \in Macs : Pruned[m] # None => Pruned[m].current # i,
         \/ mark = "again" /\ stale' = [stale EXCEPT ![mac] = 0]
         \/ Kept[i].superseded = "no" /\ UNCHANGED stale
  PROVE  /\ registrations' \in [Ids -> Registration \cup {None}] /\ devices' \in [Macs -> DeviceRecord \cup {None}]
         /\ stale' \in [Macs -> Ages]
         /\ CurrentIsLatest' /\ OffersAreOwned' /\ StaleIsKnown' /\ AcceptedIsAlone'
<1>1. TypeOK /\ 0 \in Ages /\ None \notin Registration /\ None \notin DeviceRecord /\ None \notin Int
  BY RegistryAssumption DEF Records, Ages
<1> DEFINE r == [Kept[i] EXCEPT !.seen = 0, !.superseded = mark]
<1>2. Kept[i] \in Registration
  BY <1>1, PruningIsTyped
<1>3. r \in Registration /\ r # None /\ r.mac = mac /\ r.seen = 0 /\ r.superseded = mark
  BY <1>1, <1>2 DEF Registration
<1>4. registrations' = [Kept EXCEPT ![i] = r] /\ accepted' = {}
  BY <1>1, PruningIsTyped DEF Conflicting
<1> HIDE DEF r
<1>5. /\ registrations' \in [Ids -> Registration \cup {None}] /\ registrations'[i] = r
      /\ \A j \in Ids : j # i => registrations'[j] = Kept[j]
  BY <1>1, <1>3, <1>4, PruningIsTyped
<1>6. /\ devices' \in [Macs -> DeviceRecord \cup {None}]
      /\ \A m \in Macs : devices'[m] # None => Pruned[m] # None /\ devices'[m].current = Pruned[m].current
  <2>1. devices' = [Pruned EXCEPT ![mac] = IF @ = None THEN None ELSE [@ EXCEPT !.conflict = TRUE]]
    BY DEF Conflicting
  <2>2. Pruned[mac] # None => /\ [Pruned[mac] EXCEPT !.conflict = TRUE] \in DeviceRecord
                              /\ [Pruned[mac] EXCEPT !.conflict = TRUE].current = Pruned[mac].current
    <3>1. Pruned[mac] # None => Pruned[mac] \in DeviceRecord
      BY <1>1, PruningIsTyped
    <3>. QED BY <3>1 DEF DeviceRecord
  <2>3. \A m \in Macs : m # mac => devices'[m] = Pruned[m]
    BY <1>1, <2>1, PruningIsTyped
  <2>4. devices'[mac] = IF Pruned[mac] = None THEN None ELSE [Pruned[mac] EXCEPT !.conflict = TRUE]
    BY <1>1, <2>1, PruningIsTyped
  <2>5. devices' \in [Macs -> DeviceRecord \cup {None}]
    BY <1>1, <2>1, <2>2, PruningIsTyped
  <2>. QED BY <2>2, <2>3, <2>4, <2>5
<1>7. stale' \in [Macs -> Ages]
  BY <1>1 DEF TypeOK
<1>8. CurrentIsLatest'
  <2>. SUFFICES ASSUME NEW m \in Macs, devices'[m] # None
                PROVE  LET c == devices'[m].current
                       IN IF c \in Ids THEN /\ holder[c] # None /\ MacOf[holder[c]] = m
                                            /\ registrations'[c] # None => registrations'[c].superseded = "no"
                          ELSE c \in Announcing /\ MacOf[c] = m
    BY DEF CurrentIsLatest, Present, Known
  <2>1. Pruned[m] # None /\ devices'[m].current = Pruned[m].current /\ Pruned[m].current # i
    BY <1>6
  <2>2. CASE Pruned[m].current \in Ids
    BY <1>5, <2>1, <2>2, CurrentIsOwned
  <2>3. CASE Pruned[m].current \notin Ids
    BY <1>1, <2>1, <2>3, PruningIsTyped DEF Records, CurrentIsLatest, Present
  <2>. QED BY <2>1, <2>2, <2>3
<1>9. OffersAreOwned'
  BY <1>1, <1>3, <1>5, PruningIsTyped DEF Records, OffersAreOwned
<1>10. StaleIsKnown'
  <2>. SUFFICES ASSUME NEW m \in Macs, stale'[m] <= OnlineTtl
                PROVE  \E j \in Ids :
                         /\ registrations'[j] # None
                         /\ registrations'[j].mac = m /\ registrations'[j].superseded = "again"
                         /\ registrations'[j].seen # None /\ registrations'[j].seen <= stale'[m]
    BY DEF StaleIsKnown, Known
  <2>1. CASE m = mac /\ mark = "again" /\ stale' = [stale EXCEPT ![mac] = 0]
    BY <1>1, <1>3, <1>5, <2>1 DEF TypeOK
  <2>2. CASE stale'[m] = stale[m] /\ (m # mac \/ Kept[i].superseded = "no")
    <3>1. PICK j \in Known(Kept) : /\ Kept[j].mac = m /\ Kept[j].superseded = "again" /\ Kept[j].seen # None
                                   /\ Kept[j].seen <= stale[m]
      BY <2>2, StaleIsKept
    <3>2. j # i
      BY <2>2, <3>1
    <3>. QED BY <1>5, <2>2, <3>1, <3>2 DEF Known
  <2>3. \/ m = mac /\ mark = "again" /\ stale' = [stale EXCEPT ![mac] = 0]
        \/ stale'[m] = stale[m] /\ (m # mac \/ Kept[i].superseded = "no")
    BY <1>1 DEF TypeOK
  <2>. QED BY <2>1, <2>2, <2>3
<1>. QED BY <1>4, <1>5, <1>6, <1>7, <1>8, <1>9, <1>10 DEF AcceptedIsAlone

\* A registration becomes the current one; the one it replaces is refused from now on.
LEMMA TakenStep ==
  ASSUME Records, NEW l \in Loaders, NEW i \in Ids, holder[i] = l, Kept[i] # None, Kept[i].superseded = "no",
         Taken(i, MacOf[l], l), UNCHANGED <<offers, holder>>
  PROVE  /\ registrations' \in [Ids -> Registration \cup {None}] /\ devices' \in [Macs -> DeviceRecord \cup {None}]
         /\ stale' \in [Macs -> Ages] /\ accepted' \subseteq Macs
         /\ CurrentIsLatest' /\ OffersAreOwned' /\ StaleIsKnown' /\ AcceptedIsAlone'
<1> DEFINE mac == MacOf[l]
<1>1. /\ TypeOK /\ mac \in Macs /\ 0 \in Ages /\ None \notin Registration /\ None \notin DeviceRecord
      /\ None \notin Int /\ None \notin Loaders
  BY RegistryAssumption DEF Records, Ages
<1>2. Kept[i].mac = mac
  BY <1>1, PruningIsTyped DEF Records, OffersAreOwned
<1> DEFINE rs == [x \in Ids |->
               IF x = i THEN [Kept[x] EXCEPT !.seen = 0]
               ELSE IF Kept[x] # None /\ Pruned[mac] # None /\ Pruned[mac].current = x
                 THEN [Kept[x] EXCEPT !.superseded = "yes"]
               ELSE Kept[x]]
           conflict == has_live_superseded_report(rs, mac)
           d == [ip |-> l, seen |-> 0, current |-> i, conflict |-> conflict]
<1>3. /\ registrations' = rs /\ devices' = [Pruned EXCEPT ![mac] = d] /\ stale' = stale
      /\ accepted' = IF conflict THEN {} ELSE {mac}
  BY DEF Taken
<1>4. ASSUME NEW x \in Ids
      PROVE  /\ rs[x] \in Registration \cup {None} /\ (rs[x] = None <=> Kept[x] = None)
             /\ Kept[x] # None => rs[x].mac = Kept[x].mac
             /\ Kept[x] # None /\ Kept[x].superseded = "again" => rs[x] = Kept[x]
             /\ Kept[x] # None /\ x # i => (rs[x].superseded = Kept[x].superseded \/ Pruned[mac].current = x)
  <2>1. Kept[x] # None => Kept[x] \in Registration
    BY PruningIsTyped, <1>1
  <2>2. CASE x = i
    BY <1>1, <2>1, <2>2 DEF Registration
  <2>3. CASE x # i /\ Kept[x] # None /\ Pruned[mac] # None /\ Pruned[mac].current = x
    <3>1. Kept[x].superseded = "no"
      BY <1>1, <2>3, CurrentIsOwned
    <3>2. rs[x] = [Kept[x] EXCEPT !.superseded = "yes"]
      BY <2>3
    <3>. QED BY <1>1, <2>1, <2>3, <3>1, <3>2 DEF Registration
  <2>4. CASE x # i /\ ~(Kept[x] # None /\ Pruned[mac] # None /\ Pruned[mac].current = x)
    BY <1>1, <2>1, <2>4
  <2>. QED BY <2>2, <2>3, <2>4
<1>5. rs[i].superseded = "no"
  <2>1. Kept[i] \in Registration
    BY PruningIsTyped, <1>1
  <2>. QED BY <2>1 DEF Registration
<1>6. conflict \in BOOLEAN
  BY DEF has_live_superseded_report
<1>7. rs \in [Ids -> Registration \cup {None}]
  BY <1>4
<1>8. stale[mac] <= OnlineTtl => conflict
  <2>. SUFFICES ASSUME stale[mac] <= OnlineTtl  PROVE conflict
    OBVIOUS
  <2>1. PICK j \in Known(Kept) : Kept[j].mac = mac /\ Kept[j].superseded = "again" /\ Kept[j].seen <= OnlineTtl
    BY <1>1, StaleIsKept DEF has_live_superseded_report
  <2>2. j \in Ids /\ rs[j] = Kept[j] /\ rs[j] # None
    BY <1>4, <2>1 DEF Known
  <2> HIDE DEF rs
  <2>. QED BY <2>1, <2>2 DEF has_live_superseded_report, Known
<1>9. ASSUME NEW m \in Macs, stale[m] <= OnlineTtl
      PROVE  \E j \in Ids : /\ rs[j] # None /\ rs[j].mac = m /\ rs[j].superseded = "again"
                            /\ rs[j].seen # None /\ rs[j].seen <= stale[m]
  <2>1. PICK j \in Known(Kept) : /\ Kept[j].mac = m /\ Kept[j].superseded = "again" /\ Kept[j].seen # None
                                 /\ Kept[j].seen <= stale[m]
    BY <1>9, StaleIsKept
  <2>2. j \in Ids /\ rs[j] = Kept[j] /\ rs[j] # None
    BY <1>4, <2>1 DEF Known
  <2> HIDE DEF rs
  <2>. QED BY <2>1, <2>2
<1> HIDE DEF rs, conflict
<1>10. d \in DeviceRecord /\ d # None /\ d.current = i
  BY <1>1, <1>6 DEF DeviceRecord
<1> HIDE DEF d
<1>11. /\ devices' \in [Macs -> DeviceRecord \cup {None}] /\ devices'[mac] = d
       /\ \A m \in Macs : m # mac => devices'[m] = Pruned[m]
  BY <1>1, <1>3, <1>10, PruningIsTyped
<1>12. CurrentIsLatest'
  <2>. SUFFICES ASSUME NEW m \in Macs, devices'[m] # None
                PROVE  LET c == devices'[m].current
                       IN IF c \in Ids THEN /\ holder[c] # None /\ MacOf[holder[c]] = m
                                            /\ rs[c] # None => rs[c].superseded = "no"
                          ELSE c \in Announcing /\ MacOf[c] = m
    BY <1>3 DEF CurrentIsLatest, Present, Known
  <2>1. CASE m = mac
    BY <1>1, <1>5, <1>10, <1>11, <2>1
  <2>2. CASE m # mac
    <3>1. devices'[m] = Pruned[m] /\ Pruned[m] # None
      BY <1>11, <2>2
    <3>2. CASE Pruned[m].current \in Ids
      <4> DEFINE c == Pruned[m].current
      <4>1. /\ holder[c] # None /\ MacOf[holder[c]] = m
            /\ Kept[c] # None => Kept[c].superseded = "no"
        BY <3>1, <3>2, CurrentIsOwned
      <4>2. c # i
        BY <2>2, <4>1
      <4>3. Pruned[mac] # None /\ Pruned[mac].current = c => FALSE
        BY <1>1, <2>2, <3>2, <4>1, CurrentIsOwned
      <4>4. Kept[c] # None => rs[c].superseded = "no"
        <5>1. rs[c] = Kept[c]
          BY <3>2, <4>2, <4>3 DEF rs
        <5>. QED BY <4>1, <5>1
      <4>. QED BY <1>4, <3>1, <3>2, <4>1, <4>4
    <3>3. CASE Pruned[m].current \notin Ids
      BY <1>1, <3>1, <3>3, PruningIsTyped DEF Records, CurrentIsLatest, Present
    <3>. QED BY <3>1, <3>2, <3>3
  <2>. QED BY <2>1, <2>2
<1>13. OffersAreOwned'
  BY <1>1, <1>3, <1>4, PruningIsTyped DEF Records, OffersAreOwned
<1>14. StaleIsKnown'
  BY <1>3, <1>9 DEF StaleIsKnown, Known
<1>15. AcceptedIsAlone' /\ accepted' \subseteq Macs
  <2>1. stale[mac] \in Ages /\ OnlineTtl \in Nat
    BY <1>1, RegistryAssumption DEF TypeOK
  <2>. QED BY <1>1, <1>3, <1>8, <2>1 DEF AcceptedIsAlone, Ages
<1>16. stale' \in [Macs -> Ages]
  BY <1>1, <1>3 DEF TypeOK
<1>. QED BY <1>3, <1>7, <1>11, <1>12, <1>13, <1>14, <1>15, <1>16

\* What a request leaves alone.
Rest == <<reconciling, taskVars>>
LEMMA RestIsTyped ==
  ASSUME TypeOK, UNCHANGED <<offers, holder, Rest>>, invalidated' \in BOOLEAN, notified' \in BOOLEAN,
         registrations' \in [Ids -> Registration \cup {None}], devices' \in [Macs -> DeviceRecord \cup {None}],
         stale' \in [Macs -> Ages], accepted' \subseteq Macs
  PROVE  TypeOK'
  BY DEF TypeOK, Rest, taskVars

\* A replaced registration that is used again.
LEMMA SupersededStep ==
  ASSUME Records, NEW l \in Loaders, NEW i \in Ids, holder[i] = l, Kept[i] # None, Kept[i].superseded # "no",
         Superseded(i, MacOf[l]), UNCHANGED <<offers, holder>>
  PROVE  /\ registrations' \in [Ids -> Registration \cup {None}] /\ devices' \in [Macs -> DeviceRecord \cup {None}]
         /\ stale' \in [Macs -> Ages] /\ accepted' \subseteq Macs
         /\ CurrentIsLatest' /\ OffersAreOwned' /\ StaleIsKnown' /\ AcceptedIsAlone'
<1>1. MacOf[l] \in Macs /\ TypeOK /\ None \notin Loaders
  BY RegistryAssumption DEF Records
<1>2. Kept[i].mac = MacOf[l]
  BY <1>1, PruningIsTyped DEF Records, OffersAreOwned
<1>3. \A m \in Macs : Pruned[m] # None => Pruned[m].current # i
  BY CurrentIsOwned
<1>4. /\ Conflicting([Kept EXCEPT ![i].seen = 0, ![i].superseded = "again"], MacOf[l])
      /\ stale' = [stale EXCEPT ![MacOf[l]] = 0] /\ accepted' = {}
  BY DEF Superseded, Conflicting
<1>. QED BY <1>1, <1>2, <1>3, <1>4, ConflictStep

\* Nothing is accepted, and only what is old goes.
LEMMA RejectedStep ==
  ASSUME Records, Rejected, UNCHANGED <<offers, holder>>
  PROVE  /\ registrations' \in [Ids -> Registration \cup {None}] /\ devices' \in [Macs -> DeviceRecord \cup {None}]
         /\ stale' \in [Macs -> Ages] /\ accepted' \subseteq Macs
         /\ CurrentIsLatest' /\ OffersAreOwned' /\ StaleIsKnown' /\ AcceptedIsAlone'
  BY PruningKeeps DEF Rejected, AcceptedIsAlone, Records, TypeOK

LEMMA PollStep ==
  ASSUME Records, NEW l \in Loaders, NEW i \in Ids, Poll(l, i)
  PROVE  RegistryInv'
<1>1. holder[i] = l /\ UNCHANGED <<offers, holder, Rest>> /\ invalidated' \in BOOLEAN /\ notified' \in BOOLEAN
  BY DEF Poll, Notify, Rest
<1>2. MacOf[l] \in Macs /\ TypeOK /\ None \notin Loaders
  BY RegistryAssumption DEF Records
<1>3. /\ registrations' \in [Ids -> Registration \cup {None}] /\ devices' \in [Macs -> DeviceRecord \cup {None}]
      /\ stale' \in [Macs -> Ages] /\ accepted' \subseteq Macs
      /\ CurrentIsLatest' /\ OffersAreOwned' /\ StaleIsKnown' /\ AcceptedIsAlone'
  <2>1. CASE Rejected
    BY <1>1, <2>1, RejectedStep
  <2>2. CASE Kept[i] # None /\ Kept[i].superseded # "no" /\ Superseded(i, MacOf[l])
    BY <1>1, <2>2, SupersededStep
  <2>3. CASE Kept[i] # None /\ Kept[i].superseded = "no" /\ Taken(i, MacOf[l], l)
    BY <1>1, <2>3, TakenStep
  <2>4. CASE /\ Kept[i] # None /\ Kept[i].superseded = "no" /\ ~MayTake(i, Pruned[MacOf[l]])
             /\ Outdated(i, MacOf[l])
    <3>1. Kept[i].mac = MacOf[l]
      BY <1>1, <1>2, <2>4, PruningIsTyped DEF Records, OffersAreOwned
    <3>2. \A m \in Macs : Pruned[m] # None => Pruned[m].current # i
      <4>. SUFFICES ASSUME NEW m \in Macs, Pruned[m] # None, Pruned[m].current = i  PROVE FALSE
        OBVIOUS
      <4>1. MacOf[holder[i]] = m
        BY CurrentIsOwned
      <4>2. Pruned[MacOf[l]].current = i
        BY <1>1, <4>1
      <4>. QED BY <2>4, <4>2 DEF MayTake, Ids
    <3>3. /\ Conflicting([Kept EXCEPT ![i].seen = 0, ![i].superseded = "yes"], MacOf[l])
          /\ UNCHANGED stale /\ accepted' = {}
      BY <2>4 DEF Outdated, Conflicting
    <3>. QED BY <1>1, <1>2, <2>4, <3>1, <3>2, <3>3, ConflictStep
  <2>. QED BY <2>1, <2>2, <2>3, <2>4 DEF Poll
<1>. QED BY <1>1, <1>2, <1>3, RestIsTyped DEF RegistryInv

LEMMA ReportStep ==
  ASSUME Records, NEW l \in Loaders, NEW i \in Ids, Report(l, i)
  PROVE  RegistryInv'
<1> DEFINE mac == MacOf[l]
<1>1. holder[i] = l /\ UNCHANGED <<offers, holder, Rest>> /\ invalidated' \in BOOLEAN /\ notified' \in BOOLEAN
  BY DEF Report, Notify, Rest
<1>2. mac \in Macs /\ TypeOK /\ None \notin Loaders /\ 0 \in Ages /\ None \notin Registration /\ None \notin DeviceRecord
  BY RegistryAssumption DEF Records, Ages
<1>3. /\ registrations' \in [Ids -> Registration \cup {None}] /\ devices' \in [Macs -> DeviceRecord \cup {None}]
      /\ stale' \in [Macs -> Ages] /\ accepted' \subseteq Macs
      /\ CurrentIsLatest' /\ OffersAreOwned' /\ StaleIsKnown' /\ AcceptedIsAlone'
  <2>1. CASE Rejected
    BY <1>1, <2>1, RejectedStep
  <2>2. CASE Kept[i] # None /\ Kept[i].superseded # "no" /\ Superseded(i, mac)
    BY <1>1, <2>2, SupersededStep
  <2>3. CASE /\ Kept[i] # None /\ Kept[i].superseded = "no" /\ IsCurrent(i, Pruned[mac])
             /\ registrations' = [Kept EXCEPT ![i].seen = 0] /\ devices' = [Pruned EXCEPT ![mac].seen = 0]
             /\ accepted' = {mac} /\ UNCHANGED stale
    <3> DEFINE r == [Kept[i] EXCEPT !.seen = 0]
               d == [Pruned[mac] EXCEPT !.seen = 0]
    <3>1. r \in Registration /\ r # None /\ r.mac = Kept[i].mac /\ r.superseded = "no"
      <4>1. Kept[i] \in Registration
        BY <1>2, <2>3, PruningIsTyped
      <4>. QED BY <1>2, <2>3, <4>1 DEF Registration
    <3>2. d \in DeviceRecord /\ d # None /\ d.current = Pruned[mac].current /\ Pruned[mac] # None
      <4>1. Pruned[mac] \in DeviceRecord
        BY <1>2, <2>3, PruningIsTyped DEF IsCurrent
      <4>. QED BY <1>2, <4>1 DEF DeviceRecord
    <3>3. registrations' = [Kept EXCEPT ![i] = r] /\ devices' = [Pruned EXCEPT ![mac] = d]
      BY <2>3
    <3> HIDE DEF r, d
    <3>4. /\ registrations' \in [Ids -> Registration \cup {None}] /\ devices' \in [Macs -> DeviceRecord \cup {None}]
          /\ registrations'[i] = r /\ \A j \in Ids : j # i => registrations'[j] = Kept[j]
          /\ \A m \in Macs : devices'[m] # None => Pruned[m] # None /\ devices'[m].current = Pruned[m].current
      BY <1>2, <3>1, <3>2, <3>3, PruningIsTyped
    <3>5. CurrentIsLatest'
      <4>. SUFFICES ASSUME NEW m \in Macs, devices'[m] # None
                    PROVE  LET c == devices'[m].current
                           IN IF c \in Ids THEN /\ holder[c] # None /\ MacOf[holder[c]] = m
                                                /\ registrations'[c] # None => registrations'[c].superseded = "no"
                              ELSE c \in Announcing /\ MacOf[c] = m
        BY <1>1 DEF CurrentIsLatest, Present, Known
      <4>1. Pruned[m] # None /\ devices'[m].current = Pruned[m].current
        BY <3>4
      <4>2. CASE Pruned[m].current \in Ids
        BY <3>1, <3>4, <4>1, <4>2, CurrentIsOwned
      <4>3. CASE Pruned[m].current \notin Ids
        BY <1>2, <4>1, <4>3, PruningIsTyped DEF Records, CurrentIsLatest, Present
      <4>. QED BY <4>1, <4>2, <4>3
    <3>6. OffersAreOwned'
      <4>1. ASSUME NEW j \in Ids, registrations'[j] # None
            PROVE  registrations[j] # None /\ registrations'[j].mac = registrations[j].mac
        <5>1. Kept[j] # None
          BY <2>3, <3>4, <4>1
        <5>2. registrations[j] # None /\ Kept[j] = registrations[j]
          BY <1>2, <5>1, PruningIsTyped
        <5>. QED BY <3>1, <3>4, <5>2
      <4>2. \A j \in Ids : /\ j > offers => registrations[j] = None /\ holder[j] = None
                           /\ registrations[j] # None /\ holder[j] # None => registrations[j].mac = MacOf[holder[j]]
        BY DEF Records, OffersAreOwned
      <4>. SUFFICES ASSUME NEW j \in Ids
                    PROVE  /\ j > offers => registrations'[j] = None /\ holder[j] = None
                           /\ registrations'[j] # None /\ holder[j] # None => registrations'[j].mac = MacOf[holder[j]]
        BY <1>1 DEF OffersAreOwned
      <4>. QED BY <4>1, <4>2
    <3>7. StaleIsKnown'
      <4>. SUFFICES ASSUME NEW m \in Macs, stale[m] <= OnlineTtl
                    PROVE  \E j \in Ids :
                             /\ registrations'[j] # None
                             /\ registrations'[j].mac = m /\ registrations'[j].superseded = "again"
                             /\ registrations'[j].seen # None /\ registrations'[j].seen <= stale[m]
        BY <2>3 DEF StaleIsKnown, Known
      <4>1. PICK j \in Known(Kept) : /\ Kept[j].mac = m /\ Kept[j].superseded = "again" /\ Kept[j].seen # None
                                     /\ Kept[j].seen <= stale[m]
        BY StaleIsKept
      <4>2. j \in Ids /\ j # i
        BY <2>3, <4>1 DEF Known
      <4>. QED BY <3>4, <4>1, <4>2 DEF Known
    <3>8. AcceptedIsAlone'
      <4>1. ~has_live_superseded_report(Kept, mac)
        BY <1>2, <2>3, PruningIsTyped DEF IsCurrent
      <4>2. ~(stale[mac] <= OnlineTtl)
        BY <1>2, <4>1, StaleIsKept
      <4>3. stale[mac] \in Ages /\ OnlineTtl \in Nat
        BY <1>2, RegistryAssumption DEF TypeOK
      <4>. QED BY <2>3, <4>2, <4>3 DEF AcceptedIsAlone, Ages
    <3>. QED BY <1>2, <2>3, <3>4, <3>5, <3>6, <3>7, <3>8 DEF TypeOK
  <2>. QED BY <2>1, <2>2, <2>3 DEF Report
<1>. QED BY <1>1, <1>2, <1>3, RestIsTyped DEF RegistryInv

-----------------------------------------------------------------------------
(***************************************************************************)
(* Announcements, time and the tasks.                                      *)
(***************************************************************************)
\* A machine that announces itself is heard of, if it is the one that was recorded.
LEMMA AnnounceStep ==
  ASSUME Records, NEW l \in Loaders, Announce(l)
  PROVE  RegistryInv'
<1>1. TypeOK /\ MacOf[l] \in Macs /\ 0 \in Ages /\ None \notin DeviceRecord
  BY RegistryAssumption DEF Records, Ages
<1>2. /\ l \in Announcing /\ reconciling' = reconciling \cup {l} /\ notified' = TRUE /\ accepted' = {}
      /\ UNCHANGED <<registrations, offers, holder, taskVars, invalidated, stale>>
  BY DEF Announce
<1> DEFINE heard == devices[MacOf[l]] # None /\ devices[MacOf[l]].current = l /\ devices[MacOf[l]].ip = l
<1>3. devices' = [devices EXCEPT ![MacOf[l]] =
                    IF heard THEN [devices[MacOf[l]] EXCEPT !.seen = 0] ELSE devices[MacOf[l]]]
  BY DEF Announce
<1>4. heard => /\ [devices[MacOf[l]] EXCEPT !.seen = 0] \in DeviceRecord
               /\ [devices[MacOf[l]] EXCEPT !.seen = 0].current = devices[MacOf[l]].current
  <2>1. heard => devices[MacOf[l]] \in DeviceRecord
    BY <1>1 DEF TypeOK
  <2>. QED BY <1>1, <2>1 DEF DeviceRecord
<1>5. heard => devices[MacOf[l]] # None
  OBVIOUS
<1> HIDE DEF heard
<1>6. /\ devices' \in [Macs -> DeviceRecord \cup {None}]
      /\ \A m \in Macs : devices'[m] # None => devices[m] # None /\ devices'[m].current = devices[m].current
  <2>1. devices \in [Macs -> DeviceRecord \cup {None}]
    BY <1>1 DEF TypeOK
  <2>2. CASE heard
    BY <1>1, <1>3, <1>4, <1>5, <2>1, <2>2
  <2>3. CASE ~heard
    BY <1>1, <1>3, <2>1, <2>3
  <2>. QED BY <2>2, <2>3
<1>7. TypeOK'
  BY <1>1, <1>2, <1>6 DEF TypeOK, taskVars
<1>8. CurrentIsLatest' /\ OffersAreOwned' /\ StaleIsKnown'
  BY <1>2, <1>6 DEF Records, CurrentIsLatest, OffersAreOwned, StaleIsKnown, Present, Known
<1>. QED BY <1>2, <1>7, <1>8 DEF RegistryInv, AcceptedIsAlone

\* Its status is read: it is the current one, or both machines are refused.
LEMMA AcceptStep ==
  ASSUME Records, NEW l \in Loaders, Accept(l)
  PROVE  RegistryInv'
<1>1. TypeOK /\ MacOf[l] \in Macs /\ 0 \in Ages /\ None \notin DeviceRecord /\ l \in Announcing
      /\ None \notin Loaders
  BY RegistryAssumption DEF Records, TypeOK, Ages, Accept
<1>2. /\ registrations' = Kept /\ reconciling' = reconciling \ {l} /\ accepted' = {} /\ invalidated' = TRUE /\ notified' = TRUE
      /\ UNCHANGED <<offers, holder, taskVars, stale>>
  BY DEF Accept, Notify
<1> DEFINE mac == MacOf[l]
           fresh == [ip |-> l, seen |-> 0, current |-> l, conflict |-> FALSE]
           refused == [Pruned[mac] EXCEPT !.conflict = TRUE]
<1>3. devices' = [Pruned EXCEPT ![mac] = IF AnnouncementConflicts(l) THEN refused ELSE fresh]
  BY DEF Accept
<1>4. AnnouncementConflicts(l) => /\ refused \in DeviceRecord /\ refused.current = Pruned[mac].current
                                  /\ Pruned[mac] # None
  <2>1. AnnouncementConflicts(l) => Pruned[mac] \in DeviceRecord /\ Pruned[mac] # None
    BY <1>1, PruningIsTyped DEF AnnouncementConflicts
  <2>. QED BY <2>1 DEF DeviceRecord
<1>5. fresh \in DeviceRecord /\ fresh.current = l
  BY <1>1 DEF DeviceRecord
<1> HIDE DEF fresh, refused
<1>6. /\ devices' \in [Macs -> DeviceRecord \cup {None}]
      /\ \A m \in Macs : devices'[m] # None =>
           \/ Pruned[m] # None /\ devices'[m].current = Pruned[m].current
           \/ m = mac /\ devices'[m].current = l
  BY <1>1, <1>3, <1>4, <1>5, PruningIsTyped
<1>7. TypeOK'
  BY <1>1, <1>2, <1>6, PruningIsTyped DEF TypeOK, taskVars
<1>8. OffersAreOwned' /\ StaleIsKnown'
  <2>1. OffersAreOwned'
    BY <1>1, <1>2, PruningIsTyped DEF Records, OffersAreOwned
  <2>2. StaleIsKnown'
    BY <1>2, StaleIsKept DEF StaleIsKnown, Known
  <2>. QED BY <2>1, <2>2
<1>9. CurrentIsLatest'
  <2>. SUFFICES ASSUME NEW m \in Macs, devices'[m] # None
                PROVE  LET c == devices'[m].current
                       IN IF c \in Ids THEN /\ holder[c] # None /\ MacOf[holder[c]] = m
                                            /\ Kept[c] # None => Kept[c].superseded = "no"
                          ELSE c \in Announcing /\ MacOf[c] = m
    BY <1>2 DEF CurrentIsLatest, Present, Known
  <2>1. CASE Pruned[m] # None /\ devices'[m].current = Pruned[m].current
    <3>1. CASE Pruned[m].current \in Ids
      BY <2>1, <3>1, CurrentIsOwned
    <3>2. CASE Pruned[m].current \notin Ids
      BY <1>1, <2>1, <3>2, PruningIsTyped DEF Records, CurrentIsLatest, Present
    <3>. QED BY <2>1, <3>1, <3>2
  <2>2. CASE m = mac /\ devices'[m].current = l
    <3>1. l \notin Ids
      BY <1>1, RegistryAssumption DEF Ids
    <3>. QED BY <1>1, <2>2, <3>1
  <2>. QED BY <1>6, <2>1, <2>2
<1>. QED BY <1>2, <1>7, <1>8, <1>9 DEF RegistryInv, AcceptedIsAlone

\* A deadline that is still to come is one of the next three time limits.
LEMMA DeadlinesAreTyped ==
  ASSUME TypeOK, NEW t \in NextDeadline
  PROVE  t \in {None, -1} \cup 0..Retention
<1>1. /\ OnlineTtl \in Nat /\ RegistrationTtl \in Nat /\ Retention \in Nat
      /\ OnlineTtl <= Retention /\ RegistrationTtl <= Retention
  BY RegistryAssumption
<1>2. ASSUME NEW u \in Deadlines  PROVE u \in Int /\ u <= Retention
  <2>1. \/ \E m \in Present(devices) : u \in {OnlineTtl - devices[m].seen, Retention - devices[m].seen}
        \/ \E i \in Known(registrations) :
             LET r == registrations[i]
             IN u \in {RegistrationTtl - r.issued, OnlineTtl - (IF r.seen = None THEN r.issued ELSE r.seen)}
    <3>1. \/ u \in UNION {{OnlineTtl - devices[m].seen, Retention - devices[m].seen} : m \in Present(devices)}
          \/ u \in UNION {LET r == registrations[i]
                IN {RegistrationTtl - r.issued, OnlineTtl - (IF r.seen = None THEN r.issued ELSE r.seen)}
                : i \in Known(registrations)}
      BY <1>2 DEF Deadlines
    <3>. QED BY <3>1
  <2>2. \A m \in Present(devices) : devices[m].seen \in Nat
    BY DEF TypeOK, Present, DeviceRecord, Ages
  <2>3. \A i \in Known(registrations) :
          registrations[i].issued \in Nat /\ (registrations[i].seen = None \/ registrations[i].seen \in Nat)
    BY DEF TypeOK, Known, Registration, Ages
  <2>. QED BY <1>1, <2>1, <2>2, <2>3
<1>. QED BY <1>1, <1>2 DEF NextDeadline, Upcoming

LEMMA TaskStep ==
  ASSUME Records, DeadlineChanged \/ DeadlinePasses
  PROVE  RegistryInv'
<1>1. TypeOK
  BY DEF Records
<1>2. deadline' \in NextDeadline /\ accepted' = {}
      /\ UNCHANGED <<stateVars, offers, holder, reconciling, shown, stale>>
  BY DEF DeadlineChanged, DeadlinePasses
<1>3. TypeOK'
  BY <1>1, <1>2, DeadlinesAreTyped DEF TypeOK, stateVars, DeadlineChanged, DeadlinePasses
<1>. QED BY <1>2, <1>3 DEF Records, RegistryInv, CurrentIsLatest, OffersAreOwned, StaleIsKnown, AcceptedIsAlone,
                           stateVars, Present, Known

LEMMA ProjectStep ==
  ASSUME Records, Project
  PROVE  RegistryInv'
<1>1. TypeOK
  BY DEF Records
<1>2. /\ registrations' = Kept /\ devices' = Pruned /\ accepted' = {} /\ shown' = Snapshot /\ invalidated' = FALSE
      /\ UNCHANGED <<offers, holder, reconciling, deadline, missed, notified, stale>>
  BY DEF Project
<1>3. shown' \in [Macs -> Summary \cup {None}]
  <2>1. \A m \in Macs : Pruned[m] # None => Pruned[m].conflict \in BOOLEAN
    BY <1>1, PruningIsTyped DEF DeviceRecord
  <2>. QED BY <1>2, <2>1 DEF Snapshot, Summary
<1>4. /\ registrations' \in [Ids -> Registration \cup {None}] /\ devices' \in [Macs -> DeviceRecord \cup {None}]
      /\ CurrentIsLatest' /\ OffersAreOwned' /\ StaleIsKnown'
  BY <1>2, PruningKeeps
<1>. QED BY <1>1, <1>2, <1>3, <1>4 DEF TypeOK, RegistryInv, AcceptedIsAlone

\* Everything grows older together.
LEMMA TickStep ==
  ASSUME Records, Tick
  PROVE  RegistryInv'
<1>1. TypeOK /\ None \notin Registration /\ None \notin DeviceRecord /\ None \notin Int
      /\ OnlineTtl \in Nat /\ Retention \in Nat /\ OnlineTtl <= Retention
  BY RegistryAssumption DEF Records
<1>2. /\ registrations' = [i \in Ids |-> IF registrations[i] = None THEN None
                             ELSE [registrations[i] EXCEPT !.issued = Older(@), !.seen = Older(@)]]
      /\ devices' = [m \in Macs |-> IF devices[m] = None THEN None ELSE [devices[m] EXCEPT !.seen = Older(@)]]
      /\ stale' = [m \in Macs |-> IF stale[m] > OnlineTtl THEN stale[m] ELSE stale[m] + 1]
      /\ deadline' = IF deadline = None THEN None ELSE deadline - 1
      /\ accepted' = {} /\ deadline # -1
      /\ UNCHANGED <<offers, holder, reconciling, shown, missed, notified, invalidated>>
  BY DEF Tick
<1>3. \A a \in Ages : Older(a) \in Ages
  BY <1>1 DEF Ages, Older
<1>4. Older(None) = None /\ \A a \in Ages : Older(a) # None
  BY <1>1, <1>3 DEF Older, Ages
<1>5. ASSUME NEW i \in Ids, registrations[i] # None
      PROVE  /\ registrations'[i] \in Registration /\ registrations'[i].mac = registrations[i].mac
             /\ registrations'[i].superseded = registrations[i].superseded
             /\ registrations'[i].seen = Older(registrations[i].seen)
  <2>1. registrations[i] \in Registration
    BY <1>1, <1>5 DEF TypeOK
  <2>. QED BY <1>2, <1>3, <1>4, <1>5, <2>1 DEF Registration
<1>6. ASSUME NEW m \in Macs, devices[m] # None
      PROVE  devices'[m] \in DeviceRecord /\ devices'[m].current = devices[m].current
  <2>1. devices[m] \in DeviceRecord
    BY <1>1, <1>6 DEF TypeOK
  <2>. QED BY <1>2, <1>3, <1>6, <2>1 DEF DeviceRecord
<1>7. registrations' \in [Ids -> Registration \cup {None}] /\ devices' \in [Macs -> DeviceRecord \cup {None}]
  BY <1>2, <1>5, <1>6
<1>8. stale' \in [Macs -> Ages]
  <2>1. \A m \in Macs : stale[m] \in Ages
    BY <1>1 DEF TypeOK
  <2>2. \A a \in Ages : (IF a > OnlineTtl THEN a ELSE a + 1) \in Ages
    BY <1>1 DEF Ages
  <2>. QED BY <1>2, <2>1, <2>2
<1>9. TypeOK'
  <2>1. deadline' \in {None, -1} \cup 0..Retention
    <3>1. deadline \in {None, -1} \cup 0..Retention
      BY <1>1 DEF TypeOK
    <3>2. CASE deadline = None
      BY <1>2, <3>2
    <3>3. CASE deadline \in 0..Retention
      <4>1. deadline \in Int /\ deadline # None
        BY <1>1, <3>3
      <4>2. deadline' = deadline - 1
        BY <1>2, <4>1
      <4>. QED BY <1>1, <3>3, <4>2
    <3>. QED BY <1>2, <3>1, <3>2, <3>3
  <2>2. TypeOK
    BY <1>1
  <2>. QED BY <1>2, <1>7, <1>8, <2>1, <2>2 DEF TypeOK
<1>10. /\ \A i \in Ids : registrations'[i] # None <=> registrations[i] # None
       /\ \A m \in Macs : devices'[m] # None <=> devices[m] # None
  BY <1>1, <1>2, <1>5, <1>6
<1>11. CurrentIsLatest' /\ OffersAreOwned'
  <2>1. OffersAreOwned'
    BY <1>2, <1>5, <1>10 DEF Records, OffersAreOwned
  <2>. SUFFICES ASSUME NEW m \in Macs, devices'[m] # None
                PROVE  LET c == devices'[m].current
                       IN IF c \in Ids THEN /\ holder[c] # None /\ MacOf[holder[c]] = m
                                            /\ registrations'[c] # None => registrations'[c].superseded = "no"
                          ELSE c \in Announcing /\ MacOf[c] = m
    BY <1>2, <2>1 DEF CurrentIsLatest, Present, Known
  <2>2. devices[m] # None /\ devices'[m].current = devices[m].current
    BY <1>6, <1>10
  <2>. QED BY <1>5, <1>10, <2>2 DEF Records, CurrentIsLatest, Present, Known
<1>12. StaleIsKnown'
  <2>. SUFFICES ASSUME NEW m \in Macs, stale'[m] <= OnlineTtl
                PROVE  \E i \in Ids :
                         /\ registrations'[i] # None
                         /\ registrations'[i].mac = m /\ registrations'[i].superseded = "again"
                         /\ registrations'[i].seen # None /\ registrations'[i].seen <= stale'[m]
    BY DEF StaleIsKnown, Known
  <2>1. stale[m] \in Int /\ stale[m] <= OnlineTtl /\ stale'[m] = stale[m] + 1
    <3>1. stale[m] \in Int
      BY <1>1 DEF TypeOK, Ages
    <3>2. stale'[m] = IF stale[m] > OnlineTtl THEN stale[m] ELSE stale[m] + 1
      BY <1>2
    <3>. QED BY <1>1, <3>1, <3>2
  <2>2. PICK i \in Ids : /\ registrations[i] # None
                         /\ registrations[i].mac = m /\ registrations[i].superseded = "again"
                         /\ registrations[i].seen # None /\ registrations[i].seen <= stale[m]
    BY <2>1 DEF Records, StaleIsKnown, Known
  <2>3. registrations[i].seen \in Ages
    BY <1>1, <2>2 DEF TypeOK, Registration
  <2>4. Older(registrations[i].seen) \in Ages /\ Older(registrations[i].seen) # None
        /\ Older(registrations[i].seen) <= stale[m] + 1
    BY <1>1, <1>3, <1>4, <2>1, <2>2, <2>3 DEF Older, Ages
  <2>. QED BY <1>5, <1>10, <2>1, <2>2, <2>4
<1>. QED BY <1>2, <1>9, <1>11, <1>12 DEF RegistryInv, AcceptedIsAlone

\* Every step keeps the invariant.
LEMMA RegistryStep ==
  ASSUME Records, Next
  PROVE  RegistryInv'
<1>1. CASE \E l \in Loaders : Offer(l) \/ Announce(l) \/ Accept(l)
  BY <1>1, OfferStep, AnnounceStep, AcceptStep
<1>2. CASE \E l \in Loaders : FetchFails(l)
  BY <1>2 DEF Records, TypeOK, FetchFails, RegistryInv, CurrentIsLatest, OffersAreOwned, StaleIsKnown, AcceptedIsAlone,
              stateVars, taskVars, Present, Known
<1>3. CASE \E l \in Loaders, i \in Ids : Poll(l, i) \/ Report(l, i)
  BY <1>3, PollStep, ReportStep
<1>4. CASE DeadlineChanged \/ DeadlinePasses \/ Project \/ Tick
  BY <1>4, TaskStep, ProjectStep, TickStep
<1>. QED BY <1>1, <1>2, <1>3, <1>4 DEF Next

\* Whatever order offers, polls, reports and announcements arrive in, for any number of machines
\* and of addresses: a registration is current only while nothing has replaced it, and a poll or
\* a report is accepted (accept_poll, accept_status) only if no replaced one was used within
\* ONLINE_TTL.
THEOREM RegistryIsSafe == Spec => []RegistryInv
<1>1. Init => RegistryInv
  <2>1. ASSUME Init  PROVE TypeOK
    <3>1. OnlineTtl + 1 \in Ages /\ 0 \in 0..MaxOffers
      BY RegistryAssumption DEF Ages
    <3>. QED BY <2>1, <3>1 DEF Init, TypeOK
  <2>2. ASSUME Init  PROVE CurrentIsLatest /\ OffersAreOwned /\ StaleIsKnown /\ AcceptedIsAlone
    BY <2>2, RegistryAssumption DEF Init, CurrentIsLatest, OffersAreOwned, StaleIsKnown, AcceptedIsAlone, Present, Known
  <2>. QED BY <2>1, <2>2 DEF RegistryInv
<1>2. RegistryInv /\ [Next]_vars => RegistryInv'
  <2>1. ASSUME RegistryInv, UNCHANGED vars  PROVE RegistryInv'
    BY <2>1 DEF RegistryInv, vars, stateVars, taskVars, TypeOK, CurrentIsLatest, OffersAreOwned, StaleIsKnown,
                AcceptedIsAlone, Present, Known
  <2>. QED BY <2>1, RegistryStep DEF RegistryInv, Records
<1>. QED BY <1>1, <1>2, PTL DEF Spec

-----------------------------------------------------------------------------
(***************************************************************************)
(* AdminEvents.                                                            *)
(***************************************************************************)
\* A topic that the projection does not show as it is will be read again, or already is.
Pending(t) ==
  \/ \E h \in handlers : t \in Implied(h)
  \/ t \in dirty \cup todo
  \/ t \in DOMAIN values /\ values[t] = Truth[t]
  \/ t \notin DOMAIN values /\ projection.data[t] = Truth[t]

\* The overview is read when the status is, because it shows the status of the round.
OverviewFollows ==
  /\ "tftp_status" \in dirty => "overview" \in dirty
  /\ "tftp_status" \in hidden => "overview" \in hidden
  /\ Status \in Shown

\* The history is of this server run, and its last update that carries a topic has what the
\* projection shows.
HistoryIsExact ==
  /\ projection.initialized <=> history # <<>>
  /\ \A i \in DOMAIN history : history[i].epoch = projection.epoch
  /\ \A i \in DOMAIN history : \A t \in DOMAIN history[i].data :
       (\A j \in DOMAIN history : j > i => t \notin DOMAIN history[j].data) =>
         history[i].data[t] = projection.data[t]

\* No cursor is of a later revision or server run.
CursorIsOld(cursor) ==
  cursor # Nothing =>
    /\ cursor[1] <= projection.epoch
    /\ cursor[1] = projection.epoch => history # <<>> /\ cursor[2] <= projection.revision

\* What is on its way to a browser is of this server run.
IsOfThisRun(c) ==
  /\ CursorIsOld(last[c])
  /\ stream[c] # Nothing =>
       /\ projection.initialized /\ stream[c].cursor = last[c]
       /\ \A i \in DOMAIN stream[c].queue :
            stream[c].queue[i].epoch = projection.epoch /\ stream[c].queue[i].revision <= projection.revision

StreamsAreOfThisRun == \A c \in Clients : IsOfThisRun(c)

Queue(c) == IF stream[c] = Nothing THEN <<>> ELSE stream[c].queue

\* The cursor of a browser after the first k events of its queue.
CursorAt(c, k) == IF k = 0 THEN last[c] ELSE <<Queue(c)[k].epoch, Queue(c)[k].revision>>

\* After the first k updates a browser that showed d shows v for a topic.
Shows(d, q, k, t, v) ==
  \/ \E i \in 1..k : /\ t \in DOMAIN q[i].data /\ v = q[i].data[t]
                     /\ \A j \in 1..k : j > i => t \notin DOMAIN q[j].data
  \/ v = d[t] /\ \A j \in 1..k : t \notin DOMAIN q[j].data

Settled(r, t) == \A i \in DOMAIN history : history[i].revision > r => t \notin DOMAIN history[i].data

\* Wherever its connection breaks, a browser shows the topics that no later update carries as
\* the projection does.
IsExact(c) ==
  \A k \in 0..Len(Queue(c)) : Replayable(CursorAt(c, k)) =>
    \A t \in Topics : Settled(CursorAt(c, k)[2], t) => Shows(view[c], Queue(c), k, t, projection.data[t])

PrefixesAreExact == \A c \in Clients : IsExact(c)

EventsIInv ==
  /\ EventsTypeOK /\ \A t \in Topics \ hidden : Pending(t)
  /\ OverviewFollows /\ HistoryHasNoGap /\ HistoryIsExact
  /\ StreamsAreOfThisRun /\ PrefixesAreExact

\* A part of the topics with what they show.
LEMMA ValuesAreParts ==
  /\ \A d \in Values : DOMAIN d \subseteq Topics /\ \A t \in DOMAIN d : d[t] \in Datum
  /\ \A S \in SUBSET Topics : \A d \in [S -> Datum] : d \in Values
  BY DEF Values

\* A round of the projector reads one topic more.
LEMMA ReadsIsTyped ==
  ASSUME values \in Values, NEW t \in Topics, NEW v \in Datum, Reads(t, v)
  PROVE  /\ values' \in Values /\ DOMAIN values' = DOMAIN values \cup {t} /\ values'[t] = v
         /\ \A x \in DOMAIN values : x # t => values'[x] = values[x]
<1>1. DOMAIN values \subseteq Topics /\ \A x \in DOMAIN values : values[x] \in Datum
  BY ValuesAreParts
<1>2. values' \in [DOMAIN values \cup {t} -> Datum]
  BY <1>1 DEF Reads
<1>3. values' \in Values
  BY <1>1, <1>2, ValuesAreParts
<1>. QED BY <1>2, <1>3 DEF Reads

\* What a topic that the server owns and the overview show.
LEMMA TruthIsTyped ==
  ASSUME EventsTypeOK, OverviewFollows
  PROVE  /\ \A t \in Owned : owned[t] \in Owner /\ owned[t] \in Shown /\ owned[t] \in Datum
         /\ Overview \in Datum /\ Error \in Shown /\ Error \in Datum
<1>1. owned["boards"] \in Owner
  BY DEF EventsTypeOK, Owned
<1>. QED BY <1>1 DEF EventsTypeOK, OverviewFollows, Overview, Datum, Shown

\* The steps of handlers, monitors and the projector that no browser can see.
Unseen ==
  \/ \E t \in Owned : Change(t) \/ Invalidate(t) \/ NotifyOne(t) \/ RequestDropped(t)
  \/ RenameDtb \/ Take \/ TakeNothing \/ \E t \in Topics : ReadTopic(t) \/ ReadFails(t)

\* They change neither the projection nor a stream.
LEMMA UnseenFrame ==
  ASSUME Unseen
  PROVE  UNCHANGED <<projection, history, stream, last, view>>
<1>1. ASSUME NEW t \in Owned, Change(t) \/ Invalidate(t) \/ NotifyOne(t) \/ RequestDropped(t)
      PROVE  UNCHANGED <<projection, history, stream, last, view>>
  BY <1>1 DEF Change, Invalidate, NotifyOne, RequestDropped, projectorVars, clientVars
<1>2. CASE RenameDtb \/ Take \/ TakeNothing
  BY <1>2 DEF RenameDtb, Take, TakeNothing, projectorVars, clientVars
<1>3. ASSUME NEW t \in Topics, ReadTopic(t) \/ ReadFails(t)
      PROVE  UNCHANGED <<projection, history, stream, last, view>>
  BY <1>3 DEF ReadTopic, ReadFails, clientVars
<1>. QED BY <1>1, <1>2, <1>3 DEF Unseen

\* The unseen steps keep the types.
LEMMA UnseenIsTyped ==
  ASSUME EventsTypeOK, OverviewFollows, Unseen
  PROVE  EventsTypeOK'
<1>. USE EventsAssumption DEF EventsTypeOK
<1>1. ASSUME NEW t \in Owned, Change(t)  PROVE EventsTypeOK'
  <2>1. owned[t] \in Owner /\ owned[t].version + 1 \in 0..MaxChanges /\ changes' = changes + 1 /\ changes' \in 0..MaxChanges
    BY <1>1 DEF Change, Owner
  <2>. DEFINE new == [owned[t] EXCEPT !.version = owned[t].version + 1]
  <2>2. new \in Owner /\ new.version = owned[t].version + 1 /\ owned' = [owned EXCEPT ![t] = new]
    BY <1>1, <2>1 DEF Change, Owner
  <2>. HIDE DEF new
  <2>3. owned' \in [Owned -> Owner] /\ \A x \in Owned : owned'[x].version <= changes'
    BY <2>1, <2>2 DEF Owner
  <2>. QED BY <1>1, <2>3, <2>1 DEF Change, projectorVars, clientVars
<1>2. ASSUME NEW t \in Owned, Invalidate(t)  PROVE EventsTypeOK'
  BY <1>2 DEF Invalidate, Implied, Owned, Topics, projectorVars, clientVars
<1>3. ASSUME NEW t \in Owned, NotifyOne(t)  PROVE EventsTypeOK'
  BY <1>3 DEF NotifyOne, projectorVars, clientVars
<1>4. ASSUME NEW t \in Owned, RequestDropped(t)  PROVE EventsTypeOK'
  BY <1>4 DEF RequestDropped, Break, Implied, Owned, Topics, projectorVars, clientVars
<1>5. ASSUME RenameDtb  PROVE EventsTypeOK'
  <2>1. /\ owned["boards"] \in Owner /\ owned["boards"].version + 1 \in 0..MaxChanges
        /\ changes' = changes + 1 /\ changes' \in 0..MaxChanges
    BY <1>5 DEF RenameDtb, Owned, Owner
  <2>. DEFINE new == [owned["boards"] EXCEPT !.version = owned["boards"].version + 1]
  <2>2. new \in Owner /\ new.version = owned["boards"].version + 1 /\ owned' = [owned EXCEPT !["boards"] = new]
    BY <1>5, <2>1 DEF RenameDtb, Owner
  <2>. HIDE DEF new
  <2>3. owned' \in [Owned -> Owner] /\ \A x \in Owned : owned'[x].version <= changes'
    BY <2>1, <2>2 DEF Owner, Owned
  <2>. QED BY <1>5, <2>3 DEF RenameDtb, Implied, Owned, Topics, projectorVars, clientVars
<1>6. ASSUME Take \/ TakeNothing  PROVE EventsTypeOK'
  BY <1>6 DEF Take, TakeNothing, projectorVars, clientVars
<1>7. ASSUME NEW t \in Topics, ReadTopic(t)  PROVE EventsTypeOK'
  <2>1. (IF t = "overview" THEN Overview ELSE owned[t]) \in Datum
    BY TruthIsTyped DEF Topics, Owned
  <2>2. values' \in Values
    BY <1>7, <2>1, ReadsIsTyped DEF ReadTopic
  <2>. QED BY <1>7, <2>2 DEF ReadTopic, clientVars
<1>8. ASSUME NEW t \in Topics, ReadFails(t)  PROVE EventsTypeOK'
  <2>1. values' \in Values
    BY <1>8, TruthIsTyped, ReadsIsTyped DEF ReadFails
  <2>. QED BY <1>8, <2>1 DEF ReadFails, Break, Implied, Owned, Topics, clientVars
<1>. QED BY <1>1, <1>2, <1>3, <1>4, <1>5, <1>6, <1>7, <1>8 DEF Unseen

\* The browsers do not notice an unseen step.
LEMMA UnseenKeepsBrowsers ==
  ASSUME HistoryHasNoGap, HistoryIsExact, StreamsAreOfThisRun, PrefixesAreExact,
         UNCHANGED <<projection, history, stream, last, view>>
  PROVE  HistoryHasNoGap' /\ HistoryIsExact' /\ StreamsAreOfThisRun' /\ PrefixesAreExact'
<1>1. HistoryHasNoGap' /\ HistoryIsExact'
  BY DEF HistoryHasNoGap, HistoryIsExact
<1>2. StreamsAreOfThisRun'
  BY DEF StreamsAreOfThisRun, IsOfThisRun, CursorIsOld
<1>3. PrefixesAreExact'
  BY DEF PrefixesAreExact, IsExact, Queue, CursorAt, Replayable, Settled, Shows
<1>. QED BY <1>1, <1>2, <1>3

AllPending == \A t \in Topics \ hidden : Pending(t)

\* An unseen step forgets no topic.
LEMMA UnseenKeepsPending ==
  ASSUME EventsTypeOK, OverviewFollows, AllPending, Unseen
  PROVE  OverviewFollows' /\ AllPending'
<1>0. UNCHANGED <<projection, history, stream, last, view>>
  BY UnseenFrame
<1>1. ASSUME NEW h \in Owned, Change(h)  PROVE OverviewFollows' /\ AllPending'
  <2>1. UNCHANGED <<hidden, dirty, todo, values>> /\ handlers' = handlers \cup {h}
    BY <1>1 DEF Change, projectorVars
  <2>2. \A t \in Topics : t \notin Implied(h) => Truth'[t] = Truth[t]
    BY <1>1 DEF Change, Truth, Topics, Owned, Implied, EventsTypeOK, Owner
  <2>3. OverviewFollows'
    BY <1>0, <2>1 DEF OverviewFollows, Status
  <2>4. ASSUME NEW t \in Topics \ hidden'  PROVE Pending(t)'
    BY <1>0, <2>1, <2>2, <2>4 DEF AllPending, Pending
  <2>. QED BY <2>3, <2>4 DEF AllPending
<1>2. ASSUME NEW h \in Owned, Invalidate(h)  PROVE OverviewFollows' /\ AllPending'
  <2>1. /\ UNCHANGED <<hidden, owned, todo, values>>
        /\ handlers' = handlers \ {h} /\ dirty' = dirty \cup Implied(h)
    BY <1>2 DEF Invalidate, projectorVars
  <2>2. OverviewFollows'
    BY <1>0, <2>1 DEF OverviewFollows, Status, Implied, Owned
  <2>3. Truth' = Truth
    BY <2>1 DEF Truth
  <2>4. ASSUME NEW t \in Topics \ hidden'  PROVE Pending(t)'
    BY <1>0, <2>1, <2>3, <2>4 DEF AllPending, Pending
  <2>. QED BY <2>2, <2>4 DEF AllPending
<1>3. ASSUME NEW h \in Owned, NotifyOne(h)  PROVE OverviewFollows' /\ AllPending'
  <2>1. UNCHANGED <<hidden, owned, handlers, dirty, todo, values>>
    BY <1>3 DEF NotifyOne, projectorVars
  <2>. QED BY <1>0, <2>1 DEF AllPending, Pending, Truth, OverviewFollows, Status
<1>4. ASSUME NEW h \in Owned, RequestDropped(h)  PROVE OverviewFollows' /\ AllPending'
  <2>1. /\ UNCHANGED <<owned, dirty, todo, values>>
        /\ handlers' = handlers \ {h} /\ hidden' = hidden \cup Implied(h)
    BY <1>4 DEF RequestDropped, projectorVars
  <2>2. OverviewFollows'
    BY <1>0, <2>1 DEF OverviewFollows, Status, Implied, Owned
  <2>3. Truth' = Truth
    BY <2>1 DEF Truth
  <2>4. ASSUME NEW t \in Topics \ hidden'  PROVE Pending(t)'
    BY <1>0, <2>1, <2>3, <2>4 DEF AllPending, Pending
  <2>. QED BY <2>2, <2>4 DEF AllPending
<1>5. ASSUME RenameDtb  PROVE OverviewFollows' /\ AllPending'
  <2>1. UNCHANGED <<handlers, dirty, todo, values>> /\ hidden' = hidden \cup {"boards", "overview"}
    BY <1>5 DEF RenameDtb, Implied, projectorVars
  <2>2. OverviewFollows'
    BY <1>0, <2>1 DEF OverviewFollows, Status
  <2>3. \A t \in Topics \ hidden' : Truth'[t] = Truth[t]
    BY <1>5, <2>1 DEF RenameDtb, Truth, Topics, Owned, EventsTypeOK, Owner
  <2>4. ASSUME NEW t \in Topics \ hidden'  PROVE Pending(t)'
    BY <1>0, <2>1, <2>3, <2>4 DEF AllPending, Pending
  <2>. QED BY <2>2, <2>4 DEF AllPending
<1>6. ASSUME Take  PROVE OverviewFollows' /\ AllPending'
  <2>1. UNCHANGED <<owned, handlers, hidden, values>> /\ todo = {} /\ todo' = dirty /\ dirty' = {}
    BY <1>6 DEF Take, Idle
  <2>. QED BY <1>0, <2>1 DEF AllPending, Pending, Truth, OverviewFollows, Status
<1>7. ASSUME TakeNothing  PROVE OverviewFollows' /\ AllPending'
  <2>1. UNCHANGED <<owned, handlers, hidden, dirty, todo, values>>
    BY <1>7 DEF TakeNothing, projectorVars
  <2>. QED BY <1>0, <2>1 DEF AllPending, Pending, Truth, OverviewFollows, Status
<1>8. ASSUME NEW r \in Topics, ReadTopic(r)  PROVE OverviewFollows' /\ AllPending'
  <2>. DEFINE v == IF r = "overview" THEN Overview ELSE owned[r]
  <2>1. /\ UNCHANGED <<owned, handlers, dirty>> /\ Reads(r, v)
        /\ r \in todo /\ (r = "overview" => todo = {r}) /\ todo' = todo \ {r}
        /\ hidden' = IF r = "overview" /\ "tftp_status" \in hidden THEN hidden ELSE hidden \ {r}
    BY <1>8 DEF ReadTopic
  <2>2. v \in Datum /\ (r # "overview" => v \in Shown)
    BY TruthIsTyped DEF Topics, Owned
  <2>3. /\ DOMAIN values' = DOMAIN values \cup {r} /\ values'[r] = v
        /\ \A x \in DOMAIN values : x # r => values'[x] = values[x]
    <3>. HIDE DEF v
    <3>. QED BY <2>1, <2>2, ReadsIsTyped DEF EventsTypeOK
  <2>4. Truth' = Truth
    BY <2>1 DEF Truth
  <2>5. OverviewFollows'
    BY <1>0, <2>1, <2>2, <2>3 DEF OverviewFollows, Status
  <2>6. ASSUME r = "overview", "tftp_status" \notin hidden
        PROVE  v = Truth[r] \/ r \in dirty \/ \E h \in handlers : r \in Implied(h)
    <3>1. Pending("tftp_status")
      BY <2>6 DEF AllPending, Topics, Owned
    <3>2. CASE \E h \in handlers : "tftp_status" \in Implied(h)
      BY <2>6, <3>2 DEF Implied, EventsTypeOK, Owned
    <3>3. CASE "tftp_status" \in dirty
      BY <2>6, <3>3 DEF OverviewFollows
    <3>4. CASE Status = owned["tftp_status"]
      BY <2>6, <3>4 DEF Overview, Truth, Topics, Owned
    <3>5. "tftp_status" \notin todo
      BY <2>1, <2>6
    <3>. QED BY <3>1, <3>2, <3>3, <3>4, <3>5 DEF Pending, Truth, Topics, Owned, Status
  <2>7. r # "overview" => v = Truth[r]
    BY DEF Truth
  <2>. HIDE DEF v
  <2>8. ASSUME NEW t \in Topics \ hidden', t # r  PROVE Pending(t)'
    <3>1. Pending(t)
      BY <2>1, <2>8 DEF AllPending
    <3>. QED BY <1>0, <2>1, <2>3, <2>4, <2>8, <3>1 DEF Pending
  <2>9. r \notin hidden' => Pending(r)'
    <3>1. r # "overview" \/ "tftp_status" \notin hidden \/ r \in hidden'
      BY <2>1 DEF OverviewFollows
    <3>. QED BY <2>1, <2>3, <2>4, <2>6, <2>7, <3>1 DEF Pending
  <2>. QED BY <2>5, <2>8, <2>9 DEF AllPending
<1>9. ASSUME NEW r \in Topics, ReadFails(r)  PROVE OverviewFollows' /\ AllPending'
  <2>1. /\ UNCHANGED <<owned, handlers, dirty>> /\ Reads(r, Error)
        /\ todo' = todo \ {r} /\ hidden' = hidden \cup Implied(r)
    BY <1>9 DEF ReadFails
  <2>2. Error \in Shown /\ Error \in Datum
    BY TruthIsTyped
  <2>3. /\ DOMAIN values' = DOMAIN values \cup {r} /\ values'[r] = Error
        /\ \A x \in DOMAIN values : x # r => values'[x] = values[x]
    BY <2>1, <2>2, ReadsIsTyped DEF EventsTypeOK
  <2>4. Truth' = Truth
    BY <2>1 DEF Truth
  <2>5. OverviewFollows'
    BY <1>0, <2>1, <2>2, <2>3 DEF OverviewFollows, Status, Implied
  <2>6. ASSUME NEW t \in Topics \ hidden'  PROVE Pending(t)'
    <3>1. Pending(t) /\ t # r
      BY <2>1, <2>6 DEF AllPending, Implied
    <3>. QED BY <1>0, <2>1, <2>3, <2>4, <3>1 DEF Pending
  <2>. QED BY <2>5, <2>6 DEF AllPending
<1>. QED BY <1>1, <1>2, <1>3, <1>4, <1>5, <1>6, <1>7, <1>8, <1>9 DEF Unseen

\* What an update carries.
LEMMA ChangedIsTyped ==
  ASSUME EventsTypeOK
  PROVE  /\ Changed \subseteq Topics /\ DOMAIN values \subseteq Topics
         /\ \A t \in DOMAIN values : values[t] \in Datum
         /\ Update([t \in Changed |-> values[t]], "update") \in Updates
<1>1. DOMAIN values \subseteq Topics /\ \A t \in DOMAIN values : values[t] \in Datum
  BY ValuesAreParts DEF EventsTypeOK
<1>2. Changed \in SUBSET Topics /\ [t \in Changed |-> values[t]] \in [Changed -> Datum]
  BY <1>1 DEF Changed
<1>3. [t \in Changed |-> values[t]] \in Values
  BY <1>2, ValuesAreParts
<1>. QED BY <1>1, <1>2, <1>3 DEF Update, Updates, EventsTypeOK

\* publish() appends an update, and drops the oldest one when the history is full.
LEMMA HistoryGrows ==
  ASSUME EventsTypeOK, NEW u \in Updates,
         history' = LET h == Append(history, u) IN IF Len(h) > HistoryLimit THEN Tail(h) ELSE h
  PROVE  /\ history' \in Seq(Updates) /\ Len(history') <= HistoryLimit /\ history' # <<>>
         /\ \E drop \in {0, 1} :
              /\ Len(history') = Len(history) + 1 - drop /\ drop <= Len(history)
              /\ DOMAIN history = 1..Len(history) /\ DOMAIN history' = 1..Len(history')
              /\ history'[Len(history')] = u
              /\ \A i \in 1..(Len(history') - 1) : history'[i] = history[i + drop]
<1>. DEFINE h == Append(history, u)
            Grown(drop) ==
              /\ Len(history') = Len(history) + 1 - drop /\ drop <= Len(history)
              /\ DOMAIN history = 1..Len(history) /\ DOMAIN history' = 1..Len(history')
              /\ history'[Len(history')] = u
              /\ \A i \in 1..(Len(history') - 1) : history'[i] = history[i + drop]
<1>1. /\ h \in Seq(Updates) /\ Len(h) = Len(history) + 1 /\ Len(history) \in Nat /\ h[Len(history) + 1] = u
      /\ \A i \in 1..Len(history) : h[i] = history[i]
  BY DEF EventsTypeOK
<1>2. HistoryLimit \in Nat /\ HistoryLimit >= 1
  BY EventsAssumption
<1>3. Len(history) <= HistoryLimit /\ DOMAIN history = 1..Len(history)
  BY DEF EventsTypeOK
<1>. HIDE DEF h
<1>4. CASE Len(h) > HistoryLimit
  <2>1. history' = Tail(h) /\ h # <<>>
    BY <1>1, <1>4 DEF h
  <2>2. history' \in Seq(Updates) /\ Len(history') = Len(h) - 1
    BY <1>1, <2>1, HeadTailProperties
  <2>3. \A i \in 1..Len(history') : history'[i] = h[i + 1]
    BY <1>1, <2>1, HeadTailProperties
  <2>4. Len(history') = Len(history) /\ DOMAIN history' = 1..Len(history') /\ Len(history) >= 1
    BY <1>1, <1>2, <1>4, <2>2
  <2>5. history'[Len(history')] = u
    <3>1. Len(history') \in 1..Len(history') /\ Len(history') + 1 = Len(history) + 1
      BY <1>1, <2>4
    <3>. QED BY <1>1, <2>3, <3>1
  <2>6. ASSUME NEW i \in 1..(Len(history') - 1)  PROVE history'[i] = history[i + 1]
    <3>1. i \in 1..Len(history') /\ i + 1 \in 1..Len(history)
      BY <1>1, <2>4
    <3>. QED BY <1>1, <2>3, <3>1
  <2>7. history' # <<>>
    BY <2>4
  <2>8. Grown(1)
    <3>1. Len(history') = Len(history) + 1 - 1 /\ 1 <= Len(history)
      BY <1>1, <2>4
    <3>. QED BY <1>3, <2>4, <2>5, <2>6, <3>1
  <2>9. Len(history') <= HistoryLimit
    BY <1>3, <2>4
  <2>. QED BY <2>2, <2>7, <2>8, <2>9
<1>5. CASE Len(h) <= HistoryLimit
  <2>1. history' = h
    BY <1>1, <1>2, <1>5 DEF h
  <2>2. /\ history' \in Seq(Updates) /\ Len(history') = Len(history) + 1 /\ DOMAIN history' = 1..Len(history')
        /\ history'[Len(history')] = u
    <3>1. Len(h) = Len(history) + 1 /\ h[Len(h)] = u /\ DOMAIN h = 1..Len(h)
      BY <1>1
    <3>. QED BY <1>1, <2>1, <3>1
  <2>3. ASSUME NEW i \in 1..(Len(history') - 1)  PROVE history'[i] = history[i + 0]
    <3>1. i \in 1..Len(history) /\ i + 0 = i
      BY <1>1, <2>2
    <3>. QED BY <1>1, <2>1, <3>1
  <2>4. history' # <<>> /\ Len(history') <= HistoryLimit
    BY <1>1, <1>5, <2>1, <2>2
  <2>5. Grown(0)
    <3>1. Len(history') = Len(history) + 1 - 0 /\ 0 <= Len(history)
      BY <1>1, <2>2
    <3>. QED BY <1>3, <2>2, <2>3, <3>1
  <2>. QED BY <2>2, <2>4, <2>5
<1>6. Len(h) > HistoryLimit \/ Len(h) <= HistoryLimit
  BY <1>1, <1>2
<1>. QED BY <1>4, <1>5, <1>6

\* After publish() the projection shows what the round has read, and else what it showed.
LEMMA PublishedIsShown ==
  ASSUME EventsTypeOK, Publish
  PROVE  /\ UNCHANGED <<owned, handlers, notifying, dirty, wake, todo, clientVars, changes, breaks, hidden>>
         /\ todo = {} /\ values' \in Values /\ DOMAIN values' = {}
         /\ projection' \in [epoch : Nat, revision : Nat, initialized : BOOLEAN, data : [Topics -> Datum]]
         /\ projection'.epoch = projection.epoch /\ projection'.initialized
         /\ \A t \in Topics : projection'.data[t] = IF t \in DOMAIN values THEN values[t] ELSE projection.data[t]
<1>1. /\ UNCHANGED <<owned, handlers, notifying, dirty, wake, todo, clientVars, changes, breaks, hidden>>
      /\ todo = {} /\ values' = NoValues
  BY DEF Publish
<1>2. values' \in Values /\ DOMAIN values' = {}
  <2>1. NoValues \in [{} -> Datum] /\ DOMAIN NoValues = {}
    BY DEF NoValues
  <2>. QED BY <1>1, <2>1, ValuesAreParts
<1>3. CASE Changed = {} /\ projection.initialized
  <2>1. projection' = projection
    BY <1>3 DEF Publish
  <2>2. \A t \in DOMAIN values : projection.data[t] = values[t]
    BY <1>3 DEF Changed
  <2>. QED BY <1>1, <1>2, <1>3, <2>1, <2>2 DEF EventsTypeOK
<1>4. CASE ~(Changed = {} /\ projection.initialized)
  <2>. DEFINE d == [t \in Topics |-> IF t \in Changed THEN values[t] ELSE projection.data[t]]
  <2>1. projection' = [projection EXCEPT !.initialized = TRUE, !.revision = @ + 1, !.data = d]
    BY <1>4 DEF Publish
  <2>2. d \in [Topics -> Datum]
    BY ChangedIsTyped DEF EventsTypeOK, Changed
  <2>3. \A t \in Topics : d[t] = IF t \in DOMAIN values THEN values[t] ELSE projection.data[t]
    BY DEF Changed
  <2>. HIDE DEF d
  <2>4. /\ projection' \in [epoch : Nat, revision : Nat, initialized : BOOLEAN, data : [Topics -> Datum]]
        /\ projection'.epoch = projection.epoch /\ projection'.initialized /\ projection'.data = d
    <3>1. projection' = [epoch |-> projection.epoch, revision |-> projection.revision + 1, initialized |-> TRUE, data |-> d]
      BY <2>1 DEF EventsTypeOK
    <3>2. projection.epoch \in Nat /\ projection.revision + 1 \in Nat
      BY DEF EventsTypeOK
    <3>. QED BY <2>2, <3>1, <3>2
  <2>. QED BY <1>1, <1>2, <2>3, <2>4
<1>. QED BY <1>3, <1>4

\* It forgets no topic.
LEMMA PublishKeepsPending ==
  ASSUME EventsTypeOK, OverviewFollows, AllPending, Publish
  PROVE  OverviewFollows' /\ AllPending'
<1>1. OverviewFollows'
  BY PublishedIsShown DEF OverviewFollows, Status, Topics, Owned
<1>2. Truth' = Truth
  BY PublishedIsShown DEF Truth
<1>3. ASSUME NEW t \in Topics \ hidden'  PROVE Pending(t)'
  <2>1. Pending(t)
    BY <1>3, PublishedIsShown DEF AllPending
  <2>. QED BY <1>2, <1>3, <2>1, PublishedIsShown DEF Pending
<1>. QED BY <1>1, <1>3 DEF AllPending

\* The revision, the history and the topics of an update that is published.
LEMMA UpdateIsAppended ==
  ASSUME EventsTypeOK, Publish, ~(Changed = {} /\ projection.initialized)
  PROVE  /\ projection'.revision = projection.revision + 1
         /\ \A t \in Topics : projection'.data[t] = IF t \in Changed THEN values[t] ELSE projection.data[t]
         /\ history' \in Seq(Updates) /\ Len(history') <= HistoryLimit /\ history' # <<>>
         /\ \E drop \in {0, 1} :
              /\ Len(history') = Len(history) + 1 - drop /\ drop <= Len(history)
              /\ DOMAIN history = 1..Len(history) /\ DOMAIN history' = 1..Len(history')
              /\ history'[Len(history')].revision = projection.revision + 1
              /\ history'[Len(history')].epoch = projection.epoch
              /\ DOMAIN history'[Len(history')].data = Changed
              /\ \A t \in Changed : history'[Len(history')].data[t] = values[t]
              /\ \A i \in 1..(Len(history') - 1) : history'[i] = history[i + drop]
<1>. DEFINE u == Update([t \in Changed |-> values[t]], "update")
            d == [t \in Topics |-> IF t \in Changed THEN values[t] ELSE projection.data[t]]
<1>1. /\ projection' = [projection EXCEPT !.initialized = TRUE, !.revision = @ + 1, !.data = d]
      /\ history' = LET h == Append(history, u) IN IF Len(h) > HistoryLimit THEN Tail(h) ELSE h
  BY DEF Publish
<1>2. u \in Updates
  BY ChangedIsTyped
<1>3. u.revision = projection.revision + 1 /\ u.epoch = projection.epoch /\ DOMAIN u.data = Changed /\ \A t \in Changed : u.data[t] = values[t]
  BY DEF Update
<1>4. /\ projection'.revision = projection.revision + 1
      /\ \A t \in Topics : projection'.data[t] = IF t \in Changed THEN values[t] ELSE projection.data[t]
  <2>1. \A t \in Topics : d[t] = IF t \in Changed THEN values[t] ELSE projection.data[t]
    OBVIOUS
  <2>. HIDE DEF d
  <2>. QED BY <1>1, <2>1 DEF EventsTypeOK
<1>. HIDE DEF u, d
<1>5. history' \in Seq(Updates) /\ Len(history') <= HistoryLimit /\ history' # <<>>
  BY <1>1, <1>2, HistoryGrows
<1>6. PICK drop \in {0, 1} :
        /\ Len(history') = Len(history) + 1 - drop /\ drop <= Len(history)
        /\ DOMAIN history = 1..Len(history) /\ DOMAIN history' = 1..Len(history')
        /\ history'[Len(history')] = u
        /\ \A i \in 1..(Len(history') - 1) : history'[i] = history[i + drop]
  BY <1>1, <1>2, HistoryGrows
<1>7. /\ history'[Len(history')].revision = projection.revision + 1
      /\ history'[Len(history')].epoch = projection.epoch
      /\ DOMAIN history'[Len(history')].data = Changed
      /\ \A t \in Changed : history'[Len(history')].data[t] = values[t]
  BY <1>3, <1>6
<1>. QED BY <1>4, <1>5, <1>6, <1>7

\* The queue of a browser is a sequence of updates.
LEMMA QueueIsTyped ==
  ASSUME EventsTypeOK, NEW c \in Clients
  PROVE  /\ Queue(c) \in Seq(Updates) /\ Len(Queue(c)) \in Nat
         /\ stream[c] # Nothing => /\ stream[c] \in Streams
                                   /\ Queue(c) = stream[c].queue
  BY EmptySeq DEF EventsTypeOK, Queue, Streams

\* Every cursor of a browser is of the past, wherever its connection breaks.
LEMMA CursorsAreOld ==
  ASSUME EventsTypeOK, HistoryIsExact, StreamsAreOfThisRun, NEW c \in Clients, NEW k \in 0..Len(Queue(c))
  PROVE  CursorAt(c, k) \in Cursor \cup {Nothing} /\ CursorIsOld(CursorAt(c, k))
<1>1. CASE k = 0
  BY <1>1 DEF CursorAt, EventsTypeOK, StreamsAreOfThisRun, IsOfThisRun
<1>2. CASE k # 0
  <2>1. k \in 1..Len(Queue(c)) /\ Queue(c)[k] \in Updates /\ stream[c] # Nothing
    BY <1>2, QueueIsTyped DEF Queue
  <2>2. projection.initialized /\ Queue(c)[k].epoch = projection.epoch /\ Queue(c)[k].revision <= projection.revision
    BY <2>1, QueueIsTyped DEF StreamsAreOfThisRun, IsOfThisRun
  <2>3. CursorAt(c, k) = <<Queue(c)[k].epoch, Queue(c)[k].revision>>
    BY <1>2 DEF CursorAt
  <2>4. CursorAt(c, k) \in Cursor
    BY <2>1, <2>3 DEF Cursor, Updates
  <2>5. projection.epoch <= projection.epoch
    BY DEF EventsTypeOK
  <2>. QED BY <2>2, <2>3, <2>4, <2>5 DEF CursorIsOld, HistoryIsExact
<1>. QED BY <1>1, <1>2

\* A published update reaches every browser that the history covers.
LEMMA PublishKeepsBrowsers ==
  ASSUME EventsTypeOK, HistoryHasNoGap, HistoryIsExact, StreamsAreOfThisRun, PrefixesAreExact, Publish
  PROVE  HistoryHasNoGap' /\ HistoryIsExact' /\ StreamsAreOfThisRun' /\ PrefixesAreExact'
<1>1. UNCHANGED <<stream, last, view>> /\ projection'.initialized /\ projection'.epoch = projection.epoch
  BY PublishedIsShown DEF clientVars
<1>2. CASE Changed = {} /\ projection.initialized
  <2>1. UNCHANGED <<projection, history>>
    BY <1>2 DEF Publish
  <2>. QED BY <1>1, <2>1, UnseenKeepsBrowsers
<1>3. CASE ~(Changed = {} /\ projection.initialized)
  <2>1. /\ projection'.revision = projection.revision + 1
        /\ \A t \in Topics : projection'.data[t] = IF t \in Changed THEN values[t] ELSE projection.data[t]
        /\ history' # <<>> /\ history' \in Seq(Updates)
    BY <1>3, UpdateIsAppended
  <2>2. PICK drop \in {0, 1} :
          /\ Len(history') = Len(history) + 1 - drop /\ drop <= Len(history)
          /\ DOMAIN history = 1..Len(history) /\ DOMAIN history' = 1..Len(history')
          /\ history'[Len(history')].revision = projection.revision + 1
          /\ history'[Len(history')].epoch = projection.epoch
          /\ DOMAIN history'[Len(history')].data = Changed
          /\ \A t \in Changed : history'[Len(history')].data[t] = values[t]
          /\ \A i \in 1..(Len(history') - 1) : history'[i] = history[i + drop]
    BY <1>3, UpdateIsAppended
  <2>3. /\ Len(history) \in Nat /\ Len(history') \in Nat /\ Len(history') >= 1 /\ projection.revision \in Nat
        /\ \A i \in 1..Len(history) : history[i] \in Updates
        /\ projection.epoch \in Nat /\ Changed \subseteq Topics
        /\ drop \in Nat /\ (drop = 0 \/ drop = 1)
    BY <2>1, <2>2, ChangedIsTyped DEF EventsTypeOK
  <2>4. ASSUME NEW i \in 1..(Len(history') - 1)
        PROVE  i + drop \in 1..Len(history) /\ history'[i] = history[i + drop]
    <3>1. Len(history') - 1 = Len(history) - drop
      BY <2>2, <2>3
    <3>2. i \in Nat /\ i >= 1 /\ i <= Len(history) - drop
      BY <2>3, <3>1
    <3>3. i + drop \in 1..Len(history)
      BY <2>3, <3>2
    <3>. QED BY <2>2, <3>3
  <2>5. HistoryHasNoGap'
    <3>1. ASSUME NEW i \in 1..Len(history')
          PROVE  history'[i].revision = projection'.revision - Len(history') + i
      <4>1. CASE i = Len(history')
        BY <2>1, <2>2, <2>3, <4>1
      <4>2. CASE i # Len(history')
        <5>1. i \in 1..(Len(history') - 1)
          BY <2>3, <4>2
        <5>2. history[i + drop].revision = projection.revision - Len(history) + (i + drop)
          BY <2>2, <2>4, <5>1 DEF HistoryHasNoGap
        <5>3. history'[i].revision = projection.revision - Len(history) + (i + drop)
          BY <2>4, <5>1, <5>2
        <5>4. Len(history') = Len(history) + 1 - drop /\ projection'.revision = projection.revision + 1
          BY <2>1, <2>2
        <5>5. projection.revision - Len(history) + (i + drop) = projection'.revision - Len(history') + i
          BY <2>3, <5>4
        <5>. QED BY <5>3, <5>5
      <4>. QED BY <4>1, <4>2
    <3>. QED BY <2>2, <3>1 DEF HistoryHasNoGap
  <2>6. HistoryIsExact'
    <3>1. ASSUME NEW i \in 1..Len(history'), NEW t \in DOMAIN history'[i].data,
                 \A j \in 1..Len(history') : j > i => t \notin DOMAIN history'[j].data
          PROVE  history'[i].data[t] = projection'.data[t]
      <4>1. CASE i = Len(history')
        <5>1. t \in Changed
          BY <2>2, <4>1
        <5>. QED BY <2>1, <2>2, <2>3, <4>1, <5>1
      <4>2. CASE i # Len(history')
        <5>1. i \in 1..(Len(history') - 1) /\ Len(history') \in 1..Len(history') /\ Len(history') > i
          BY <2>3, <4>2
        <5>2. t \notin Changed
          BY <2>2, <3>1, <5>1
        <5>3. i + drop \in 1..Len(history) /\ history'[i] = history[i + drop]
          BY <2>4, <5>1
        <5>4. ASSUME NEW j \in 1..Len(history), j > i + drop  PROVE t \notin DOMAIN history[j].data
          <6>1. j - drop \in 1..(Len(history') - 1) /\ j - drop > i /\ (j - drop) + drop = j
            BY <2>2, <2>3, <5>4
          <6>2. history'[j - drop] = history[(j - drop) + drop] /\ j - drop \in 1..Len(history')
            BY <2>3, <2>4, <6>1
          <6>. QED BY <3>1, <6>1, <6>2
        <5>5. history[i + drop].data[t] = projection.data[t]
          <6>1. i + drop \in DOMAIN history /\ t \in DOMAIN history[i + drop].data
            BY <2>2, <3>1, <5>3
          <6>2. \A j \in DOMAIN history : j > i + drop => t \notin DOMAIN history[j].data
            BY <2>2, <5>4
          <6>. QED BY <6>1, <6>2 DEF HistoryIsExact
        <5>6. t \in Topics
          BY <2>3, <5>3, ValuesAreParts DEF Updates
        <5>. QED BY <2>1, <5>2, <5>3, <5>5, <5>6
      <4>. QED BY <4>1, <4>2
    <3>2. ASSUME NEW i \in 1..Len(history')  PROVE history'[i].epoch = projection'.epoch
      <4>1. i = Len(history') \/ i \in 1..(Len(history') - 1)
        BY <2>3
      <4>2. ASSUME i \in 1..(Len(history') - 1)  PROVE history'[i].epoch = projection.epoch
        <5>1. i + drop \in DOMAIN history /\ history'[i] = history[i + drop]
          BY <2>2, <2>4, <4>2
        <5>. QED BY <5>1 DEF HistoryIsExact
      <4>. QED BY <1>1, <2>2, <4>1, <4>2
    <3>. QED BY <1>1, <2>1, <2>2, <3>1, <3>2 DEF HistoryIsExact
  <2>7. ASSUME NEW cursor \in Cursor \cup {Nothing}, CursorIsOld(cursor)  PROVE CursorIsOld(cursor)'
    BY <1>1, <2>1, <2>3, <2>7 DEF CursorIsOld, Cursor
  <2>8. StreamsAreOfThisRun'
    <3>1. ASSUME NEW c \in Clients  PROVE CursorIsOld(last[c])'
      BY <1>1, <2>7 DEF StreamsAreOfThisRun, IsOfThisRun, EventsTypeOK
    <3>2. ASSUME NEW c \in Clients, stream[c] # Nothing, NEW i \in DOMAIN stream[c].queue
          PROVE  stream[c].queue[i].revision <= projection'.revision
      <4>1. stream[c].queue[i].revision <= projection.revision /\ stream[c].queue[i] \in Updates
        BY <3>2, QueueIsTyped DEF StreamsAreOfThisRun, IsOfThisRun
      <4>. QED BY <2>1, <2>3, <4>1 DEF Updates
    <3>. QED BY <1>1, <3>1, <3>2 DEF StreamsAreOfThisRun, IsOfThisRun
  <2>9. PrefixesAreExact'
    <3>1. ASSUME NEW c \in Clients, NEW k \in 0..Len(Queue(c)), NEW cursor, cursor = CursorAt(c, k),
                 Replayable(cursor)', NEW t \in Topics, Settled(cursor[2], t)'
          PROVE  Shows(view[c], Queue(c), k, t, projection'.data[t])
      <4>1. cursor # Nothing /\ cursor[1] = projection.epoch /\ cursor[2] >= history'[1].revision - 1
        BY <1>1, <3>1 DEF Replayable
      <4>2. cursor \in Cursor /\ history # <<>> /\ cursor[2] <= projection.revision
        BY <3>1, <4>1, CursorsAreOld DEF CursorIsOld
      <4>3. cursor[2] \in Nat
        BY <4>2 DEF Cursor
      <4>4. history'[1].revision = projection.revision + 1 - Len(history') + 1 /\ Len(history) >= 1
        <5>1. 1 \in DOMAIN history'
          BY <2>2, <2>3
        <5>2. history'[1].revision = projection'.revision - Len(history') + 1
          BY <2>5, <5>1 DEF HistoryHasNoGap
        <5>3. Len(history) # 0
          BY <4>2, EmptySeq DEF EventsTypeOK
        <5>. QED BY <2>1, <2>3, <5>2, <5>3
      <4>5. cursor[2] >= projection.revision - Len(history) + drop
        BY <2>2, <2>3, <4>1, <4>3, <4>4
      <4>6. Replayable(cursor)
        <5>1. 1 \in DOMAIN history
          BY <2>2, <2>3, <4>4
        <5>2. history[1].revision = projection.revision - Len(history) + 1
          BY <5>1 DEF HistoryHasNoGap
        <5>3. cursor[2] >= history[1].revision - 1
          BY <2>3, <4>3, <4>5, <5>2
        <5>. QED BY <4>1, <4>2, <5>3 DEF Replayable
      <4>7. t \notin Changed
        BY <2>2, <2>3, <3>1, <4>2, <4>3 DEF Settled
      <4>8. ASSUME NEW i \in 1..Len(history), history[i].revision > cursor[2]
            PROVE  t \notin DOMAIN history[i].data
        <5>1. history[i].revision = projection.revision - Len(history) + i
          BY <2>2 DEF HistoryHasNoGap
        <5>2. i \in Nat /\ i > drop /\ i <= Len(history)
          <6>1. projection.revision - Len(history) + i > projection.revision - Len(history) + drop
            BY <2>3, <4>3, <4>5, <4>8, <5>1
          <6>. QED BY <2>3, <6>1
        <5>3. i - drop \in 1..(Len(history') - 1) /\ (i - drop) + drop = i
          BY <2>2, <2>3, <5>2
        <5>4. history'[i - drop] = history[i] /\ i - drop \in DOMAIN history'
          BY <2>2, <2>3, <2>4, <5>3
        <5>. QED BY <3>1, <4>8, <5>4 DEF Settled
      <4>9. Settled(cursor[2], t)
        BY <2>2, <4>8 DEF Settled
      <4>10. Shows(view[c], Queue(c), k, t, projection.data[t])
        BY <3>1, <4>6, <4>9 DEF PrefixesAreExact, IsExact
      <4>. QED BY <2>1, <4>7, <4>10
    <3>2. \A c \in Clients : Queue(c)' = Queue(c)
      BY <1>1 DEF Queue
    <3>3. ASSUME NEW c \in Clients, NEW k \in 0..Len(Queue(c)'), Replayable(CursorAt(c, k))',
                 NEW t \in Topics, Settled(CursorAt(c, k)[2], t)'
          PROVE  Shows(view[c], Queue(c), k, t, projection.data[t])'
      <4>1. k \in 0..Len(Queue(c)) /\ CursorAt(c, k)' = CursorAt(c, k)
        BY <1>1, <3>2, <3>3 DEF CursorAt
      <4>2. Shows(view[c], Queue(c), k, t, projection'.data[t])
        BY <3>1, <3>3, <4>1 DEF Replayable, Settled
      <4>. QED BY <1>1, <3>2, <4>2 DEF Shows
    <3>. QED BY <3>3 DEF PrefixesAreExact, IsExact
  <2>. QED BY <2>5, <2>6, <2>8, <2>9
<1>. QED BY <1>2, <1>3

\* publish() keeps the types.
LEMMA PublishIsTyped ==
  ASSUME EventsTypeOK, Publish
  PROVE  EventsTypeOK'
<1>1. history' \in Seq(Updates) /\ Len(history') <= HistoryLimit
  <2>1. CASE Changed = {} /\ projection.initialized
    BY <2>1 DEF Publish, EventsTypeOK
  <2>2. CASE ~(Changed = {} /\ projection.initialized)
    BY <2>2, UpdateIsAppended
  <2>. QED BY <2>1, <2>2
<1>2. values' \in Values
  BY PublishedIsShown
<1>3. projection' \in [epoch : Nat, revision : Nat, initialized : BOOLEAN, data : [Topics -> Datum]]
  BY PublishedIsShown
<1>4. UNCHANGED <<owned, handlers, notifying, dirty, wake, todo, clientVars, changes, breaks, hidden>>
  BY PublishedIsShown
<1>. QED BY <1>1, <1>2, <1>3, <1>4 DEF EventsTypeOK, clientVars

\* A finite set of positions has a last one.
LEMMA LastExists ==
  ASSUME NEW n \in Nat, NEW S, S \subseteq 1..n, S # {}
  PROVE  \E i \in S : \A j \in S : j <= i
<1>. DEFINE R == {ss \in Nat \X Nat : ss[1] < ss[2]}
            T == {n - i : i \in S}
<1>1. IsWellFoundedOn(R, Nat)
  BY NatLessThanWellFounded, Zenon DEF OpToRel
<1>2. T \subseteq Nat /\ T # {}
  <2>1. \A i \in S : i \in 1..n /\ n - i \in Nat
    OBVIOUS
  <2>. QED BY <2>1
<1>. HIDE DEF R
<1>3. PICK m \in T : \A x \in T : ~(<<x, m>> \in R)
  BY <1>1, <1>2, WFMin
<1>4. PICK i \in S : m = n - i
  BY <1>3
<1>5. ASSUME NEW j \in S  PROVE j <= i
  <2>1. n - j \in T /\ n - j \in Nat /\ m \in Nat
    BY <1>2
  <2>. HIDE DEF T
  <2>2. <<n - j, m>> \in Nat \X Nat /\ <<n - j, m>>[1] = n - j /\ <<n - j, m>>[2] = m
    BY <2>1
  <2>3. ~(<<n - j, m>>[1] < <<n - j, m>>[2])
    BY <1>3, <2>1, <2>2 DEF R
  <2>. QED BY <1>4, <2>1, <2>2, <2>3
<1>. QED BY <1>5

\* A browser that takes a sequence of updates shows for a topic what the last one with it has.
LEMMA MergedIsShown ==
  ASSUME NEW d, NEW us \in Seq(Updates), NEW t \in Topics, NEW v, Shows(d, us, Len(us), t, v)
  PROVE  Merged(d, us)[t] = v
<1>. DEFINE S == {i \in DOMAIN us : t \in DOMAIN us[i].data}
            latest == CHOOSE i \in S : \A j \in S : j <= i
<1>1. Merged(d, us)[t] = IF S = {} THEN d[t] ELSE us[latest].data[t]
  BY DEF Merged
<1>2. DOMAIN us = 1..Len(us) /\ Len(us) \in Nat
  OBVIOUS
<1>3. ASSUME NEW i \in 1..Len(us), t \in DOMAIN us[i].data, v = us[i].data[t],
             \A j \in 1..Len(us) : j > i => t \notin DOMAIN us[j].data
      PROVE  Merged(d, us)[t] = v
  <2>1. i \in S /\ \A j \in S : j <= i
    BY <1>2, <1>3
  <2>2. latest \in S /\ \A j \in S : j <= latest
    BY <2>1
  <2>3. latest = i
    BY <1>2, <2>1, <2>2
  <2>. QED BY <1>1, <1>3, <2>1, <2>3
<1>4. ASSUME v = d[t], \A j \in 1..Len(us) : t \notin DOMAIN us[j].data
      PROVE  Merged(d, us)[t] = v
  <2>1. S = {}
    BY <1>2, <1>4
  <2>. QED BY <1>1, <1>4, <2>1
<1>. QED BY <1>3, <1>4 DEF Shows

\* One update replaces the topics that it carries.
LEMMA MergedOne ==
  ASSUME NEW d \in [Topics -> Datum], NEW u \in Updates
  PROVE  /\ Merged(d, <<u>>) \in [Topics -> Datum]
         /\ \A t \in Topics : Merged(d, <<u>>)[t] = IF t \in DOMAIN u.data THEN u.data[t] ELSE d[t]
<1>1. ASSUME NEW t \in Topics
      PROVE  Merged(d, <<u>>)[t] = IF t \in DOMAIN u.data THEN u.data[t] ELSE d[t]
  <2>1. <<u>> \in Seq(Updates) /\ Len(<<u>>) = 1 /\ <<u>>[1] = u /\ 1..1 = {1}
    OBVIOUS
  <2>2. Shows(d, <<u>>, 1, t, IF t \in DOMAIN u.data THEN u.data[t] ELSE d[t])
    BY <2>1 DEF Shows
  <2>. QED BY <2>1, <2>2, MergedIsShown
<1>2. u.data \in Values
  BY DEF Updates
<1>3. \A t \in Topics : (IF t \in DOMAIN u.data THEN u.data[t] ELSE d[t]) \in Datum
  BY <1>2, ValuesAreParts
<1>. QED BY <1>1, <1>3 DEF Merged

\* What a replay has: the revisions after the cursor, each once.
LEMMA NewerIsRest ==
  ASSUME EventsTypeOK, HistoryHasNoGap, NEW cursor \in Cursor, Replayable(cursor)
  PROVE  \E m \in 0..Len(history) :
           /\ Newer(cursor[2]) \in Seq(Updates) /\ Len(Newer(cursor[2])) = Len(history) - m
           /\ \A i \in 1..(Len(history) - m) : Newer(cursor[2])[i] = history[i + m]
           /\ \A i \in 1..Len(history) :
                /\ history[i].revision > cursor[2] <=> i > m
                /\ history[i].revision = cursor[2] + i - m
<1>. DEFINE n == Len(history)  r == cursor[2]  m == r - (projection.revision - n)
            Seen == {i \in DOMAIN history : history[i].revision <= r}
<1>1. n \in Nat /\ r \in Nat /\ projection.revision \in Nat /\ DOMAIN history = 1..n
  BY DEF EventsTypeOK, Cursor
<1>2. n >= 1
  BY <1>1, EmptySeq DEF Replayable, EventsTypeOK
<1>3. \A i \in 1..n : history[i] \in Updates /\ history[i].revision = projection.revision - n + i
  BY <1>1 DEF HistoryHasNoGap, EventsTypeOK
<1>4. 1 \in 1..n /\ history[1].revision = projection.revision - n + 1
  BY <1>1, <1>2, <1>3
<1>5. r <= projection.revision /\ r >= projection.revision - n
  BY <1>1, <1>4 DEF Replayable
<1>. HIDE DEF n, r
<1>6. m \in 0..n
  BY <1>1, <1>5
<1>7. \A i \in 1..n : history[i].revision = r + i - m
  BY <1>1, <1>3
<1>. HIDE DEF m
<1>8. \A i \in 1..n : history[i].revision > r <=> i > m
  BY <1>1, <1>6, <1>7
<1>9. Seen = 1..m
  BY <1>1, <1>6, <1>7
<1>. HIDE DEF Seen
<1>10. Cardinality(Seen) = m
  <2>1. Cardinality(1..m) = IF 1 > m THEN 0 ELSE m - 1 + 1
    BY <1>1, <1>6, FS_Interval
  <2>. QED BY <1>1, <1>6, <1>9, <2>1
<1>11. Newer(r) = SubSeq(history, m + 1, n)
  BY <1>10 DEF Newer, Seen, n
<1>12. \A i \in (m + 1)..n : history[i] \in Updates
  BY <1>1, <1>3, <1>6
<1>13. /\ Newer(r) \in Seq(Updates) /\ Len(Newer(r)) = IF m + 1 <= n THEN n - (m + 1) + 1 ELSE 0
       /\ \A i \in 1..(n - (m + 1) + 1) : Newer(r)[i] = history[(m + 1) + i - 1]
  <2>1. m + 1 \in Int /\ n \in Int
    BY <1>1, <1>6
  <2>. QED BY <1>11, <1>12, <2>1, SubSeqProperties
<1>14. Len(Newer(r)) = n - m
  BY <1>1, <1>6, <1>13
<1>15. ASSUME NEW i \in 1..(n - m)  PROVE Newer(r)[i] = history[i + m]
  <2>1. i \in 1..(n - (m + 1) + 1) /\ (m + 1) + i - 1 = i + m
    BY <1>1, <1>6
  <2>. QED BY <1>13, <2>1
<1>. QED BY <1>6, <1>7, <1>8, <1>13, <1>14, <1>15 DEF n, r

\* What a stream is filled with reaches the current revision.
LEMMA AfterIsTyped ==
  ASSUME EventsTypeOK, HistoryHasNoGap, HistoryIsExact, NEW c \in Clients, NEW q, q = after(last[c])
  PROVE  /\ q \in Seq(Updates)
         /\ \A i \in 1..Len(q) : q[i].epoch = projection.epoch /\ q[i].revision <= projection.revision
<1>1. last[c] \in Cursor \cup {Nothing} /\ projection.revision \in Nat
  BY DEF EventsTypeOK
<1>2. CASE Replayable(last[c])
  <2>1. last[c] \in Cursor /\ q = Newer(last[c][2])
    BY <1>1, <1>2 DEF Replayable, after
  <2>2. PICK m \in 0..Len(history) :
          /\ q \in Seq(Updates) /\ Len(q) = Len(history) - m
          /\ \A i \in 1..(Len(history) - m) : q[i] = history[i + m]
    BY <1>2, <2>1, NewerIsRest
  <2>3. Len(history) \in Nat /\ DOMAIN history = 1..Len(history)
    BY DEF EventsTypeOK
  <2>4. ASSUME NEW i \in 1..Len(q)
        PROVE  q[i].epoch = projection.epoch /\ q[i].revision <= projection.revision
    <3>1. i + m \in 1..Len(history) /\ q[i] = history[i + m]
      BY <2>2, <2>3
    <3>2. history[i + m].revision = projection.revision - Len(history) + (i + m)
      BY <2>3, <3>1 DEF HistoryHasNoGap
    <3>3. history[i + m].epoch = projection.epoch
      BY <2>3, <3>1 DEF HistoryIsExact
    <3>. QED BY <1>1, <2>3, <3>1, <3>2, <3>3
  <2>. QED BY <2>2, <2>4
<1>3. CASE ~Replayable(last[c])
  <2>. DEFINE u == [epoch |-> projection.epoch, revision |-> projection.revision, kind |-> "snapshot",
                    data |-> projection.data]
  <2>1. projection.data \in Values
    BY ValuesAreParts DEF EventsTypeOK
  <2>2. u \in Updates /\ u.epoch = projection.epoch /\ u.revision = projection.revision
    BY <1>1, <2>1 DEF Updates, EventsTypeOK
  <2>3. q = <<u>>
    BY <1>3 DEF after
  <2>. HIDE DEF u
  <2>. QED BY <1>1, <2>2, <2>3
<1>. QED BY <1>2, <1>3

\* What a browser does leaves the projection as it is.
LEMMA ClientKeepsServer ==
  ASSUME HistoryHasNoGap, HistoryIsExact, OverviewFollows, AllPending, ClientFrame
  PROVE  /\ HistoryHasNoGap' /\ HistoryIsExact' /\ OverviewFollows' /\ AllPending'
         /\ UNCHANGED <<projection, history>>
<1>1. UNCHANGED <<owned, handlers, dirty, todo, values, projection, history, hidden>>
  BY DEF ClientFrame, projectorVars
<1>2. HistoryHasNoGap' /\ HistoryIsExact' /\ OverviewFollows'
  BY <1>1 DEF HistoryHasNoGap, HistoryIsExact, OverviewFollows, Status
<1>3. AllPending'
  BY <1>1 DEF AllPending, Pending, Truth
<1>. QED BY <1>1, <1>2, <1>3

\* The browsers do not disturb each other.
LEMMA OneBrowser ==
  ASSUME StreamsAreOfThisRun, PrefixesAreExact, UNCHANGED <<projection, history>>, NEW c \in Clients,
         \A d \in Clients \ {c} : stream'[d] = stream[d] /\ last'[d] = last[d] /\ view'[d] = view[d],
         IsOfThisRun(c)', IsExact(c)'
  PROVE  StreamsAreOfThisRun' /\ PrefixesAreExact'
<1>1. ASSUME NEW d \in Clients \ {c}  PROVE IsOfThisRun(d)' /\ IsExact(d)'
  <2>1. stream'[d] = stream[d] /\ last'[d] = last[d] /\ view'[d] = view[d] /\ Queue(d)' = Queue(d)
    BY DEF Queue
  <2>2. IsOfThisRun(d) /\ IsExact(d)
    BY DEF StreamsAreOfThisRun, PrefixesAreExact
  <2>3. IsOfThisRun(d)'
    BY <2>1, <2>2 DEF IsOfThisRun, CursorIsOld
  <2>4. IsExact(d)'
    BY <2>1, <2>2 DEF IsExact, CursorAt, Replayable, Settled, Shows
  <2>. QED BY <2>3, <2>4
<1>. QED BY <1>1 DEF StreamsAreOfThisRun, PrefixesAreExact

\* A browser whose queue is empty, before or after, shows what it showed.
LEMMA EmptyQueueIsExact ==
  ASSUME NEW c \in Clients, IsExact(c), UNCHANGED <<projection, history>>,
         EventsTypeOK, last'[c] = last[c], view'[c] = view[c], Queue(c)' = <<>>
  PROVE  IsExact(c)'
<1>1. Len(Queue(c)') = 0 /\ 0..0 = {0} /\ 0 \in 0..Len(Queue(c))
  BY QueueIsTyped
<1>2. CursorAt(c, 0) = last[c] /\ CursorAt(c, 0)' = last[c]
  BY DEF CursorAt
<1>3. ASSUME Replayable(CursorAt(c, 0))', NEW t \in Topics, Settled(CursorAt(c, 0)[2], t)'
      PROVE  Shows(view[c], Queue(c), 0, t, projection.data[t])'
  <2>1. Replayable(last[c]) /\ Settled(last[c][2], t)
    BY <1>2, <1>3 DEF Replayable, Settled
  <2>2. Shows(view[c], Queue(c), 0, t, projection.data[t])
    BY <1>1, <1>2, <2>1 DEF IsExact
  <2>3. 1..0 = {}
    OBVIOUS
  <2>4. view[c][t] = projection.data[t]
    BY <2>2, <2>3 DEF Shows
  <2>. QED BY <2>3, <2>4 DEF Shows
<1>. QED BY <1>1, <1>3 DEF IsExact

\* What a stream is filled with brings its browser up to the projection, event by event.
LEMMA FillIsExact ==
  ASSUME EventsTypeOK, HistoryHasNoGap, HistoryIsExact, NEW c \in Clients, IsExact(c), Queue(c) = <<>>,
         NEW q, q = after(last[c]), NEW k \in 1..Len(q), NEW t \in Topics, Settled(q[k].revision, t)
  PROVE  Shows(view[c], q, k, t, projection.data[t])
<1>1. q \in Seq(Updates) /\ Len(q) \in Nat
  BY AfterIsTyped
<1>2. last[c] \in Cursor \cup {Nothing}
  BY DEF EventsTypeOK
<1>3. CASE ~Replayable(last[c])
  <2>1. Len(q) = 1 /\ q[1].data = projection.data /\ DOMAIN projection.data = Topics
    BY <1>3 DEF after, EventsTypeOK
  <2>2. k = 1 /\ 1..1 = {1}
    BY <1>1, <2>1
  <2>. QED BY <2>1, <2>2 DEF Shows
<1>4. CASE Replayable(last[c])
  <2>. DEFINE r == last[c][2]  n == Len(history)
              S == {i \in 1..k : t \in DOMAIN q[i].data}
  <2>1. last[c] \in Cursor /\ q = Newer(r) /\ n \in Nat /\ DOMAIN history = 1..n /\ r \in Nat
    BY <1>2, <1>4 DEF Replayable, after, EventsTypeOK, Cursor
  <2>2. PICK m \in 0..n :
          /\ Len(q) = n - m
          /\ \A i \in 1..(n - m) : q[i] = history[i + m]
          /\ \A i \in 1..n : /\ history[i].revision > r <=> i > m
                             /\ history[i].revision = r + i - m
    BY <1>4, <2>1, NewerIsRest
  <2>. HIDE DEF r, n
  <2>3. k \in Nat /\ k >= 1 /\ k <= n - m /\ m \in Nat
    BY <1>1, <2>1, <2>2
  <2>4. \A i \in 1..k : i + m \in 1..n /\ q[i] = history[i + m]
    BY <2>1, <2>2, <2>3
  <2>5. q[k].revision = r + k
    <3>1. k \in 1..k /\ k + m \in 1..n /\ q[k] = history[k + m]
      BY <2>3, <2>4
    <3>2. history[k + m].revision = r + (k + m) - m
      BY <2>2, <3>1
    <3>. QED BY <2>1, <2>3, <3>1, <3>2
  <2>6. ASSUME NEW j \in 1..n, j > k + m  PROVE t \notin DOMAIN history[j].data
    <3>1. history[j].revision = r + j - m
      BY <2>2
    <3>2. history[j].revision > r + k
      BY <2>1, <2>3, <2>6, <3>1
    <3>. QED BY <2>1, <2>5, <3>2 DEF Settled
  <2>7. ASSUME NEW l \in 0..k, \A j \in 1..k : j > l => t \notin DOMAIN q[j].data,
               NEW j \in 1..n, j > l + m
        PROVE  t \notin DOMAIN history[j].data
    <3>1. CASE j > k + m
      BY <2>6, <3>1
    <3>2. CASE j <= k + m
      <4>1. j - m \in 1..k /\ j - m > l /\ (j - m) + m = j
        BY <2>1, <2>3, <2>7, <3>2
      <4>2. q[j - m] = history[(j - m) + m]
        BY <2>4, <4>1
      <4>. QED BY <2>7, <4>1, <4>2
    <3>. QED BY <2>1, <2>3, <3>1, <3>2
  <2>8. CASE S # {}
    <3>1. S \subseteq 1..k
      OBVIOUS
    <3>2. PICK i \in S : \A j \in S : j <= i
      <4>. HIDE DEF S
      <4>. QED BY <2>3, <2>8, <3>1, LastExists
    <3>3. i \in 1..k /\ t \in DOMAIN q[i].data /\ \A j \in 1..k : j > i => t \notin DOMAIN q[j].data
      BY <2>3, <3>2
    <3>4. i + m \in DOMAIN history /\ q[i] = history[i + m] /\ t \in DOMAIN history[i + m].data
      BY <2>1, <2>4, <3>3
    <3>5. ASSUME NEW j \in DOMAIN history, j > i + m  PROVE t \notin DOMAIN history[j].data
      <4>1. i \in 0..k /\ j \in 1..n
        BY <2>1, <2>3, <3>3
      <4>. HIDE DEF S
      <4>. QED BY <2>7, <3>3, <3>5, <4>1
    <3>6. history[i + m].data[t] = projection.data[t]
      BY <3>4, <3>5 DEF HistoryIsExact
    <3>. QED BY <3>3, <3>4, <3>6 DEF Shows
  <2>9. CASE S = {}
    <3>1. \A j \in 1..k : t \notin DOMAIN q[j].data
      BY <2>9
    <3>2. ASSUME NEW j \in 1..n, history[j].revision > r  PROVE t \notin DOMAIN history[j].data
      <4>1. j > 0 + m /\ 0 \in 0..k
        BY <2>1, <2>2, <2>3, <3>2
      <4>. QED BY <2>7, <3>1, <4>1
    <3>3. Settled(last[c][2], t)
      BY <2>1, <3>2 DEF Settled, r
    <3>4. 0 \in 0..Len(Queue(c)) /\ CursorAt(c, 0) = last[c] /\ 1..0 = {}
      BY QueueIsTyped DEF CursorAt
    <3>5. Shows(view[c], Queue(c), 0, t, projection.data[t])
      BY <1>4, <3>3, <3>4 DEF IsExact
    <3>6. view[c][t] = projection.data[t]
      BY <3>4, <3>5 DEF Shows
    <3>. QED BY <3>1, <3>6 DEF Shows
  <2>. QED BY <2>8, <2>9
<1>. QED BY <1>3, <1>4

\* subscribe: the browser gives the id of its last event.
LEMMA SubscribeStep ==
  ASSUME EventsTypeOK, StreamsAreOfThisRun, PrefixesAreExact, NEW c \in Clients, Subscribe(c)
  PROVE  EventsTypeOK' /\ StreamsAreOfThisRun' /\ PrefixesAreExact'
<1>1. /\ UNCHANGED <<last, view, breaks>> /\ ClientFrame /\ UNCHANGED <<projection, history>>
      /\ projection.initialized /\ Queue(c) = <<>>
      /\ stream' = [stream EXCEPT ![c] = [cursor |-> last[c], queue |-> <<>>]]
  BY DEF Subscribe, ClientFrame, projectorVars, Queue
<1>2. [cursor |-> last[c], queue |-> <<>>] \in Streams
  BY EmptySeq DEF EventsTypeOK, Streams
<1>3. EventsTypeOK'
  BY <1>1, <1>2 DEF EventsTypeOK, ClientFrame, projectorVars
<1>4. stream'[c] = [cursor |-> last[c], queue |-> <<>>] /\ \A d \in Clients \ {c} : stream'[d] = stream[d]
  BY <1>1 DEF EventsTypeOK
<1>5. IsOfThisRun(c) /\ IsExact(c)
  BY DEF StreamsAreOfThisRun, PrefixesAreExact
<1>6. Queue(c)' = <<>>
  BY <1>4, QueueIsTyped DEF Queue
<1>7. IsOfThisRun(c)'
  BY <1>1, <1>4, <1>5 DEF IsOfThisRun, CursorIsOld
<1>8. IsExact(c)'
  BY <1>1, <1>5, <1>6, EmptyQueueIsExact
<1>. QED BY <1>1, <1>3, <1>4, <1>7, <1>8, OneBrowser

\* The connection is lost.
LEMMA DisconnectStep ==
  ASSUME EventsTypeOK, StreamsAreOfThisRun, PrefixesAreExact, NEW c \in Clients, Disconnect(c)
  PROVE  EventsTypeOK' /\ StreamsAreOfThisRun' /\ PrefixesAreExact'
<1>1. /\ UNCHANGED <<last, view>> /\ ClientFrame /\ UNCHANGED <<projection, history>>
      /\ stream' = [stream EXCEPT ![c] = Nothing] /\ breaks' \in 0..MaxBreaks
  BY EventsAssumption DEF Disconnect, Break, ClientFrame, projectorVars, EventsTypeOK
<1>2. EventsTypeOK'
  BY <1>1 DEF EventsTypeOK, ClientFrame, projectorVars
<1>3. stream'[c] = Nothing /\ \A d \in Clients \ {c} : stream'[d] = stream[d]
  BY <1>1 DEF EventsTypeOK
<1>4. IsOfThisRun(c) /\ IsExact(c)
  BY DEF StreamsAreOfThisRun, PrefixesAreExact
<1>5. IsOfThisRun(c)'
  BY <1>1, <1>3, <1>4 DEF IsOfThisRun, CursorIsOld
<1>6. Queue(c)' = <<>>
  BY <1>3 DEF Queue
<1>7. IsExact(c)'
  BY <1>1, <1>4, <1>6, EmptyQueueIsExact
<1>. QED BY <1>1, <1>2, <1>3, <1>5, <1>7, OneBrowser

\* A stream is filled from its cursor, which is what the browser gave or the last event it got.
LEMMA FillStep ==
  ASSUME EventsTypeOK, HistoryHasNoGap, HistoryIsExact, StreamsAreOfThisRun, PrefixesAreExact,
         NEW c \in Clients, Fill(c)
  PROVE  EventsTypeOK' /\ StreamsAreOfThisRun' /\ PrefixesAreExact'
<1>. DEFINE q == after(last[c])
<1>1. IsOfThisRun(c) /\ IsExact(c)
  BY DEF StreamsAreOfThisRun, PrefixesAreExact
<1>2. /\ UNCHANGED <<last, view, breaks>> /\ ClientFrame /\ UNCHANGED <<projection, history>>
      /\ stream[c] # Nothing /\ stream[c].queue = <<>> /\ projection.initialized
      /\ stream[c].cursor = last[c] /\ stream' = [stream EXCEPT ![c].queue = q]
  BY <1>1 DEF Fill, ClientFrame, projectorVars, IsOfThisRun
<1>3. /\ q \in Seq(Updates) /\ Len(q) \in Nat /\ DOMAIN q = 1..Len(q)
      /\ \A i \in 1..Len(q) : q[i].epoch = projection.epoch /\ q[i].revision <= projection.revision
  BY AfterIsTyped
<1>4. \A k \in 1..Len(q), t \in Topics : Settled(q[k].revision, t) => Shows(view[c], q, k, t, projection.data[t])
  BY <1>1, <1>2, FillIsExact DEF Queue
<1>. HIDE DEF q
<1>5. stream[c] \in Streams /\ Queue(c) = <<>>
  BY <1>2, QueueIsTyped
<1>6. /\ stream'[c] = [stream[c] EXCEPT !.queue = q] /\ \A d \in Clients \ {c} : stream'[d] = stream[d]
      /\ stream' \in [Clients -> {Nothing} \cup Streams]
  BY <1>2, <1>3, <1>5 DEF EventsTypeOK, Streams
<1>7. EventsTypeOK'
  BY <1>2, <1>6 DEF EventsTypeOK, ClientFrame, projectorVars
<1>8. stream'[c].cursor = last[c] /\ stream'[c].queue = q /\ stream'[c] # Nothing
  <2>1. stream'[c] \in Streams
    BY <1>3, <1>5, <1>6 DEF Streams
  <2>2. Nothing \notin Streams
    BY NoStreamAssumption
  <2>. QED BY <1>2, <1>5, <1>6, <2>1, <2>2 DEF Streams
<1>9. IsOfThisRun(c)'
  BY <1>1, <1>2, <1>3, <1>8 DEF IsOfThisRun, CursorIsOld
<1>10. IsExact(c)'
  <2>1. Queue(c)' = q
    BY <1>8 DEF Queue
  <2>2. ASSUME NEW k \in 0..Len(q), Replayable(CursorAt(c, k))', NEW t \in Topics, Settled(CursorAt(c, k)[2], t)'
        PROVE  Shows(view[c], q, k, t, projection.data[t])
    <3>1. CASE k = 0
      <4>1. CursorAt(c, 0) = last[c] /\ CursorAt(c, k)' = last[c] /\ 0 \in 0..Len(Queue(c)) /\ 1..0 = {}
        BY <1>2, <3>1, QueueIsTyped DEF CursorAt
      <4>2. Replayable(last[c]) /\ Settled(last[c][2], t)
        BY <1>2, <2>2, <4>1 DEF Replayable, Settled
      <4>3. Shows(view[c], Queue(c), 0, t, projection.data[t])
        BY <1>1, <4>1, <4>2 DEF IsExact
      <4>. QED BY <3>1, <4>1, <4>3 DEF Shows
    <3>2. CASE k # 0
      <4>1. CursorAt(c, k)' = <<q[k].epoch, q[k].revision>> /\ k \in 1..Len(q)
        BY <1>3, <2>1, <3>2 DEF CursorAt
      <4>2. Settled(q[k].revision, t)
        BY <1>2, <2>2, <4>1 DEF Settled
      <4>. QED BY <1>4, <4>1, <4>2
    <3>. QED BY <3>1, <3>2
  <2>. QED BY <1>2, <2>1, <2>2 DEF IsExact, Shows
<1>. QED BY <1>2, <1>6, <1>7, <1>9, <1>10, OneBrowser

\* The next event moves from the queue into what the browser shows.
LEMMA ShowsNext ==
  ASSUME NEW d \in [Topics -> Datum], NEW q \in Seq(Updates), q # <<>>, NEW k \in 0..Len(Tail(q)),
         NEW t \in Topics, NEW v, Shows(d, q, k + 1, t, v)
  PROVE  Shows(Merged(d, <<Head(q)>>), Tail(q), k, t, v)
<1>. DEFINE w == Merged(d, <<Head(q)>>)
<1>1. /\ Head(q) \in Updates /\ Head(q) = q[1] /\ Len(q) \in Nat /\ Len(Tail(q)) = Len(q) - 1 /\ k \in Nat
      /\ \A i \in 1..k : i + 1 \in 2..(k + 1) /\ Tail(q)[i] = q[i + 1]
  <2>1. Head(q) \in Updates /\ Len(Tail(q)) = Len(q) - 1 /\ Len(q) \in Nat /\ k \in Nat
        /\ \A i \in 1..Len(Tail(q)) : Tail(q)[i] = q[i + 1]
    BY HeadTailProperties
  <2>2. \A i \in 1..k : i \in 1..Len(Tail(q)) /\ i + 1 \in 2..(k + 1)
    BY <2>1
  <2>3. Head(q) = q[1]
    OBVIOUS
  <2>. QED BY <2>1, <2>2, <2>3
<1>2. w[t] = IF t \in DOMAIN q[1].data THEN q[1].data[t] ELSE d[t]
  BY <1>1, MergedOne
<1>. HIDE DEF w
<1>3. ASSUME NEW l \in 1..(k + 1), \A j \in 1..(k + 1) : j > l => t \notin DOMAIN q[j].data
      PROVE  \A j \in 1..k : j + 1 > l => t \notin DOMAIN Tail(q)[j].data
  <2>1. \A j \in 1..k : j + 1 \in 1..(k + 1) /\ Tail(q)[j] = q[j + 1]
    BY <1>1
  <2>. QED BY <1>3, <2>1
<1>4. ASSUME NEW i \in 1..(k + 1), t \in DOMAIN q[i].data, v = q[i].data[t],
             \A j \in 1..(k + 1) : j > i => t \notin DOMAIN q[j].data
      PROVE  Shows(w, Tail(q), k, t, v)
  <2>1. CASE i = 1
    <3>1. \A j \in 1..k : t \notin DOMAIN Tail(q)[j].data
      <4>1. \A j \in 1..k : j + 1 > 1 => t \notin DOMAIN Tail(q)[j].data
        BY <1>3, <1>4, <2>1
      <4>2. \A j \in 1..k : j + 1 > 1
        OBVIOUS
      <4>. QED BY <4>1, <4>2
    <3>2. w[t] = v
      BY <1>2, <1>4, <2>1
    <3>. QED BY <3>1, <3>2 DEF Shows
  <2>2. CASE i # 1
    <3>1. i - 1 \in 1..k /\ (i - 1) + 1 = i
      BY <1>1, <2>2
    <3>2. Tail(q)[i - 1] = q[i]
      BY <1>1, <3>1
    <3>3. \A j \in 1..k : j > i - 1 => t \notin DOMAIN Tail(q)[j].data
      <4>1. \A j \in 1..k : j + 1 > i => t \notin DOMAIN Tail(q)[j].data
        BY <1>3, <1>4
      <4>2. \A j \in 1..k : j > i - 1 => j + 1 > i
        OBVIOUS
      <4>. QED BY <4>1, <4>2
    <3>. QED BY <1>4, <3>1, <3>2, <3>3 DEF Shows
  <2>. QED BY <2>1, <2>2
<1>5. ASSUME v = d[t], \A j \in 1..(k + 1) : t \notin DOMAIN q[j].data
      PROVE  Shows(w, Tail(q), k, t, v)
  <2>1. 1 \in 1..(k + 1) /\ \A j \in 1..k : j + 1 \in 1..(k + 1)
    BY <1>1
  <2>2. w[t] = v /\ \A j \in 1..k : t \notin DOMAIN Tail(q)[j].data
    BY <1>1, <1>2, <1>5, <2>1
  <2>. QED BY <2>2 DEF Shows
<1>. QED BY <1>4, <1>5 DEF Shows, w

\* An event reaches its browser.
LEMMA DeliverStep ==
  ASSUME EventsTypeOK, HistoryIsExact, StreamsAreOfThisRun, PrefixesAreExact, NEW c \in Clients, Deliver(c)
  PROVE  EventsTypeOK' /\ StreamsAreOfThisRun' /\ PrefixesAreExact'
<1>. DEFINE q == stream[c].queue  u == Head(q)  cursor == <<u.epoch, u.revision>>
            open == [cursor |-> cursor, queue |-> Tail(q)]
<1>1. IsOfThisRun(c) /\ IsExact(c)
  BY DEF StreamsAreOfThisRun, PrefixesAreExact
<1>2. stream[c] # Nothing /\ stream[c] \in Streams /\ q # <<>> /\ q \in Seq(Updates) /\ Queue(c) = q /\ Len(q) \in Nat
  BY QueueIsTyped DEF Deliver, Streams
<1>3. /\ ClientFrame /\ UNCHANGED <<projection, history>> /\ UNCHANGED breaks
      /\ stream' = [stream EXCEPT ![c] = open]
      /\ last' = [last EXCEPT ![c] = cursor]
      /\ view' = [view EXCEPT ![c] = Merged(view[c], <<u>>)]
  BY <1>2 DEF Deliver, ClientFrame, projectorVars, EventsTypeOK
<1>4. /\ u \in Updates /\ u = q[1] /\ Tail(q) \in Seq(Updates) /\ Len(Tail(q)) = Len(q) - 1
      /\ \A i \in 1..Len(Tail(q)) : Tail(q)[i] = q[i + 1]
  <2>1. Head(q) = q[1]
    BY <1>2
  <2>. QED BY <1>2, <2>1, HeadTailProperties
<1>5. Len(q) >= 1 /\ 1 \in DOMAIN q /\ DOMAIN q = 1..Len(q) /\ \A i \in 1..Len(Tail(q)) : i + 1 \in 1..Len(q)
  BY <1>2, <1>4, EmptySeq
<1>6. u.epoch = projection.epoch /\ u.revision <= projection.revision /\ projection.initialized
  BY <1>1, <1>2, <1>4, <1>5 DEF IsOfThisRun
<1>7. cursor \in Cursor /\ cursor[1] = u.epoch /\ cursor[2] = u.revision
  BY <1>4 DEF Updates, Cursor
<1>8. ASSUME NEW k \in 0..Len(Tail(q)), NEW t \in Topics, NEW v, Shows(view[c], q, k + 1, t, v)
      PROVE  Shows(Merged(view[c], <<u>>), Tail(q), k, t, v)
  BY <1>2, <1>8, ShowsNext DEF EventsTypeOK
<1>9. open \in Streams /\ open.cursor = cursor /\ open.queue = Tail(q) /\ open # Nothing
  <2>. HIDE DEF q, cursor
  <2>1. open \in Streams /\ open.cursor = cursor /\ open.queue = Tail(q)
    BY <1>4, <1>7 DEF Streams
  <2>. QED BY <2>1, NoStreamAssumption
<1>. HIDE DEF q, u, cursor, open
<1>10. /\ stream'[c] = open /\ last'[c] = cursor /\ view'[c] = Merged(view[c], <<u>>)
       /\ \A d \in Clients \ {c} : stream'[d] = stream[d] /\ last'[d] = last[d] /\ view'[d] = view[d]
  BY <1>3 DEF EventsTypeOK
<1>11. EventsTypeOK'
  <2>1. Merged(view[c], <<u>>) \in [Topics -> Datum]
    BY <1>4, MergedOne DEF EventsTypeOK
  <2>. QED BY <1>3, <1>7, <1>9, <2>1 DEF EventsTypeOK, ClientFrame, projectorVars
<1>12. IsOfThisRun(c)'
  <2>1. CursorIsOld(last[c])'
    <3>1. projection.epoch <= projection.epoch /\ history # <<>>
      BY <1>6 DEF EventsTypeOK, HistoryIsExact
    <3>2. last'[c][1] = projection'.epoch /\ last'[c][2] <= projection'.revision
      BY <1>3, <1>6, <1>7, <1>10
    <3>. QED BY <1>3, <3>1, <3>2 DEF CursorIsOld
  <2>2. ASSUME NEW i \in DOMAIN Tail(q)
        PROVE  Tail(q)[i].epoch = projection.epoch /\ Tail(q)[i].revision <= projection.revision
    <3>1. i \in 1..Len(Tail(q)) /\ Tail(q)[i] = q[i + 1] /\ i + 1 \in DOMAIN q
      BY <1>4, <1>5
    <3>. QED BY <1>1, <1>2, <3>1 DEF IsOfThisRun, q
  <2>3. stream'[c].cursor = last'[c] /\ stream'[c].queue = Tail(q) /\ stream'[c] # Nothing
    BY <1>9, <1>10
  <2>. QED BY <1>3, <1>6, <2>1, <2>2, <2>3 DEF IsOfThisRun
<1>13. IsExact(c)'
  <2>1. Queue(c)' = Tail(q)
    BY <1>9, <1>10 DEF Queue
  <2>2. ASSUME NEW k \in 0..Len(Tail(q))
        PROVE  k + 1 \in 0..Len(Queue(c)) /\ CursorAt(c, k + 1) = CursorAt(c, k)'
    <3>1. k \in Nat /\ k + 1 \in 1..Len(q) /\ k + 1 # 0
      BY <1>2, <1>4, <2>2
    <3>2. CursorAt(c, k + 1) = <<q[k + 1].epoch, q[k + 1].revision>>
      BY <1>2, <3>1 DEF CursorAt
    <3>3. CASE k = 0
      <4>1. CursorAt(c, k)' = cursor /\ q[k + 1] = u
        BY <1>4, <1>10, <3>3 DEF CursorAt
      <4>. QED BY <1>2, <3>1, <3>2, <4>1 DEF cursor
    <3>4. CASE k # 0
      <4>1. k \in 1..Len(Tail(q))
        BY <2>2, <3>1, <3>4
      <4>2. CursorAt(c, k)' = <<Tail(q)[k].epoch, Tail(q)[k].revision>>
        BY <2>1, <3>4 DEF CursorAt
      <4>3. Tail(q)[k] = q[k + 1]
        BY <1>4, <4>1
      <4>4. CursorAt(c, k)' = CursorAt(c, k + 1)
        BY <3>2, <4>2, <4>3
      <4>. QED BY <1>2, <3>1, <4>4
    <3>. QED BY <3>3, <3>4
  <2>3. ASSUME NEW k \in 0..Len(Tail(q)), Replayable(CursorAt(c, k))', NEW t \in Topics,
               Settled(CursorAt(c, k)[2], t)'
        PROVE  Shows(view'[c], Tail(q), k, t, projection.data[t])
    <3>1. Replayable(CursorAt(c, k + 1)) /\ Settled(CursorAt(c, k + 1)[2], t)
      BY <1>3, <2>2, <2>3 DEF Replayable, Settled
    <3>2. Shows(view[c], q, k + 1, t, projection.data[t])
      BY <1>1, <1>2, <2>2, <3>1 DEF IsExact
    <3>. QED BY <1>8, <1>10, <3>2
  <2>4. projection' = projection
    BY <1>3
  <2>5. ASSUME NEW k \in 0..Len(Queue(c)'), Replayable(CursorAt(c, k))', NEW t \in Topics,
               Settled(CursorAt(c, k)[2], t)'
        PROVE  Shows(view[c], Queue(c), k, t, projection.data[t])'
    BY <2>1, <2>3, <2>4, <2>5
  <2>. QED BY <2>5 DEF IsExact
<1>. QED BY <1>3, <1>10, <1>11, <1>12, <1>13, OneBrowser

\* A restart makes every cursor one of an earlier run: no browser is sent a part of the new one.
LEMMA RestartStep ==
  ASSUME EventsTypeOK, StreamsAreOfThisRun, Restart
  PROVE  EventsIInv'
<1>1. /\ UNCHANGED <<owned, last, view, changes>> /\ breaks' \in 0..MaxBreaks
      /\ handlers' = {} /\ notifying' = {} /\ dirty' = Topics /\ wake' = TRUE /\ todo' = {} /\ values' = NoValues
      /\ projection' = [epoch |-> projection.epoch + 1, revision |-> 0, initialized |-> FALSE, data |-> NoData]
      /\ history' = <<>> /\ stream' = [c \in Clients |-> Nothing] /\ hidden' = {}
  BY EventsAssumption DEF Restart, Break, EventsTypeOK
<1>2. /\ NoValues \in Values /\ DOMAIN NoValues = {} /\ NoData \in [Topics -> Datum]
      /\ \A t \in Topics : NoData[t] = Nothing
  <2>1. NoValues \in [{} -> Datum] /\ DOMAIN NoValues = {}
    BY DEF NoValues
  <2>2. Nothing \in Datum
    BY DEF Datum, Shown
  <2>. QED BY <2>1, <2>2, ValuesAreParts DEF NoData
<1>3. projection.epoch \in Nat
  BY DEF EventsTypeOK
<1>4. EventsTypeOK'
  BY <1>1, <1>2, <1>3, EmptySeq, EventsAssumption DEF EventsTypeOK
<1>5. \A t \in Topics : Pending(t)'
  BY <1>1 DEF Pending
<1>6. OverviewFollows'
  <2>1. Status' = Nothing
    BY <1>1, <1>2 DEF Status, Topics, Owned
  <2>2. Nothing \in Shown /\ "overview" \in Topics
    BY DEF Shown, Topics
  <2>. QED BY <1>1, <2>1, <2>2 DEF OverviewFollows
<1>7. HistoryHasNoGap' /\ HistoryIsExact'
  <2>1. DOMAIN history' = {}
    BY <1>1
  <2>. QED BY <1>1, <2>1 DEF HistoryHasNoGap, HistoryIsExact
<1>8. ASSUME NEW c \in Clients  PROVE IsOfThisRun(c)' /\ IsExact(c)'
  <2>1. CursorIsOld(last[c]) /\ stream'[c] = Nothing /\ last[c] \in Cursor \cup {Nothing}
    BY <1>1 DEF StreamsAreOfThisRun, IsOfThisRun, EventsTypeOK
  <2>2. last[c] # Nothing => last[c][1] < projection'.epoch
    BY <1>1, <1>3, <2>1 DEF CursorIsOld, Cursor
  <2>3. last[c] # Nothing => last[c][1] \in Nat /\ projection'.epoch \in Nat
    BY <1>1, <1>3, <2>1 DEF Cursor
  <2>4. IsOfThisRun(c)'
    BY <1>1, <2>1, <2>2, <2>3 DEF IsOfThisRun, CursorIsOld
  <2>5. Queue(c)' = <<>> /\ Len(Queue(c)') = 0 /\ 0..0 = {0} /\ CursorAt(c, 0)' = last[c]
    BY <1>1, <2>1 DEF Queue, CursorAt
  <2>6. ~Replayable(last[c])'
    BY <1>1, <2>2, <2>3 DEF Replayable
  <2>7. IsExact(c)'
    BY <1>1, <2>5, <2>6 DEF IsExact, CursorAt, Replayable
  <2>. QED BY <2>4, <2>7
<1>. QED BY <1>1, <1>4, <1>5, <1>6, <1>7, <1>8 DEF EventsIInv, StreamsAreOfThisRun, PrefixesAreExact

\* At the start every topic is to be read.
LEMMA EventsStart ==
  ASSUME EventsInit
  PROVE  EventsIInv
<1>1. /\ NoValues \in Values /\ DOMAIN NoValues = {} /\ NoData \in [Topics -> Datum]
      /\ \A t \in Topics : NoData[t] = Nothing
  <2>1. NoValues \in [{} -> Datum] /\ DOMAIN NoValues = {}
    BY DEF NoValues
  <2>2. Nothing \in Datum
    BY DEF Datum, Shown
  <2>. QED BY <2>1, <2>2, ValuesAreParts DEF NoData
<1>2. EventsTypeOK
  <2>1. owned \in [Owned -> Owner] /\ \A t \in Owned : owned[t].version <= changes
    BY EventsAssumption DEF EventsInit, Owner
  <2>. QED BY <1>1, <2>1, EmptySeq, EventsAssumption DEF EventsInit, EventsTypeOK
<1>3. \A t \in Topics : Pending(t)
  BY DEF EventsInit, Pending
<1>4. OverviewFollows
  <2>1. Status = Nothing
    BY <1>1 DEF EventsInit, Status, Topics, Owned
  <2>2. Nothing \in Shown /\ "overview" \in Topics
    BY DEF Shown, Topics
  <2>. QED BY <2>1, <2>2 DEF EventsInit, OverviewFollows
<1>5. HistoryHasNoGap /\ HistoryIsExact
  <2>1. DOMAIN history = {}
    BY DEF EventsInit
  <2>. QED BY <2>1 DEF EventsInit, HistoryHasNoGap, HistoryIsExact
<1>6. ASSUME NEW c \in Clients  PROVE IsOfThisRun(c) /\ IsExact(c)
  <2>1. last[c] = Nothing /\ stream[c] = Nothing
    BY DEF EventsInit
  <2>2. Len(Queue(c)) = 0 /\ 0..0 = {0} /\ CursorAt(c, 0) = Nothing
    BY <2>1 DEF Queue, CursorAt
  <2>. QED BY <2>1, <2>2 DEF IsOfThisRun, CursorIsOld, IsExact, Replayable
<1>. QED BY <1>2, <1>3, <1>4, <1>5, <1>6 DEF EventsIInv, StreamsAreOfThisRun, PrefixesAreExact

\* Every step keeps the inductive invariant.
LEMMA EventsStep ==
  ASSUME EventsIInv, [EventsNext]_eventVars
  PROVE  EventsIInv'
<1>. USE DEF AllPending
<1>1. /\ EventsTypeOK /\ AllPending /\ OverviewFollows /\ HistoryHasNoGap /\ HistoryIsExact
      /\ StreamsAreOfThisRun /\ PrefixesAreExact
  BY DEF EventsIInv
<1>2. CASE Unseen
  <2>1. EventsTypeOK' /\ OverviewFollows' /\ AllPending'
    BY <1>1, <1>2, UnseenIsTyped, UnseenKeepsPending
  <2>2. HistoryHasNoGap' /\ HistoryIsExact' /\ StreamsAreOfThisRun' /\ PrefixesAreExact'
    BY <1>1, <1>2, UnseenFrame, UnseenKeepsBrowsers
  <2>. QED BY <2>1, <2>2 DEF EventsIInv
<1>3. CASE Publish
  <2>1. EventsTypeOK' /\ OverviewFollows' /\ AllPending'
    BY <1>1, <1>3, PublishIsTyped, PublishKeepsPending
  <2>2. HistoryHasNoGap' /\ HistoryIsExact' /\ StreamsAreOfThisRun' /\ PrefixesAreExact'
    BY <1>1, <1>3, PublishKeepsBrowsers
  <2>. QED BY <2>1, <2>2 DEF EventsIInv
<1>4. CASE Restart
  BY <1>1, <1>4, RestartStep
<1>5. ASSUME NEW c \in Clients, Progress(c) \/ Disconnect(c)  PROVE EventsIInv'
  <2>1. ClientFrame
    BY <1>5 DEF Progress, Subscribe, Fill, Deliver, Disconnect
  <2>2. OverviewFollows' /\ AllPending' /\ HistoryHasNoGap' /\ HistoryIsExact'
    BY <1>1, <2>1, ClientKeepsServer
  <2>3. EventsTypeOK' /\ StreamsAreOfThisRun' /\ PrefixesAreExact'
    BY <1>1, <1>5, SubscribeStep, FillStep, DeliverStep, DisconnectStep DEF Progress
  <2>. QED BY <2>2, <2>3 DEF EventsIInv
<1>6. CASE UNCHANGED eventVars
  <2>1. UNCHANGED <<owned, handlers, notifying, dirty, wake, todo, values, projection, history, stream, last,
                    view, changes, breaks, hidden>>
    BY <1>6 DEF eventVars
  <2>2. EventsTypeOK' /\ OverviewFollows'
    BY <1>1, <2>1 DEF EventsTypeOK, OverviewFollows, Status
  <2>3. AllPending'
    BY <1>1, <2>1 DEF Pending, Truth
  <2>4. HistoryHasNoGap' /\ HistoryIsExact' /\ StreamsAreOfThisRun' /\ PrefixesAreExact'
    BY <1>1, <2>1, UnseenKeepsBrowsers
  <2>. QED BY <2>2, <2>3, <2>4 DEF EventsIInv
<1>7. Unseen \/ Publish \/ Restart \/ (\E c \in Clients : Progress(c) \/ Disconnect(c)) \/ UNCHANGED eventVars
  BY DEF EventsNext, ProjectorStep, Unseen
<1>. QED BY <1>2, <1>3, <1>4, <1>5, <1>6, <1>7

\* A browser whose cursor the history covers is a replay away from the projection.
LEMMA ReplayIsExact ==
  ASSUME EventsTypeOK, HistoryHasNoGap, HistoryIsExact, NEW c \in Clients, IsExact(c),
         NEW q, q = Queue(c), NEW cursor \in Cursor, cursor = CursorAt(c, Len(q)), Replayable(cursor)
  PROVE  Merged(view[c], q \o Newer(cursor[2])) = projection.data
<1>. DEFINE r == cursor[2]  n == Len(history)  N == Newer(r)  us == q \o N  l == Len(q)
<1>1. /\ q \in Seq(Updates) /\ l \in Nat /\ n \in Nat /\ DOMAIN history = 1..n /\ r \in Nat
  BY QueueIsTyped DEF EventsTypeOK, Cursor
<1>2. PICK m \in 0..n :
        /\ N \in Seq(Updates) /\ Len(N) = n - m
        /\ \A i \in 1..(n - m) : N[i] = history[i + m]
        /\ \A i \in 1..n : history[i].revision > r <=> i > m
  BY NewerIsRest
<1>. HIDE DEF N
<1>3. /\ us \in Seq(Updates) /\ Len(us) = l + (n - m)
      /\ \A i \in 1..l : us[i] = q[i]
      /\ \A i \in 1..(n - m) : us[l + i] = N[i]
  <2>1. us \in Seq(Updates) /\ Len(us) = Len(q) + Len(N) /\ \A i \in 1..Len(q) : us[i] = q[i]
    BY <1>1, <1>2
  <2>2. ASSUME NEW i \in 1..(n - m)  PROVE us[l + i] = N[i]
    <3>1. i \in 1..Len(N) /\ l + i \in 1..(Len(q) + Len(N)) /\ l + i > Len(q) /\ (l + i) - Len(q) = i
      BY <1>1, <1>2
    <3>. HIDE DEF l
    <3>2. us[l + i] = N[(l + i) - Len(q)]
      BY <1>1, <1>2, <3>1
    <3>. QED BY <3>1, <3>2
  <2>. QED BY <1>2, <2>1, <2>2
<1>. HIDE DEF us, l, n, r
<1>4. \A i \in 1..(n - m) : us[l + i] = history[i + m] /\ i + m \in 1..n /\ l + i \in 1..(l + (n - m))
  <2>1. ASSUME NEW i \in 1..(n - m)  PROVE i + m \in 1..n /\ l + i \in 1..(l + (n - m))
    BY <1>1, <1>2
  <2>. QED BY <1>2, <1>3, <2>1
<1>5. ASSUME NEW t \in Topics  PROVE Shows(view[c], us, l + (n - m), t, projection.data[t])
  <2>. DEFINE S == {i \in 1..(n - m) : t \in DOMAIN history[i + m].data}
  <2>1. CASE S # {}
    <3>1. S \subseteq 1..(n - m) /\ n - m \in Nat
      BY <1>1, <1>2
    <3>2. PICK i \in S : \A j \in S : j <= i
      <4>. HIDE DEF S
      <4>. QED BY <2>1, <3>1, LastExists
    <3>3. i + m \in DOMAIN history /\ t \in DOMAIN history[i + m].data /\ us[l + i] = history[i + m]
      BY <1>1, <1>4
    <3>4. ASSUME NEW j \in 1..n, j > i + m  PROVE t \notin DOMAIN history[j].data
      <4>1. j - m \in 1..(n - m) /\ j - m > i /\ (j - m) + m = j
        BY <1>1, <1>2, <3>4
      <4>2. j - m \notin S
        BY <3>1, <3>2, <4>1
      <4>. QED BY <4>1, <4>2
    <3>5. history[i + m].data[t] = projection.data[t]
      BY <1>1, <3>3, <3>4 DEF HistoryIsExact
    <3>6. ASSUME NEW j \in 1..(l + (n - m)), j > l + i  PROVE t \notin DOMAIN us[j].data
      <4>1. j - l \in 1..(n - m) /\ j - l > i /\ l + (j - l) = j
        BY <1>1, <1>2, <3>6
      <4>2. us[l + (j - l)] = history[(j - l) + m] /\ (j - l) + m \in 1..n
        BY <1>4, <4>1
      <4>3. (j - l) + m > i + m
        BY <1>1, <1>2, <3>1, <4>1
      <4>. QED BY <3>4, <4>1, <4>2, <4>3
    <3>7. l + i \in 1..(l + (n - m))
      BY <1>4
    <3>. QED BY <3>3, <3>5, <3>6, <3>7 DEF Shows
  <2>2. CASE S = {}
    <3>1. ASSUME NEW j \in 1..n, history[j].revision > r  PROVE t \notin DOMAIN history[j].data
      <4>1. j - m \in 1..(n - m) /\ (j - m) + m = j
        BY <1>1, <1>2, <3>1
      <4>. QED BY <2>2, <4>1
    <3>2. Settled(r, t)
      BY <1>1, <3>1 DEF Settled
    <3>3. Shows(view[c], q, l, t, projection.data[t])
      BY <1>1, <3>2 DEF IsExact, l, r
    <3>4. ASSUME NEW j \in 1..(l + (n - m)), j > l  PROVE t \notin DOMAIN us[j].data
      <4>1. j - l \in 1..(n - m) /\ l + (j - l) = j
        BY <1>1, <1>2, <3>4
      <4>2. us[l + (j - l)] = history[(j - l) + m]
        BY <1>4, <4>1
      <4>. QED BY <2>2, <4>1, <4>2
    <3>5. \A j \in 1..(l + (n - m)) : j > l \/ (j \in 1..l /\ us[j] = q[j])
      BY <1>1, <1>2, <1>3
    <3>6. \A j \in 1..l : j \in 1..(l + (n - m)) /\ us[j] = q[j]
      BY <1>1, <1>2, <1>3
    <3>7. ASSUME NEW i \in 1..l, t \in DOMAIN q[i].data, projection.data[t] = q[i].data[t],
                 \A j \in 1..l : j > i => t \notin DOMAIN q[j].data
          PROVE  Shows(view[c], us, l + (n - m), t, projection.data[t])
      <4>1. \A j \in 1..(l + (n - m)) : j > i => t \notin DOMAIN us[j].data
        BY <3>4, <3>5, <3>7
      <4>. QED BY <3>6, <3>7, <4>1 DEF Shows
    <3>8. ASSUME projection.data[t] = view[c][t], \A j \in 1..l : t \notin DOMAIN q[j].data
          PROVE  Shows(view[c], us, l + (n - m), t, projection.data[t])
      <4>1. \A j \in 1..(l + (n - m)) : t \notin DOMAIN us[j].data
        BY <3>4, <3>5, <3>8
      <4>. QED BY <3>8, <4>1 DEF Shows
    <3>. QED BY <3>3, <3>7, <3>8 DEF Shows
  <2>. QED BY <2>1, <2>2
<1>6. \A t \in Topics : Merged(view[c], us)[t] = projection.data[t]
  BY <1>3, <1>5, MergedIsShown
<1>7. DOMAIN Merged(view[c], us) = Topics /\ DOMAIN projection.data = Topics
  BY DEF Merged, EventsTypeOK
<1>8. Merged(view[c], us) = projection.data
  <2>1. Merged(view[c], us) = [t \in Topics |-> Merged(view[c], us)[t]]
    BY DEF Merged
  <2>2. projection.data = [t \in Topics |-> projection.data[t]]
    BY DEF EventsTypeOK
  <2>. QED BY <1>6, <2>1, <2>2
<1>. QED BY <1>8 DEF us, N, r

\* What the inductive invariant says of the promises.
LEMMA EventsIInvGives ==
  ASSUME EventsIInv
  PROVE  EventsInv
<1>1. QuietIsCurrent
  <2>1. ASSUME handlers = {}, dirty = {}, Idle, NEW t \in Topics \ hidden
        PROVE  projection.data[t] = Truth[t]
    <3>1. Pending(t) /\ todo = {} /\ DOMAIN values = {}
      BY <2>1 DEF EventsIInv, Idle, NoValues
    <3>. QED BY <2>1, <3>1 DEF Pending
  <2>. QED BY <2>1 DEF QuietIsCurrent
<1>2. ViewIsExact
  <2>1. ASSUME NEW c \in Clients, NEW q, q = Queue(c), NEW cursor,
               cursor = IF q = <<>> THEN last[c] ELSE <<q[Len(q)].epoch, q[Len(q)].revision>>,
               Replayable(cursor)
        PROVE  Merged(view[c], q \o Newer(cursor[2])) = projection.data
    <3>1. Len(q) \in Nat /\ q \in Seq(Updates) /\ (q = <<>> <=> Len(q) = 0)
      BY <2>1, QueueIsTyped, EmptySeq DEF EventsIInv
    <3>2. cursor = CursorAt(c, Len(q)) /\ Len(q) \in 0..Len(Queue(c))
      BY <2>1, <3>1 DEF CursorAt
    <3>3. cursor \in Cursor
      BY <2>1, <3>2, CursorsAreOld DEF EventsIInv, Replayable
    <3>. QED BY <2>1, <3>2, <3>3, ReplayIsExact DEF EventsIInv, PrefixesAreExact
  <2>. QED BY <2>1 DEF ViewIsExact, Queue
<1>. QED BY <1>1, <1>2 DEF EventsIInv, EventsInv

\* What is published is current once nothing is left to do, the history has no gap, and a
\* browser that the history covers gets exactly what it lacks: for any number of browsers,
\* changes and failures and any length of the history.
THEOREM EventsAreSafe == EventsSpec => []EventsInv
<1>1. EventsInit => EventsIInv
  BY EventsStart
<1>2. EventsIInv /\ [EventsNext]_eventVars => EventsIInv'
  BY EventsStep
<1>3. EventsIInv => EventsInv
  BY EventsIInvGives
<1>. QED BY <1>1, <1>2, <1>3, PTL DEF EventsSpec
=============================================================================
