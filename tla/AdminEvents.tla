---------------------------- MODULE AdminEvents ----------------------------
(***************************************************************************)
(* The management projection of ostool-server (admin_events.rs): handlers  *)
(* and monitors change what the server owns and then invalidate topics,    *)
(* one projector reads the invalidated topics and publishes a revision,    *)
(* and the streams of the subscribers replay revisions or send a snapshot. *)
(*                                                                         *)
(* Topics are reduced to two owned ones and the overview, which is derived *)
(* from both and takes the TFTP status from the projection.                *)
(***************************************************************************)
EXTENDS Integers, Sequences, FiniteSets

CONSTANTS
  Clients,      \* browsers with an open admin page
  HistoryLimit, \* HISTORY_LIMIT
  Nothing, Error,
  MaxChanges,   \* bound: changes of what the server owns
  MaxBreaks     \* bound: failed reads, dropped requests, lost connections and restarts

ASSUME EventsAssumption ==
  HistoryLimit \in Nat \ {0} /\ MaxChanges \in Nat /\ MaxBreaks \in Nat /\ Nothing \notin Nat /\ Error \notin Nat

Owned == {"boards", "tftp_status"}
Topics == Owned \cup {"overview"}

VARIABLES
  owned,       \* versions of what the server owns
  handlers,    \* topics whose change is made and whose invalidation is still to come
  notifying,   \* topics that are dirty and whose wake-up is still to come
  dirty, wake, \* AdminEvents::dirty and ::wake
  todo, values,\* the round of the projector: topics to read, and what it has read
  projection,  \* Projection: epoch, revision, initialized and data
  history,     \* Projection::history
  stream,      \* the event stream of a client: cursor and queue, or Nothing
  last, view,  \* in the browser: the id of the last event, and the data
  changes, breaks,
  hidden       \* history: topics that changed, or failed to be read, without an invalidation

eventVars == <<owned, handlers, notifying, dirty, wake, todo, values, projection, history, stream, last, view,
          changes, breaks, hidden>>
projectorVars == <<todo, values, projection, history>>
clientVars == <<stream, last, view>>

Cursor == Nat \X Nat

\* What a topic shows: what the server owns, an error, or nothing yet; the overview has both.
Owner == [version : 0..MaxChanges]
Shown == Owner \cup {Error, Nothing}
Datum == Shown \cup [boards : Owner, status : Shown]
Values == UNION {[S -> Datum] : S \in SUBSET Topics}
Updates == [epoch : Nat, revision : Nat, kind : {"update", "snapshot"}, data : Values]

\* The open stream of a browser: where it is, and the events that are still to be sent.
Streams == [cursor : Cursor \cup {Nothing}, queue : Seq(Updates)]

ASSUME NoStreamAssumption == Nothing \notin Streams

\* The projection, the streams and the browsers keep their types.
EventsTypeOK ==
  /\ owned \in [Owned -> Owner] /\ \A t \in Owned : owned[t].version <= changes
  /\ handlers \subseteq Owned /\ notifying \subseteq Owned
  /\ dirty \subseteq Topics /\ wake \in BOOLEAN /\ todo \subseteq Topics /\ values \in Values
  /\ projection \in [epoch : Nat, revision : Nat, initialized : BOOLEAN, data : [Topics -> Datum]]
  /\ history \in Seq(Updates) /\ Len(history) <= HistoryLimit
  /\ stream \in [Clients -> {Nothing} \cup Streams]
  /\ last \in [Clients -> Cursor \cup {Nothing}] /\ view \in [Clients -> [Topics -> Datum]]
  /\ changes \in 0..MaxChanges /\ breaks \in 0..MaxBreaks /\ hidden \subseteq Topics

NoValues == [t \in {} |-> Nothing]
NoData == [t \in Topics |-> Nothing]

\* Default and start(): every topic is dirty.
EventsInit ==
  /\ owned = [t \in Owned |-> [version |-> 0]] /\ handlers = {} /\ notifying = {}
  /\ dirty = Topics /\ wake = TRUE /\ todo = {} /\ values = NoValues
  /\ projection = [epoch |-> 0, revision |-> 0, initialized |-> FALSE, data |-> NoData]
  /\ history = <<>>
  /\ stream = [c \in Clients |-> Nothing] /\ last = [c \in Clients |-> Nothing]
  /\ view = [c \in Clients |-> NoData]
  /\ changes = 0 /\ breaks = 0 /\ hidden = {}

Break == breaks < MaxBreaks /\ breaks' = breaks + 1

-----------------------------------------------------------------------------
(***************************************************************************)
(* Changes and invalidations.                                              *)
(***************************************************************************)
\* The topics that invalidate() adds.
Implied(t) == IF t \in {"boards", "tftp_status"} THEN {t, "overview"} ELSE {t}

\* A handler has made its change, or a monitor is about to be told of one.
Change(t) ==
  /\ changes < MaxChanges
  /\ changes' = changes + 1 /\ owned' = [owned EXCEPT ![t].version = @ + 1]
  /\ handlers' = handlers \cup {t}
  /\ UNCHANGED <<notifying, dirty, wake, projectorVars, clientVars, breaks, hidden>>

\* invalidate() of notify_admin_changes after the handler, or of an owner or a monitor: the lock
\* of the dirty topics is dropped before the projector is woken.
Invalidate(t) ==
  /\ t \in handlers /\ t \notin notifying
  /\ handlers' = handlers \ {t} /\ notifying' = notifying \cup {t}
  /\ dirty' = dirty \cup Implied(t)
  /\ UNCHANGED <<owned, wake, projectorVars, clientVars, changes, breaks, hidden>>

\* Mutant: the projector is not woken.
Mutant_no_wake(t) ==
  /\ t \in notifying
  /\ notifying' = notifying \ {t}
  /\ UNCHANGED <<owned, handlers, dirty, wake, projectorVars, clientVars, changes, breaks, hidden>>

\* wake.notify_one(): one wake-up is kept until the projector waits for it.
NotifyOne(t) ==
  /\ t \in notifying
  /\ notifying' = notifying \ {t} /\ wake' = TRUE
  /\ UNCHANGED <<owned, handlers, dirty, projectorVars, clientVars, changes, breaks, hidden>>

\* The request is dropped after its change: the middleware never comes to the invalidation.
RequestDropped(t) ==
  /\ t \in handlers /\ Break
  /\ handlers' = handlers \ {t} /\ hidden' = hidden \cup Implied(t)
  /\ UNCHANGED <<owned, notifying, dirty, wake, projectorVars, clientVars, changes>>

\* update_dtb rewrites the boards that name the file and invalidates the topic of the DTBs only.
RenameDtb ==
  /\ changes < MaxChanges
  /\ changes' = changes + 1 /\ owned' = [owned EXCEPT !["boards"].version = @ + 1]
  /\ hidden' = hidden \cup Implied("boards")
  /\ UNCHANGED <<handlers, notifying, dirty, wake, projectorVars, clientVars, breaks>>

-----------------------------------------------------------------------------
(***************************************************************************)
(* The projector.                                                          *)
(***************************************************************************)
Idle == todo = {} /\ values = NoValues

\* std::mem::take: the topics of the round are no longer dirty before they are read.
Take ==
  /\ Idle /\ wake /\ dirty # {}
  /\ wake' = FALSE /\ todo' = dirty /\ dirty' = {}
  /\ UNCHANGED <<owned, handlers, notifying, values, projection, history, clientVars, changes, breaks, hidden>>

\* A wake-up without dirty topics publishes nothing.
TakeNothing ==
  /\ Idle /\ wake /\ dirty = {}
  /\ wake' = FALSE
  /\ UNCHANGED <<owned, handlers, notifying, dirty, projectorVars, clientVars, changes, breaks, hidden>>

\* projected_overview takes the status of this round or, without one, of the projection.
Status == IF "tftp_status" \in DOMAIN values THEN values["tftp_status"] ELSE projection.data["tftp_status"]
Overview == [boards |-> owned["boards"], status |-> Status]

Reads(t, v) == values' = [x \in DOMAIN values \cup {t} |-> IF x = t THEN v ELSE values[x]]

\* admin_topic; the overview comes last.
ReadTopic(t) ==
  /\ t \in todo /\ (t = "overview" => todo = {t})
  /\ todo' = todo \ {t}
  /\ Reads(t, IF t = "overview" THEN Overview ELSE owned[t])
  /\ hidden' = IF t = "overview" /\ "tftp_status" \in hidden THEN hidden ELSE hidden \ {t}
  /\ UNCHANGED <<owned, handlers, notifying, dirty, wake, projection, history, clientVars, changes, breaks>>

\* The owner cannot be read: the error is published in its place.
ReadFails(t) ==
  /\ t \in todo /\ (t = "overview" => todo = {t}) /\ Break
  /\ todo' = todo \ {t}
  /\ Reads(t, Error)
  /\ hidden' = hidden \cup Implied(t)
  /\ UNCHANGED <<owned, handlers, notifying, dirty, wake, projection, history, clientVars, changes>>

Changed == {t \in DOMAIN values : projection.data[t] # values[t]}
Update(d, kind) == [epoch |-> projection.epoch, revision |-> projection.revision + 1, kind |-> kind, data |-> d]

\* publish
Publish ==
  /\ todo = {} /\ values # NoValues
  /\ values' = NoValues
  /\ IF Changed = {} /\ projection.initialized THEN UNCHANGED <<projection, history>>
     ELSE /\ projection' = [projection EXCEPT !.initialized = TRUE, !.revision = @ + 1,
               !.data = [t \in Topics |-> IF t \in Changed THEN values[t] ELSE projection.data[t]]]
          /\ history' = LET h == Append(history, Update([t \in Changed |-> values[t]], "update"))
                        IN IF Len(h) > HistoryLimit THEN Tail(h) ELSE h
  /\ UNCHANGED <<owned, handlers, notifying, dirty, wake, todo, clientVars, changes, breaks, hidden>>

-----------------------------------------------------------------------------
(***************************************************************************)
(* Subscribers.                                                            *)
(***************************************************************************)
\* Mutant: a cursor from before the history is replayed with what is left of it.
Mutant_replay_anyway(cursor) ==
  cursor # Nothing /\ cursor[1] = projection.epoch /\ cursor[2] <= projection.revision

\* The history goes back far enough for the cursor, and the cursor is of this server run.
Replayable(cursor) ==
  /\ cursor # Nothing /\ cursor[1] = projection.epoch /\ cursor[2] <= projection.revision
  /\ history # <<>> /\ cursor[2] >= history[1].revision - 1

\* The updates after a revision; those up to it are the first ones, because revisions ascend.
Newer(r) == SubSeq(history, Cardinality({i \in DOMAIN history : history[i].revision <= r}) + 1, Len(history))

\* after(): the updates since the cursor, or the whole projection.
after(cursor) ==
  IF Replayable(cursor) THEN Newer(cursor[2])
  ELSE <<[epoch |-> projection.epoch, revision |-> projection.revision, kind |-> "snapshot",
          data |-> projection.data]>>

ClientFrame == UNCHANGED <<owned, handlers, notifying, dirty, wake, projectorVars, changes, hidden>>

\* subscribe with Last-Event-ID, once there is a projection.
Subscribe(c) ==
  /\ stream[c] = Nothing /\ projection.initialized
  /\ stream' = [stream EXCEPT ![c] = [cursor |-> last[c], queue |-> <<>>]]
  /\ ClientFrame /\ UNCHANGED <<last, view, breaks>>

Fill(c) ==
  /\ stream[c] # Nothing /\ stream[c].queue = <<>> /\ after(stream[c].cursor) # <<>>
  /\ stream' = [stream EXCEPT ![c].queue = after(stream[c].cursor)]
  /\ ClientFrame /\ UNCHANGED <<last, view, breaks>>

Merged(d, us) ==
  [t \in Topics |->
     LET S == {i \in DOMAIN us : t \in DOMAIN us[i].data}
     IN IF S = {} THEN d[t] ELSE us[CHOOSE i \in S : \A j \in S : j <= i].data[t]]

\* The next event of the stream reaches the browser, which replaces the topics it carries.
Deliver(c) ==
  /\ stream[c] # Nothing /\ stream[c].queue # <<>>
  /\ LET u == Head(stream[c].queue)
     IN /\ stream' = [stream EXCEPT ![c] = [cursor |-> <<u.epoch, u.revision>>, queue |-> Tail(@.queue)]]
        /\ last' = [last EXCEPT ![c] = <<u.epoch, u.revision>>]
        /\ view' = [view EXCEPT ![c] = Merged(@, <<u>>)]
  /\ ClientFrame /\ UNCHANGED breaks

\* The connection is lost with whatever was under way.
Disconnect(c) ==
  /\ stream[c] # Nothing /\ Break
  /\ stream' = [stream EXCEPT ![c] = Nothing]
  /\ ClientFrame /\ UNCHANGED <<last, view>>

\* The server restarts with a new epoch.
Restart ==
  /\ Break
  /\ handlers' = {} /\ notifying' = {} /\ dirty' = Topics /\ wake' = TRUE /\ todo' = {} /\ values' = NoValues
  /\ projection' = [epoch |-> projection.epoch + 1, revision |-> 0, initialized |-> FALSE, data |-> NoData]
  /\ history' = <<>> /\ stream' = [c \in Clients |-> Nothing] /\ hidden' = {}
  /\ UNCHANGED <<owned, last, view, changes>>

ProjectorStep == Take \/ TakeNothing \/ Publish \/ \E t \in Topics : ReadTopic(t) \/ ReadFails(t)
Progress(c) == Subscribe(c) \/ Fill(c) \/ Deliver(c)

EventsNext ==
  \/ \E t \in Owned : Change(t) \/ Invalidate(t) \/ NotifyOne(t) \/ RequestDropped(t)
  \/ RenameDtb \/ ProjectorStep \/ Restart
  \/ \E c \in Clients : Progress(c) \/ Disconnect(c)

EventsSpec == EventsInit /\ [][EventsNext]_eventVars

\* Handlers that are not dropped answer, the projector runs, and a browser that is
\* disconnected connects again and reads.
FairEventsSpec ==
  /\ EventsSpec
  /\ \A t \in Owned : WF_eventVars(Invalidate(t)) /\ WF_eventVars(NotifyOne(t))
  /\ WF_eventVars(Take) /\ WF_eventVars(TakeNothing) /\ WF_eventVars(Publish)
  /\ \A t \in Topics : WF_eventVars(ReadTopic(t))
  /\ \A c \in Clients : WF_eventVars(Progress(c))

-----------------------------------------------------------------------------
Truth == [t \in Topics |-> IF t = "overview" THEN [boards |-> owned["boards"], status |-> owned["tftp_status"]] ELSE owned[t]]

\* When nothing is left to do the projection is what the server owns: a change made while the
\* projector reads is not lost between the round that missed it and the next one.
QuietIsCurrent ==
  handlers = {} /\ dirty = {} /\ Idle /\ projection.initialized =>
    \A t \in Topics \ hidden : projection.data[t] = Truth[t]

\* A browser whose cursor the history still covers gets from its queue and the replay exactly
\* the current projection: after reconnects, a slow reader, a full history or a restart of the
\* server no topic is left behind.
ViewIsExact ==
  \A c \in Clients :
    LET queue == IF stream[c] = Nothing THEN <<>> ELSE stream[c].queue
        cursor == IF queue = <<>> THEN last[c]
                                  ELSE <<queue[Len(queue)].epoch, queue[Len(queue)].revision>>
    IN Replayable(cursor) => Merged(view[c], queue \o Newer(cursor[2])) = projection.data

\* The history has the last revisions without a gap, which is what a replay relies on.
HistoryHasNoGap ==
  \A i \in DOMAIN history : history[i].revision = projection.revision - Len(history) + i

\* What the projector publishes is current, and no browser misses a part of it.
EventsInv == EventsTypeOK /\ QuietIsCurrent /\ HistoryHasNoGap /\ ViewIsExact

\* Once the changes end every browser shows what the server owns.
ClientsCatchUp == <>[](\A c \in Clients, t \in Topics : t \in hidden \/ view[c][t] = Truth[t])
=============================================================================
