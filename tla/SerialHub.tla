----------------------------- MODULE SerialHub -----------------------------
(***************************************************************************)
(* The serial port of a virtual board.  QEMU connects to a listener, one   *)
(* connection after the other; the hub records what QEMU sends, replays it *)
(* to consoles that attach later, and passes their input to the connection *)
(* there is.  Of every attachment one task writes output to the console    *)
(* and another one reads its input.                                        *)
(***************************************************************************)
EXTENDS Integers, Sequences

CONSTANTS
  Consoles,       \* attachments, each made once
  HistoryBytes,   \* SERIAL_HISTORY_LIMIT
  Backlog,        \* capacity of output_tx
  InputChunks,    \* capacity of the queue of a connection
  MaxOutputs,     \* bound: chunks that QEMU sends, a byte each
  MaxTyped,       \* bound: chunks that a console sends
  MaxConnections  \* bound: connections of QEMU

ASSUME SerialHubAssumption ==
  /\ HistoryBytes \in Nat \ {0} /\ Backlog \in Nat \ {0} /\ InputChunks \in Nat \ {0}
  /\ MaxOutputs \in Nat /\ MaxTyped \in Nat /\ MaxConnections \in Nat

VARIABLES
  listener,    \* "accept", "serve" a connection, "close" it, or "gone" after shutdown
  accepted,    \* connection_generation
  past,        \* history
  recorded,    \* chunks sent to output_tx: chunk n is byte n
  console,     \* of an attachment: "none", "open", "dropped" by its owner
  printer,     \* its output task: "none", "replay", "live", "done"
  replay,      \* the history that it has still to write
  next,        \* the chunk that output_rx receives next
  got,         \* what the console got
  skipped,     \* history: output_rx has lagged behind
  closing,     \* attachment_closed is sent
  typed,       \* chunks that the console has sent
  pipe,        \* chunks in the duplex stream
  held,        \* the chunk that the input task holds, or none
  waiting,     \* the queue of the connection
  delivered    \* what QEMU got, over all its connections

outputVars == <<past, recorded, printer, replay, next, got, skipped>>
inputVars == <<typed, pipe, held, waiting, delivered>>
hubVars == <<listener, accepted, console, closing, outputVars, inputVars>>

HubInit ==
  /\ listener = "accept" /\ accepted = 0 /\ past = <<>> /\ recorded = 0
  /\ console = [c \in Consoles |-> "none"] /\ printer = [c \in Consoles |-> "none"]
  /\ replay = [c \in Consoles |-> <<>>] /\ next = [c \in Consoles |-> 0] /\ got = [c \in Consoles |-> <<>>]
  /\ skipped = [c \in Consoles |-> FALSE] /\ closing = [c \in Consoles |-> FALSE]
  /\ typed = [c \in Consoles |-> 0] /\ pipe = [c \in Consoles |-> <<>>] /\ held = [c \in Consoles |-> <<>>]
  /\ waiting = <<>> /\ delivered = <<>>

-----------------------------------------------------------------------------
(***************************************************************************)
(* run_listener and record_output                                          *)
(***************************************************************************)
Accepts ==
  /\ listener = "accept" /\ accepted < MaxConnections
  /\ listener' = "serve" /\ accepted' = accepted + 1
  /\ waiting' = <<>>
  /\ UNCHANGED <<console, closing, outputVars, typed, pipe, held, delivered>>

\* The history and the channel change under one lock.
Records ==
  /\ listener = "serve" /\ recorded < MaxOutputs
  /\ recorded' = recorded + 1
  /\ past' = LET all == Append(past, recorded + 1)
             IN IF Len(all) > HistoryBytes THEN Tail(all) ELSE all
  /\ UNCHANGED <<listener, accepted, console, closing, printer, replay, next, got, skipped, inputVars>>

PassesInput ==
  /\ listener = "serve" /\ waiting # <<>>
  /\ waiting' = Tail(waiting) /\ delivered' = Append(delivered, Head(waiting))
  /\ UNCHANGED <<listener, accepted, console, closing, outputVars, typed, pipe, held>>

\* QEMU closes the connection or cannot be written to: its queue is gone, its sender is still there.
Breaks ==
  /\ listener = "serve"
  /\ listener' = "close" /\ waiting' = <<>>
  /\ UNCHANGED <<accepted, console, closing, outputVars, typed, pipe, held, delivered>>

Disconnects ==
  /\ listener = "close" /\ listener' = "accept"
  /\ UNCHANGED <<accepted, console, closing, outputVars, inputVars>>

Shutdown ==
  /\ listener # "gone"
  /\ listener' = "gone" /\ waiting' = <<>>
  /\ UNCHANGED <<accepted, console, closing, outputVars, typed, pipe, held, delivered>>

-----------------------------------------------------------------------------
(***************************************************************************)
(* attach, and its output task                                             *)
(***************************************************************************)
\* Mutant: without the lock the last chunk may be recorded between the snapshot and the subscription.
Mutant_Unlocked(c) ==
  /\ console[c] = "none"
  /\ console' = [console EXCEPT ![c] = "open"] /\ printer' = [printer EXCEPT ![c] = "replay"]
  /\ \E before \in {past, SubSeq(past, 1, Len(past) - 1)} : replay' = [replay EXCEPT ![c] = before]
  /\ next' = [next EXCEPT ![c] = recorded + 1]
  /\ UNCHANGED <<listener, accepted, closing, past, recorded, got, skipped, inputVars>>

\* The history and the place in the channel are taken under the lock of record_output.
Attach(c) ==
  /\ console[c] = "none"
  /\ console' = [console EXCEPT ![c] = "open"] /\ printer' = [printer EXCEPT ![c] = "replay"]
  /\ replay' = [replay EXCEPT ![c] = past] /\ next' = [next EXCEPT ![c] = recorded + 1]
  /\ UNCHANGED <<listener, accepted, closing, past, recorded, got, skipped, inputVars>>

Replays(c) ==
  /\ printer[c] = "replay" /\ (console[c] = "open" \/ replay[c] = <<>>)
  /\ got' = [got EXCEPT ![c] = @ \o replay[c]] /\ replay' = [replay EXCEPT ![c] = <<>>]
  /\ printer' = [printer EXCEPT ![c] = "live"]
  /\ UNCHANGED <<listener, accepted, console, closing, past, recorded, next, skipped, inputVars>>

\* The channel keeps the last chunks: a receiver that is further behind goes on with the oldest one there is.
Receives(c) ==
  /\ printer[c] = "live" /\ next[c] <= recorded
  /\ \/ /\ recorded - next[c] >= Backlog
        /\ next' = [next EXCEPT ![c] = recorded - Backlog + 1] /\ skipped' = [skipped EXCEPT ![c] = TRUE]
        /\ UNCHANGED got
     \/ /\ recorded - next[c] < Backlog /\ console[c] = "open"
        /\ got' = [got EXCEPT ![c] = Append(@, next[c])] /\ next' = [next EXCEPT ![c] = @ + 1]
        /\ UNCHANGED skipped
  /\ UNCHANGED <<listener, accepted, console, closing, past, recorded, printer, replay, inputVars>>

\* A write fails, or the input task says that the attachment is closed.
PrinterEnds(c) ==
  /\ \/ printer[c] = "replay" /\ console[c] = "dropped" /\ replay[c] # <<>>
     \/ printer[c] = "live" /\ console[c] = "dropped" /\ next[c] \in (recorded - Backlog + 1)..recorded
     \/ printer[c] = "live" /\ closing[c]
  /\ printer' = [printer EXCEPT ![c] = "done"] /\ replay' = [replay EXCEPT ![c] = <<>>]
  /\ UNCHANGED <<listener, accepted, console, closing, past, recorded, next, got, skipped, inputVars>>

-----------------------------------------------------------------------------
(***************************************************************************)
(* The console and its input task                                          *)
(***************************************************************************)
Types(c) ==
  /\ console[c] = "open" /\ typed[c] < MaxTyped
  /\ typed' = [typed EXCEPT ![c] = @ + 1] /\ pipe' = [pipe EXCEPT ![c] = Append(@, <<c, typed[c] + 1>>)]
  /\ UNCHANGED <<listener, accepted, console, closing, outputVars, held, waiting, delivered>>

Detach(c) ==
  /\ console[c] = "open" /\ console' = [console EXCEPT ![c] = "dropped"]
  /\ UNCHANGED <<listener, accepted, closing, outputVars, inputVars>>

Reads(c) ==
  /\ ~closing[c] /\ held[c] = <<>> /\ pipe[c] # <<>>
  /\ held' = [held EXCEPT ![c] = <<Head(pipe[c])>>] /\ pipe' = [pipe EXCEPT ![c] = Tail(@)]
  /\ UNCHANGED <<listener, accepted, console, closing, outputVars, typed, waiting, delivered>>

\* Without a connection, and with one that is being closed, the task waits for the next.
Gives(c) ==
  /\ held[c] # <<>> /\ listener = "serve" /\ Len(waiting) < InputChunks
  /\ waiting' = waiting \o held[c] /\ held' = [held EXCEPT ![c] = <<>>]
  /\ UNCHANGED <<listener, accepted, console, closing, outputVars, typed, pipe, delivered>>

InputEnds(c) ==
  /\ console[c] = "dropped" /\ held[c] = <<>> /\ pipe[c] = <<>> /\ ~closing[c]
  /\ closing' = [closing EXCEPT ![c] = TRUE]
  /\ UNCHANGED <<listener, accepted, console, outputVars, inputVars>>

HubNext ==
  \/ Accepts \/ Records \/ PassesInput \/ Breaks \/ Disconnects \/ Shutdown
  \/ \E c \in Consoles :
       \/ Attach(c) \/ Replays(c) \/ Receives(c) \/ PrinterEnds(c)
       \/ Types(c) \/ Detach(c) \/ Reads(c) \/ Gives(c) \/ InputEnds(c)

HubSpec == HubInit /\ [][HubNext]_hubVars

-----------------------------------------------------------------------------
HubTypeOK ==
  /\ listener \in {"accept", "serve", "close", "gone"} /\ accepted \in 0..MaxConnections
  /\ Len(past) <= HistoryBytes /\ recorded \in 0..MaxOutputs /\ Len(waiting) <= InputChunks
  /\ console \in [Consoles -> {"none", "open", "dropped"}]
  /\ printer \in [Consoles -> {"none", "replay", "live", "done"}] /\ next \in [Consoles -> 0..(MaxOutputs + 1)]

FromTo(first, last) == [i \in 1..(last - first + 1) |-> first + i - 1]

\* The bytes of the history and of the live output meet without a gap and without an overlap, and what lags
\* behind skips forward only.
OutputIsSeamless ==
  /\ past = FromTo(recorded - Len(past) + 1, recorded)
  /\ \A c \in Consoles : printer[c] \in {"replay", "live"} =>
       LET seen == got[c] \o replay[c]
       IN IF skipped[c] THEN \A i \in 1..(Len(seen) - 1) : seen[i] < seen[i + 1]
          ELSE seen = FromTo(next[c] - Len(seen), next[c] - 1)

\* The chunks that a console has typed are in order: each is later than those before it.
InOrder(chunks, c) ==
  \A i, j \in DOMAIN chunks : i < j /\ chunks[i][1] = c /\ chunks[j][1] = c => chunks[i][2] < chunks[j][2]

\* Input reaches one connection at most, and in the order in which it was typed.
InputIsInOrder ==
  \A c \in Consoles :
    LET passed == delivered \o waiting \o held[c] \o pipe[c]
    IN /\ InOrder(passed, c)
       /\ \A i \in DOMAIN passed : passed[i][1] = c => passed[i][2] <= typed[c]

\* attach, run_listener and record_output: no byte is doubled or out of order on either way.
HubInv == HubTypeOK /\ OutputIsSeamless /\ InputIsInOrder
=============================================================================
