--------------------------- MODULE SerialConsole ---------------------------
(***************************************************************************)
(* The serial console of a session over a port of the host.  A thread of   *)
(* its own reads the port into a bounded buffer; one task moves what is    *)
(* there to the WebSocket, and the commands of the client to the port once *)
(* the board is on.  Its four workers share the task, none waits for the   *)
(* other, and the first that returns ends all of them; then the port is    *)
(* cleaned up before it is given back.                                     *)
(***************************************************************************)
EXTENDS Integers, Sequences

CONSTANTS
  MaxOutput,       \* bound: bytes that the board sends
  RxBytes,         \* QUEUE_BYTES
  ChunkBytes,      \* CHUNK_SIZE of one read
  QueueChunks,     \* QUEUE_CHUNKS
  ControlMessages, \* CONTROL_MESSAGES
  MaxInputs        \* bound: commands of the client

ASSUME SerialConsoleAssumption ==
  /\ MaxOutput \in Nat /\ RxBytes \in Nat \ {0} /\ ChunkBytes \in Nat \ {0}
  /\ QueueChunks \in Nat \ {0} /\ ControlMessages \in Nat \ {0} /\ MaxInputs \in Nat

VARIABLES
  sent,        \* bytes the board has sent: byte n is the n-th
  line,        \* the driver's input: the bytes that nobody has read yet
  cut,         \* how the line is: "ok", "eof" when it hangs up, "error"
  rx,          \* ReceiveBuffer: bytes, closed, error
  reader,      \* the thread: "check", "read", "wake", "closing", "last_wake", "done"
  line_failed, \* why the thread is closing: an error or not
  stopped,     \* ReceiveBuffer::stopped
  waker,       \* the AtomicWaker holds the task
  woken,       \* the task has been woken
  take,        \* read_serial: "poll", "look", "wait", or "over" when it has reported
  taken,       \* bytes that the thread has accepted and read_serial has taken
  output,      \* the output queue
  read_outcome,\* what read_serial reported: "none", "eof", "error"
  show,        \* write_websocket: "opening", "select", "send"
  message,     \* what is being sent: a chunk, or a pong as an empty one
  shown,       \* bytes that the client got
  pongs,       \* the control queue
  asked,       \* the commands that were accepted, by their number of chunks
  input,       \* the input queue: chunk i of command c
  board_on,    \* the power-on task has switched the board on
  put,         \* write_serial: "wait", "recv", "write"
  chunk,       \* what it is writing
  txq,         \* the driver's output
  written,     \* the chunks that the driver took
  relay        \* "run", how the workers ended: "ended", "drained", and then "join", "drain", "released"

rxVars == <<sent, line, cut, rx, reader, line_failed, stopped>>
takeVars == <<take, taken, output, read_outcome>>
showVars == <<show, message, shown, pongs>>
putVars == <<asked, input, board_on, put, chunk, txq, written>>
workerVars == <<woken, take, output, show, message, pongs, input, put, chunk>>
portVars == <<rxVars, waker, txq>>
linkVars == <<rxVars, waker, woken, takeVars, showVars, putVars, relay>>

LinkInit ==
  /\ sent = 0 /\ line = <<>> /\ cut = "ok"
  /\ rx = [bytes |-> <<>>, closed |-> FALSE, error |-> FALSE]
  /\ reader = "check" /\ line_failed = FALSE /\ stopped = FALSE /\ waker = FALSE /\ woken = FALSE
  /\ take = "poll" /\ taken = 0 /\ output = <<>> /\ read_outcome = "none"
  /\ show = "opening" /\ message = <<>> /\ shown = <<>> /\ pongs = 0
  /\ asked = <<>> /\ input = <<>> /\ board_on = FALSE /\ put = "wait" /\ chunk = <<>>
  /\ txq = <<>> /\ written = <<>> /\ relay = "run"

-----------------------------------------------------------------------------
(***************************************************************************)
(* The line and the thread that reads it, PhysicalSerial::new.             *)
(***************************************************************************)
BoardSends ==
  /\ sent < MaxOutput /\ cut = "ok" /\ relay # "released"
  /\ sent' = sent + 1 /\ line' = Append(line, sent + 1)
  /\ UNCHANGED <<cut, rx, reader, line_failed, stopped, waker, woken, takeVars, showVars, putVars, relay>>

LineIsCut ==
  /\ cut = "ok" /\ cut' \in {"eof", "error"}
  /\ UNCHANGED <<sent, line, rx, reader, line_failed, stopped, waker, woken, takeVars, showVars, putVars, relay>>

\* It is told to stop between two reads only.
ReaderChecks ==
  /\ reader = "check"
  /\ reader' = IF stopped THEN "closing" ELSE "read"
  /\ UNCHANGED <<sent, line, cut, rx, line_failed, stopped, waker, woken, takeVars, showVars, putVars, relay>>

\* A chunk that does not fit ends the thread, and is not accepted.
ReaderReads ==
  /\ reader = "read" /\ line # <<>>
  /\ \E n \in 1..(IF Len(line) < ChunkBytes THEN Len(line) ELSE ChunkBytes) :
       /\ line' = SubSeq(line, n + 1, Len(line))
       /\ IF n > RxBytes - Len(rx.bytes)
          THEN reader' = "closing" /\ line_failed' = TRUE /\ UNCHANGED rx
          ELSE rx' = [rx EXCEPT !.bytes = @ \o SubSeq(line, 1, n)] /\ reader' = "wake" /\ UNCHANGED line_failed
  /\ UNCHANGED <<sent, cut, stopped, waker, woken, takeVars, showVars, putVars, relay>>

\* The read times out, or ends with the line.
ReaderEnds ==
  /\ reader = "read" /\ line = <<>>
  /\ IF cut = "ok" THEN reader' = "check" /\ UNCHANGED line_failed
     ELSE reader' = "closing" /\ line_failed' = (cut = "error")
  /\ UNCHANGED <<sent, line, cut, rx, stopped, waker, woken, takeVars, showVars, putVars, relay>>

ReaderCloses ==
  /\ reader = "closing"
  /\ rx' = [rx EXCEPT !.closed = TRUE, !.error = line_failed] /\ reader' = "last_wake"
  /\ UNCHANGED <<sent, line, cut, line_failed, stopped, waker, woken, takeVars, showVars, putVars, relay>>

\* AtomicWaker::wake
ReaderWakes ==
  /\ reader \in {"wake", "last_wake"}
  /\ reader' = IF reader = "wake" THEN "check" ELSE "done"
  /\ waker' = FALSE /\ woken' = (woken \/ waker)
  /\ UNCHANGED <<sent, line, cut, rx, line_failed, stopped, takeVars, showVars, putVars, relay>>

-----------------------------------------------------------------------------
(***************************************************************************)
(* read_serial, with PhysicalSerial::poll_read.                            *)
(***************************************************************************)
\* The first worker that returns ends them all, and their queues are gone with them.
WorkersEnd(how) ==
  /\ relay' = how
  /\ woken' = FALSE /\ take' = "over" /\ output' = <<>> /\ show' = "opening" /\ message' = <<>> /\ pongs' = 0
  /\ input' = <<>> /\ put' = "wait" /\ chunk' = <<>>

\* The waker is registered before the buffer is looked at.  The task also polls when another worker has to.
Registers ==
  /\ relay = "run" /\ take \in {"poll", "wait"}
  /\ waker' = TRUE /\ woken' = FALSE /\ take' = "look"
  /\ UNCHANGED <<rxVars, taken, output, read_outcome, showVars, putVars, relay>>

Took(n) == rx' = [rx EXCEPT !.bytes = SubSeq(@, n + 1, Len(@))] /\ taken' = taken + n

\* Mutant: a failure is reported before the bytes that were accepted before it.
Mutant_ErrorFirst ==
  /\ relay = "run" /\ take = "look"
  /\ IF rx.closed
     THEN take' = "over" /\ read_outcome' = (IF rx.error THEN "error" ELSE "eof") /\ UNCHANGED <<rx, taken, output>>
     ELSE /\ Len(output) < QueueChunks
          /\ Took(Len(rx.bytes)) /\ UNCHANGED read_outcome
          /\ IF rx.bytes = <<>> THEN take' = "wait" /\ UNCHANGED output
             ELSE output' = Append(output, rx.bytes) /\ take' = "poll"
  /\ UNCHANGED <<sent, line, cut, reader, line_failed, stopped, waker, woken, showVars, putVars, relay>>

\* What is there is taken first, at most a chunk.
Looks ==
  /\ relay = "run" /\ take = "look"
  /\ LET n == IF Len(rx.bytes) < ChunkBytes THEN Len(rx.bytes) ELSE ChunkBytes
     IN \/ /\ n > 0 /\ Len(output) < QueueChunks
           /\ output' = Append(output, SubSeq(rx.bytes, 1, n)) /\ Took(n) /\ take' = "poll" /\ UNCHANGED read_outcome
        \/ /\ n = 0 /\ rx.closed
           /\ take' = "over" /\ read_outcome' = IF rx.error THEN "error" ELSE "eof"
           /\ rx' = [rx EXCEPT !.error = FALSE] /\ UNCHANGED <<taken, output>>
        \/ /\ n = 0 /\ ~rx.closed
           /\ take' = "wait" /\ UNCHANGED <<rx, taken, output, read_outcome>>
  /\ UNCHANGED <<sent, line, cut, reader, line_failed, stopped, waker, woken, showVars, putVars, relay>>

\* A full queue ends the console: the client cannot keep up.
OutputOverflows ==
  /\ relay = "run" /\ take = "look" /\ rx.bytes # <<>> /\ Len(output) = QueueChunks
  /\ Took(IF Len(rx.bytes) < ChunkBytes THEN Len(rx.bytes) ELSE ChunkBytes)
  /\ WorkersEnd("ended")
  /\ UNCHANGED <<sent, line, cut, reader, line_failed, stopped, waker, read_outcome, shown, asked, board_on, txq, written>>

-----------------------------------------------------------------------------
(***************************************************************************)
(* write_websocket                                                         *)
(***************************************************************************)
SocketOpens ==
  /\ relay = "run" /\ show = "opening" /\ show' = "select"
  /\ UNCHANGED <<rxVars, waker, woken, takeVars, message, shown, pongs, putVars, relay>>

\* select! takes either queue.
SelectsOutput ==
  /\ relay = "run" /\ show = "select" /\ output # <<>>
  /\ message' = Head(output) /\ output' = Tail(output) /\ show' = "send"
  /\ UNCHANGED <<rxVars, waker, woken, take, taken, read_outcome, shown, pongs, putVars, relay>>

SelectsPong ==
  /\ relay = "run" /\ show = "select" /\ pongs > 0
  /\ pongs' = pongs - 1 /\ message' = <<>> /\ show' = "send"
  /\ UNCHANGED <<rxVars, waker, woken, takeVars, shown, putVars, relay>>

\* The queue is closed and empty: the result of the reader is the result of the console.
SelectsResult ==
  /\ relay = "run" /\ show = "select" /\ output = <<>> /\ take = "over"
  /\ WorkersEnd("drained")
  /\ UNCHANGED <<portVars, taken, read_outcome, shown, asked, board_on, written>>

Sends ==
  /\ relay = "run" /\ show = "send"
  /\ shown' = shown \o message /\ message' = <<>> /\ show' = "select"
  /\ UNCHANGED <<rxVars, waker, woken, takeVars, pongs, putVars, relay>>

SendFails ==
  /\ relay = "run" /\ show \in {"opening", "send"}
  /\ WorkersEnd("ended")
  /\ UNCHANGED <<portVars, taken, read_outcome, shown, asked, board_on, written>>

-----------------------------------------------------------------------------
(***************************************************************************)
(* read_websocket                                                          *)
(***************************************************************************)
ChunksOf(c, n) == [i \in 1..n |-> <<c, i>>]

\* A command is published whole or not at all: its chunks are counted before the first is.
ControlArrives(n) ==
  /\ relay = "run" /\ Len(asked) < MaxInputs /\ n <= QueueChunks - Len(input)
  /\ asked' = Append(asked, n) /\ input' = input \o ChunksOf(Len(asked) + 1, n)
  /\ UNCHANGED <<rxVars, waker, woken, takeVars, showVars, board_on, put, chunk, txq, written, relay>>

Ping ==
  /\ relay = "run" /\ pongs < ControlMessages /\ pongs' = pongs + 1
  /\ UNCHANGED <<rxVars, waker, woken, takeVars, show, message, shown, putVars, relay>>

\* "close", a close frame, the end of the socket, a message that cannot be read or decoded, a command or a
\* ping that does not fit.
ClientEnds ==
  /\ relay = "run"
  /\ WorkersEnd("ended")
  /\ UNCHANGED <<portVars, taken, read_outcome, shown, asked, board_on, written>>

-----------------------------------------------------------------------------
(***************************************************************************)
(* write_serial, and the power-on task it waits for.                       *)
(***************************************************************************)
PowerIsOn ==
  /\ relay = "run" /\ ~board_on /\ board_on' = TRUE
  /\ UNCHANGED <<rxVars, waker, woken, takeVars, showVars, asked, input, put, chunk, txq, written, relay>>

\* The power-on task fails, or the session is stopped.
PowerOnFails ==
  /\ relay = "run" /\ ~board_on
  /\ WorkersEnd("ended")
  /\ UNCHANGED <<portVars, taken, read_outcome, shown, asked, board_on, written>>

StartsWriting ==
  /\ relay = "run" /\ put = "wait" /\ board_on /\ put' = "recv"
  /\ UNCHANGED <<rxVars, waker, woken, takeVars, showVars, asked, input, board_on, chunk, txq, written, relay>>

ReceivesInput ==
  /\ relay = "run" /\ put = "recv" /\ input # <<>>
  /\ chunk' = <<Head(input)>> /\ input' = Tail(input) /\ put' = "write"
  /\ UNCHANGED <<rxVars, waker, woken, takeVars, showVars, asked, board_on, txq, written, relay>>

\* write_serial_payload: the driver takes the chunk, nobody waits until it is on the line.
WritesInput ==
  /\ relay = "run" /\ put = "write"
  /\ txq' = txq \o chunk /\ written' = written \o chunk /\ chunk' = <<>> /\ put' = "recv"
  /\ UNCHANGED <<rxVars, waker, woken, takeVars, showVars, asked, input, board_on, relay>>

WriteFails ==
  /\ relay = "run" /\ put = "write"
  /\ WorkersEnd("ended")
  /\ UNCHANGED <<portVars, taken, read_outcome, shown, asked, board_on, written>>

\* The driver puts a chunk on the line.
Transmits ==
  /\ relay # "released" /\ txq # <<>> /\ txq' = Tail(txq)
  /\ UNCHANGED <<rxVars, waker, woken, takeVars, showVars, asked, input, board_on, put, chunk, written, relay>>

-----------------------------------------------------------------------------
(***************************************************************************)
(* The end: the workers are gone, the port is cleaned up and dropped.      *)
(***************************************************************************)
\* flush_output stops the reader.
StopsReader ==
  /\ relay \in {"ended", "drained"}
  /\ stopped' = TRUE /\ relay' = "join"
  /\ UNCHANGED <<sent, line, cut, rx, reader, line_failed, waker, woken, takeVars, showVars, putVars>>

ReaderJoined ==
  /\ relay = "join" /\ reader = "done" /\ relay' = "drain"
  /\ UNCHANGED <<rxVars, waker, woken, takeVars, showVars, putVars>>

\* wait_output_empty until it is, or for SERIAL_CLOSE_TIMEOUT; then both buffers of the driver are cleared.
Releases ==
  /\ relay = "drain" /\ relay' = "released"
  /\ txq' = <<>> /\ line' = <<>>
  /\ UNCHANGED <<sent, cut, rx, reader, line_failed, stopped, waker, woken, takeVars, showVars, asked, input,
                 board_on, put, chunk, written>>

LinkNext ==
  \/ BoardSends \/ LineIsCut \/ ReaderChecks \/ ReaderReads \/ ReaderEnds \/ ReaderCloses \/ ReaderWakes
  \/ Registers \/ Looks \/ OutputOverflows
  \/ SocketOpens \/ SelectsOutput \/ SelectsPong \/ SelectsResult \/ Sends \/ SendFails
  \/ \E n \in 1..QueueChunks : ControlArrives(n)
  \/ Ping \/ ClientEnds
  \/ PowerIsOn \/ PowerOnFails \/ StartsWriting \/ ReceivesInput \/ WritesInput \/ WriteFails \/ Transmits
  \/ StopsReader \/ ReaderJoined \/ Releases

LinkSpec == LinkInit /\ [][LinkNext]_linkVars

-----------------------------------------------------------------------------
LinkTypeOK ==
  /\ sent \in 0..MaxOutput /\ cut \in {"ok", "eof", "error"}
  /\ reader \in {"check", "read", "wake", "closing", "last_wake", "done"}
  /\ Len(rx.bytes) <= RxBytes /\ Len(output) <= QueueChunks /\ Len(input) <= QueueChunks
  /\ take \in {"poll", "look", "wait", "over"} /\ read_outcome \in {"none", "eof", "error"}
  /\ show \in {"opening", "select", "send"} /\ put \in {"wait", "recv", "write"} /\ pongs \in 0..ControlMessages
  /\ relay \in {"run", "ended", "drained", "join", "drain", "released"}

Numbered(first, last) == [i \in 1..(last - first + 1) |-> first + i - 1]

\* The byte with which the first k chunks of the output queue end.
EndOf(k) == IF k = 0 THEN Len(shown) + Len(message) ELSE output[k][Len(output[k])]

\* While the console runs nothing of what the thread accepted is lost, doubled or out of order: what is in each
\* place begins where that in the place before it ends.
OutputIsWhole ==
  /\ shown = Numbered(1, Len(shown))
  /\ relay = "run" =>
       /\ message = Numbered(Len(shown) + 1, Len(shown) + Len(message))
       /\ \A k \in DOMAIN output :
            output[k] # <<>> /\ output[k] = Numbered(EndOf(k - 1) + 1, EndOf(k - 1) + Len(output[k]))
       /\ taken = EndOf(Len(output)) /\ rx.bytes = Numbered(taken + 1, taken + Len(rx.bytes))

\* The end of the line, or its failure, is told after all that was accepted before it.
DrainedIsAll == relay = "drained" => Len(shown) = taken /\ rx.bytes = <<>> /\ reader \in {"last_wake", "done"}

\* The thread's bytes and its end are seen: a task that waits for them is woken, or just about to be.
NothingSleeps ==
  relay = "run" /\ take = "wait" /\ (rx.bytes # <<>> \/ rx.closed) => woken \/ reader \in {"wake", "last_wake"}

\* The chunk that comes after another one, of its command or of the next.
After(x) == IF x[2] < asked[x[1]] THEN <<x[1], x[2] + 1>> ELSE <<x[1] + 1, 1>>

\* Commands reach the port whole and in order, and none before the board is on.
CommandsAreWhole ==
  /\ relay = "run" =>
       LET all == written \o chunk \o input
       IN IF asked = <<>> THEN all = <<>>
          ELSE /\ all # <<>> /\ all[1] = <<1, 1>> /\ all[Len(all)] = <<Len(asked), asked[Len(asked)]>>
               /\ \A i \in 1..(Len(all) - 1) : all[i + 1] = After(all[i])
  /\ ~board_on => written = <<>> /\ put = "wait"

\* The next owner of the port finds it empty, and nobody else reading it.
ReleasedIsClean == relay = "released" => reader = "done" /\ txq = <<>>

\* transport.rs and physical.rs: the order of the bytes, the wake-ups, the commands and the release agree.
SerialLinkInv ==
  LinkTypeOK /\ OutputIsWhole /\ DrainedIsAll /\ NothingSleeps /\ CommandsAreWhole /\ ReleasedIsClean
=============================================================================
