---------------------------- MODULE NetworkTest ----------------------------
(***************************************************************************)
(* The throughput tests of ostool-server: a registry of test records, the  *)
(* semaphore that bounds how many tests transfer at a time, and of every   *)
(* test at most one upload and one download.  A transfer is the future of  *)
(* its handler, or the stream of its response, which the HTTP server polls *)
(* or drops; a download also has a watchdog, a task of its own.  The lock  *)
(* of a record is taken anew by every step of a transfer.                  *)
(***************************************************************************)
EXTENDS Integers, FiniteSets

CONSTANTS
  Tests,      \* the ids of the tests
  MaxRecords, \* MAX_RECORDS
  MaxActive,  \* max_active_tests
  Sizes,      \* bytes that a download asks for
  Timed,      \* a download that asks for a duration
  Chunk,      \* CHUNK_SIZE, and the largest chunk of an upload
  MaxBytes,   \* bound: bytes of one transfer, where the counter overflows
  MaxTransfers \* bound: transfers that are ever started

ASSUME NetworkTestAssumption ==
  /\ MaxRecords \in Nat \ {0} /\ MaxActive \in Nat \ {0}
  /\ Chunk \in Nat \ {0} /\ MaxBytes \in Nat /\ MaxTransfers \in Nat
  /\ Sizes \subseteq Nat \ {0} /\ Timed \notin Nat

VARIABLES
  known,        \* the records of the registry
  made,         \* every id so far: an id is made once
  due,          \* the records that are idle for longer than their time to live
  status,       \* of the two directions of a test
  bytes,        \* the counters
  active,       \* active_directions
  permit,       \* the tests that hold a permit
  free,         \* permits of the semaphore
  lastFinished, \* last_finished, 0 when no direction has finished
  clock,        \* directions that have finished
  transfer,     \* where the handler or the stream of a direction is
  late,         \* the directions whose deadline has passed
  watchdog,     \* of the download of a test
  request       \* what the download of a test asked for

registryVars == <<known, made, due>>
recordVars == <<status, active, permit, free, lastFinished, clock>>
testVars == <<registryVars, recordVars, bytes, transfer, late, watchdog, request>>

Direction == {"upload", "download"}
TransferStatus == {"not_started", "running", "completed", "canceled", "timed_out", "failed"}

NetInit ==
  /\ known = {} /\ made = {} /\ due = {} /\ permit = {} /\ late = {}
  /\ status = [t \in Tests |-> [d \in Direction |-> "not_started"]]
  /\ bytes = [t \in Tests |-> [d \in Direction |-> 0]]
  /\ active = [t \in Tests |-> 0] /\ free = MaxActive
  /\ lastFinished = [t \in Tests |-> 0] /\ clock = 0
  /\ transfer = [t \in Tests |-> [d \in Direction |-> "none"]]
  /\ watchdog = [t \in Tests |-> "none"] /\ request = [t \in Tests |-> Timed]

Running(t, d) == status[t][d] = "running"
Reaches(t, d, step) == transfer' = [transfer EXCEPT ![t][d] = step]

-----------------------------------------------------------------------------
(***************************************************************************)
(* The registry, under its lock.                                           *)
(***************************************************************************)
\* is_expired: a record that is idle, the longest finished before the others.
Expires(t) ==
  /\ active[t] = 0
  /\ lastFinished[t] > 0 =>
       \A u \in known \ due : active[u] = 0 /\ lastFinished[u] > 0 => lastFinished[t] <= lastFinished[u]

TimeToLiveEnds(t) ==
  /\ t \in known \ due /\ Expires(t)
  /\ due' = due \cup {t}
  /\ UNCHANGED <<known, made, recordVars, bytes, transfer, late, watchdog, request>>

\* eviction_time: none while a direction is active or before the first one has finished.
Evictable(records) == {t \in records : active[t] = 0 /\ lastFinished[t] > 0}
Oldest(records) == {t \in Evictable(records) : \A u \in Evictable(records) : lastFinished[t] <= lastFinished[u]}

Create ==
  /\ made # Tests
  /\ LET kept == known \ due
         full == Cardinality(kept) >= MaxRecords
         t == CHOOSE t \in Tests : t \notin made \* a new id
     IN IF full /\ Evictable(kept) = {} THEN known' = kept /\ UNCHANGED made
        ELSE known' = (IF full THEN kept \ Oldest(kept) ELSE kept) \cup {t} /\ made' = made \cup {t}
  /\ due' = {}
  /\ UNCHANGED <<recordVars, bytes, transfer, late, watchdog, request>>

\* record and start: a record that is due is removed when it is asked for.
FindsExpired(t) ==
  /\ t \in due
  /\ known' = known \ {t} /\ due' = due \ {t}
  /\ UNCHANGED <<made, recordVars, bytes, transfer, late, watchdog, request>>

Started == {s \in Tests \X Direction : status[s[1]][s[2]] # "not_started"}

\* A direction starts once; the directions of a test share a permit.
StartTransfer(t, d) ==
  /\ t \in known \ due /\ status[t][d] = "not_started" /\ Cardinality(Started) < MaxTransfers
  /\ IF active[t] = 0
     THEN free > 0 /\ free' = free - 1 /\ permit' = permit \cup {t}
     ELSE UNCHANGED <<free, permit>>
  /\ status' = [status EXCEPT ![t][d] = "running"] /\ active' = [active EXCEPT ![t] = @ + 1]
  /\ Reaches(t, d, "open")
  /\ UNCHANGED <<registryVars, bytes, lastFinished, clock, late>>

StartUpload(t) == StartTransfer(t, "upload") /\ UNCHANGED <<watchdog, request>>

\* The watchdog is spawned with the download.
StartDownload(t, r) ==
  /\ StartTransfer(t, "download")
  /\ watchdog' = [watchdog EXCEPT ![t] = "asleep"] /\ request' = [request EXCEPT ![t] = r]

-----------------------------------------------------------------------------
(***************************************************************************)
(* finish_record, add_bytes and the guard of a transfer.                   *)
(***************************************************************************)
\* Mutant: a direction that has finished is finished again.
Mutant_FinishesTwice(t, d, s) ==
  /\ status' = [status EXCEPT ![t][d] = s] /\ active' = [active EXCEPT ![t] = @ - 1]
  /\ lastFinished' = [lastFinished EXCEPT ![t] = clock + 1] /\ clock' = clock + 1
  /\ permit' = IF active[t] = 1 THEN permit \ {t} ELSE permit
  /\ free' = IF active[t] = 1 /\ t \in permit THEN free + 1 ELSE free

\* The first to finish a direction decides how it ended; the last direction gives the permit back.
FinishRecord(t, d, s) ==
  IF ~Running(t, d) THEN UNCHANGED recordVars
  ELSE /\ status' = [status EXCEPT ![t][d] = s] /\ active' = [active EXCEPT ![t] = @ - 1]
       /\ lastFinished' = [lastFinished EXCEPT ![t] = clock + 1] /\ clock' = clock + 1
       /\ permit' = IF active[t] = 1 THEN permit \ {t} ELSE permit
       /\ free' = IF active[t] = 1 THEN free + 1 ELSE free

\* TransferGuard::finish, and its drop with "canceled": the watchdog is aborted, unless it is past its sleep.
Finish(t, d, s) ==
  /\ FinishRecord(t, d, s)
  /\ watchdog' = IF d = "download" /\ watchdog[t] = "asleep" THEN [watchdog EXCEPT ![t] = "none"] ELSE watchdog
  /\ Reaches(t, d, "over") /\ late' = late \ {<<t, d>>}

\* Mutant: what arrives after the end is counted.
Mutant_CountsLate(t, d, n) == bytes[t][d] + n <= MaxBytes

\* add_bytes: only a running direction counts, and the counter does not wrap around.
Counts(t, d, n) == Running(t, d) /\ bytes[t][d] + n <= MaxBytes
AddBytes(t, d, n) == bytes' = [bytes EXCEPT ![t][d] = @ + n]

TransferIsLate(t, d) ==
  /\ transfer[t][d] \notin {"none", "over"} /\ <<t, d>> \notin late
  /\ late' = late \cup {<<t, d>>}
  /\ UNCHANGED <<registryVars, recordVars, bytes, transfer, watchdog, request>>

-----------------------------------------------------------------------------
(***************************************************************************)
(* upload                                                                  *)
(***************************************************************************)
\* A chunk that is there is taken even when the deadline has passed: timeout_at looks at the body first.
UploadChunk(t, n) ==
  /\ transfer[t]["upload"] = "open"
  /\ IF Counts(t, "upload", n) THEN AddBytes(t, "upload", n) /\ UNCHANGED <<recordVars, transfer, watchdog, late>>
     ELSE Finish(t, "upload", "failed") /\ UNCHANGED bytes
  /\ UNCHANGED <<registryVars, request>>

\* The body ends or cannot be read, the deadline passes, or the handler is dropped with its connection.
UploadEnds(t, s) ==
  /\ transfer[t]["upload"] = "open"
  /\ s = "timed_out" => <<t, "upload">> \in late
  /\ Finish(t, "upload", s)
  /\ UNCHANGED <<registryVars, bytes, request>>

-----------------------------------------------------------------------------
(***************************************************************************)
(* download: the stream is polled for a chunk, or dropped between two.     *)
(***************************************************************************)
Remaining(t) == request[t] - bytes[t]["download"]
ChunkSize(t) == IF request[t] = Timed \/ Remaining(t) > Chunk THEN Chunk ELSE Remaining(t)
TimeIsUp(t) == IF request[t] = Timed THEN "completed" ELSE "timed_out"

\* What the watchdog, or the last chunk, has finished yields nothing more, and the stream is dropped.
PollStream(t) ==
  /\ transfer[t]["download"] = "open"
  /\ IF Running(t, "download")
     THEN Reaches(t, "download", "seen") /\ UNCHANGED <<recordVars, watchdog, late>>
     ELSE Finish(t, "download", "canceled")
  /\ UNCHANGED <<registryVars, bytes, request>>

PollIsLate(t) ==
  /\ transfer[t]["download"] = "seen" /\ <<t, "download">> \in late
  /\ Finish(t, "download", TimeIsUp(t))
  /\ UNCHANGED <<registryVars, bytes, request>>

\* The lock was free since the stream looked at the status.
PollCounts(t) ==
  /\ transfer[t]["download"] = "seen"
  /\ IF Counts(t, "download", ChunkSize(t))
     THEN AddBytes(t, "download", ChunkSize(t)) /\ Reaches(t, "download", "counted")
          /\ UNCHANGED <<recordVars, watchdog, late>>
     ELSE Finish(t, "download", "failed") /\ UNCHANGED bytes
  /\ UNCHANGED <<registryVars, request>>

\* The last chunk finishes the download; the chunk is yielded.
PollYields(t) ==
  /\ transfer[t]["download"] = "counted"
  /\ IF request[t] # Timed /\ Remaining(t) = 0
     THEN Finish(t, "download", "completed")
     ELSE Reaches(t, "download", "open") /\ UNCHANGED <<recordVars, watchdog, late>>
  /\ UNCHANGED <<registryVars, bytes, request>>

DownloadDropped(t) ==
  /\ transfer[t]["download"] = "open"
  /\ Finish(t, "download", "canceled")
  /\ UNCHANGED <<registryVars, bytes, request>>

WatchdogWakes(t) ==
  /\ watchdog[t] = "asleep" /\ <<t, "download">> \in late
  /\ watchdog' = [watchdog EXCEPT ![t] = "awake"]
  /\ UNCHANGED <<registryVars, recordVars, bytes, transfer, late, request>>

WatchdogFinishes(t) ==
  /\ watchdog[t] = "awake"
  /\ FinishRecord(t, "download", TimeIsUp(t))
  /\ watchdog' = [watchdog EXCEPT ![t] = "none"]
  /\ UNCHANGED <<registryVars, bytes, transfer, late, request>>

NetNext ==
  \/ Create
  \/ \E t \in Tests :
       \/ TimeToLiveEnds(t) \/ FindsExpired(t)
       \/ StartUpload(t) \/ \E r \in Sizes \cup {Timed} : StartDownload(t, r)
       \/ \E d \in Direction : TransferIsLate(t, d)
       \/ \E n \in 1..Chunk : UploadChunk(t, n)
       \/ \E s \in TransferStatus \ {"not_started", "running"} : UploadEnds(t, s)
       \/ PollStream(t) \/ PollIsLate(t) \/ PollCounts(t) \/ PollYields(t) \/ DownloadDropped(t)
       \/ WatchdogWakes(t) \/ WatchdogFinishes(t)

NetSpec == NetInit /\ [][NetNext]_testVars

-----------------------------------------------------------------------------
NetTypeOK ==
  /\ due \subseteq known /\ known \subseteq made /\ made \subseteq Tests
  /\ status \in [Tests -> [Direction -> TransferStatus]] /\ bytes \in [Tests -> [Direction -> 0..MaxBytes]]
  /\ active \in [Tests -> 0..2] /\ permit \subseteq Tests /\ free \in 0..MaxActive
  /\ lastFinished \in [Tests -> Nat] /\ clock \in Nat /\ late \subseteq Tests \X Direction
  /\ transfer \in [Tests -> [Direction -> {"none", "open", "seen", "counted", "over"}]]
  /\ watchdog \in [Tests -> {"none", "asleep", "awake"}] /\ request \in [Tests -> Sizes \cup {Timed}]

RunningDirections(t) == {d \in Direction : Running(t, d)}

\* No permit is lost or given back twice: it is held exactly while a direction of its test runs.
PermitsAreCounted ==
  /\ free + Cardinality(permit) = MaxActive
  /\ \A t \in Tests : active[t] = Cardinality(RunningDirections(t)) /\ (t \in permit <=> active[t] > 0)

\* A test that runs is in the registry and not due, so that it can be looked up.
RunningIsKnown == \A t \in Tests : active[t] > 0 => t \in known \ due

\* What runs has a guard whose drop ends it, and a download that nobody polls has a watchdog.
RunningEnds ==
  \A t \in Tests, d \in Direction :
    /\ Running(t, d) => transfer[t][d] \notin {"none", "over"}
    /\ Running(t, "download") => watchdog[t] # "none"

\* The bytes of a download do not pass its request, and are all of it when it completed.
CompletedIsWhole ==
  \A t \in Tests :
    request[t] # Timed =>
      /\ bytes[t]["download"] <= request[t]
      /\ status[t]["download"] = "completed" => bytes[t]["download"] = request[t]

\* The tests of network_test.rs as a whole: the permits, the registry and the transfers agree.
NetTestInv ==
  /\ NetTypeOK /\ PermitsAreCounted /\ RunningIsKnown /\ RunningEnds /\ CompletedIsWhole
  /\ Cardinality(known) <= MaxRecords

\* What a test has measured stays: a direction that has ended keeps its status and its bytes, and a test
\* that is transferring is neither evicted nor expired (finish_record, add_bytes and create).
ResultStays ==
  [][\A t \in Tests :
       /\ \A d \in Direction :
            status[t][d] \notin {"not_started", "running"} =>
              status'[t][d] = status[t][d] /\ bytes'[t][d] = bytes[t][d]
       /\ permit' \cap {t} # {} => t \in known']_testVars
=============================================================================
