-------------------------- MODULE OtaUpdatesProofs --------------------------
(***************************************************************************)
(* The inductive invariant of the update store and what follows from it,   *)
(* for any images, assignments, boots, failed writes and restarts; then    *)
(* those of the two ways to a serial port, the hub of a virtual board and  *)
(* the console over a port of the host, for any number of consoles, bytes, *)
(* commands and interleavings of their tasks.                              *)
(***************************************************************************)
EXTENDS OtaUpdates, SerialHub, SequenceTheorems, SerialConsole, TLAPS

\* The part of the invariant that is about the assignment and its image.
JobInv ==
  /\ job \in Job /\ job_disk \in Job
  /\ JobIsSound(job) /\ JobIsSound(job_disk)
  /\ DiskIsNotBehind
  /\ AssignedImageIsKept

\* What an operation of the store may make of the assignment: a later state of the same one, and
\* nothing else of one that has ended.
Successor(n) ==
  /\ n \in Job /\ JobIsSound(n)
  /\ n.id = job.id /\ n.image = job.image
  /\ is_open(n) => is_open(job)
  /\ is_open(job) \/ n = job

\* The three ways in which a write ends.
JobStep(n) ==
  \/ job' = n /\ job_disk' = n
  \/ job' = job /\ job_disk' \in {job_disk, n}

-----------------------------------------------------------------------------
\* Moving an assignment to another phase keeps its identity and its attempts.
LEMMA MovedKeeps ==
  ASSUME NEW j \in Job, NEW p \in OpenPhases \cup TerminalPhases
  PROVE  /\ Moved(j, p) \in Job
         /\ Moved(j, p).id = j.id /\ Moved(j, p).image = j.image
         /\ Moved(j, p).attempts = j.attempts /\ Moved(j, p).phase = p
  BY DEF Moved, Job

\* The verdict read from the device is a phase.
LEMMA OutcomeIsPhase ==
  ASSUME NEW j \in Job, NEW s \in Status, is_open(j)
  PROVE  OutcomePhase(j, s) \in OpenPhases \cup TerminalPhases
  BY DEF OutcomePhase, is_open, OpenPhases, TerminalPhases, Status, Outcomes

\* decide only moves an open assignment forward and leaves every other one alone.
LEMMA DecidedJobIsSuccessor ==
  ASSUME JobInv, NEW s \in Status, NEW changed \in BOOLEAN, NEW idle \in BOOLEAN, NEW due \in BOOLEAN
  PROVE  Successor(DecidedJob(job, s, changed, idle, due))
<1> DEFINE n == DecidedJob(job, s, changed, idle, due)
<1>1. job \in Job /\ JobIsSound(job)
  BY DEF JobInv
<1>2. CASE ~is_open(job)
  <2>1. n = job
    BY <1>2 DEF DecidedJob
  <2>. QED BY <1>1, <1>2, <2>1 DEF Successor
<1>3. CASE is_open(job)
  <2>1. /\ n \in Job /\ n.id = job.id /\ n.image = job.image /\ n.attempts = job.attempts
        /\ n.phase \in OpenPhases \cup TerminalPhases
    <3>1. CASE ~s.ota
      <4>1. n = [job EXCEPT !.waiting = TRUE, !.delayed = FALSE]
        BY <1>3, <3>1 DEF DecidedJob
      <4>. QED BY <1>1, <1>3, <4>1 DEF Job, is_open
    <3>2. CASE s.ota /\ OutcomePhase(job, s) # job.phase
      <4>1. n = Moved(job, OutcomePhase(job, s))
        BY <1>3, <3>2 DEF DecidedJob
      <4>. QED BY <1>1, <1>3, <4>1, MovedKeeps, OutcomeIsPhase
    <3>3. CASE s.ota /\ OutcomePhase(job, s) = job.phase
      <4>1. n = Progress(job, s, changed, idle, due)
        BY <1>3, <3>3 DEF DecidedJob
      <4>2. /\ "Confirming" \in OpenPhases /\ "Staged" \in OpenPhases /\ "Downloading" \in OpenPhases
            /\ "Failed" \in TerminalPhases
        BY DEF OpenPhases, TerminalPhases
      <4>3. \/ \E p \in OpenPhases \cup TerminalPhases : n = Moved(job, p)
            \/ n = [job EXCEPT !.waiting = job.waiting /\ ~changed]
        BY <4>1, <4>2 DEF Progress
      <4>4. CASE \E p \in OpenPhases \cup TerminalPhases : n = Moved(job, p)
        BY <1>1, <4>4, MovedKeeps
      <4>5. CASE n = [job EXCEPT !.waiting = job.waiting /\ ~changed]
        BY <1>1, <1>3, <4>5 DEF Job, is_open
      <4>. QED BY <4>3, <4>4, <4>5
    <3>. QED BY <3>1, <3>2, <3>3
  <2>2. n.phase # "None" /\ job.phase # "None"
    BY <1>3, <2>1 DEF is_open, OpenPhases, TerminalPhases
  <2>. QED BY <1>1, <1>3, <2>1, <2>2 DEF Successor, JobIsSound
<1>. QED BY <1>2, <1>3

\* A write of a successor keeps memory and disk in step, whether it succeeds or not.
LEMMA JobStepKeepsJobInv ==
  ASSUME JobInv, NEW n, Successor(n), JobStep(n),
         ids' = ids, unacked' = unacked, meta' = meta, efi' = efi
  PROVE  JobInv' /\ (is_terminal(job) => job' = job)
<1>1. is_terminal(job) => ~is_open(job)
  BY DEF is_terminal, is_open, TerminalPhases, OpenPhases
<1>2. job' \in Job /\ job_disk' \in Job /\ JobIsSound(job)' /\ JobIsSound(job_disk)'
  BY DEF JobInv, Successor, JobStep, JobIsSound, is_open
<1>3. DiskIsNotBehind'
  BY <1>1 DEF JobInv, Successor, JobStep, DiskIsNotBehind, is_terminal
<1>4. AssignedImageIsKept'
  BY DEF JobInv, Successor, JobStep, AssignedImageIsKept, is_open
<1>5. is_terminal(job) => job' = job
  BY <1>1 DEF Successor, JobStep
<1>. QED BY <1>2, <1>3, <1>4, <1>5 DEF JobInv

-----------------------------------------------------------------------------
(***************************************************************************)
(* The invariant in parts, and what every step has to show.                *)
(***************************************************************************)
StoreRest ==
  /\ obs \in Status /\ obs_disk \in Status /\ waited \in Status
  /\ ids \in 0..MaxJobs /\ torn \in BOOLEAN /\ unacked \in SUBSET (1..MaxJobs)
LibraryInv == ImageTypes /\ CatalogIsReadable
TaskInv == TaskTypes /\ TaskIsBound
WorldTypes == DeviceTypes /\ NetTypes /\ faults \in 0..MaxFaults

TerminalStep == is_terminal(job) => job' = job \/ job'.id > job.id
Preserved == StoreInv' /\ TerminalStep

\* The invariant is the conjunction of its five parts.
LEMMA InvariantParts == StoreInv <=> JobInv /\ StoreRest /\ LibraryInv /\ TaskInv /\ WorldTypes
  BY DEF StoreInv, JobInv, StoreRest, LibraryInv, TaskInv, WorldTypes, TypeOK, StoreTypes

\* The same for the next state.
LEMMA InvariantPartsNext ==
  ASSUME JobInv', StoreRest', LibraryInv', TaskInv', WorldTypes'
  PROVE  StoreInv'
  BY DEF StoreInv, JobInv, StoreRest, LibraryInv, TaskInv, WorldTypes, TypeOK, StoreTypes

\* The null values are values of their types.
LEMMA NullsAreTyped == NoJob \in Job /\ NoStatus \in Status
  BY OtaAssumption DEF NoJob, NoStatus, Job, Status, UpdateIds, Outcomes, Direct

\* What the device reports is a status of its current boot.
LEMMA ReportedIsTyped ==
  ASSUME WorldTypes
  PROVE  Reported \in Status /\ Reported.epoch = dev.epoch
<1>1. CASE dev.ota
  BY <1>1 DEF Reported, WorldTypes, DeviceTypes
<1>2. CASE ~dev.ota
  <2>1. Reported = [NoStatus EXCEPT !.epoch = dev.epoch]
    BY <1>2 DEF Reported
  <2>2. dev.epoch \in 0..MaxBoots /\ NoStatus \in Status
    BY NullsAreTyped DEF WorldTypes, DeviceTypes, Status
  <2>. QED BY <2>1, <2>2 DEF Status
<1>. QED BY <1>1, <1>2

\* Parts of the state that a step leaves alone.
LEMMA LibraryUnchanged ==
  ASSUME LibraryInv, UNCHANGED imageVars PROVE LibraryInv'
  BY DEF LibraryInv, ImageTypes, CatalogIsReadable, imageVars

\* A reconciliation that does not move keeps its part.
LEMMA TaskUnchanged ==
  ASSUME TaskInv, UNCHANGED taskVars PROVE TaskInv'
  BY DEF TaskInv, TaskTypes, TaskIsBound, taskVars

\* An untouched store keeps its part and its ended assignment.
LEMMA StoreUnchanged ==
  ASSUME JobInv, StoreRest, UNCHANGED storeVars, meta' = meta, efi' = efi
  PROVE  JobInv' /\ StoreRest' /\ TerminalStep
  BY DEF JobInv, StoreRest, JobIsSound, DiskIsNotBehind, AssignedImageIsKept, TerminalStep,
         is_open, is_terminal, storeVars

\* An untouched device and network keep their types.
LEMMA WorldUnchanged ==
  ASSUME WorldTypes, UNCHANGED deviceVars, UNCHANGED netVars, faults' \in 0..MaxFaults
  PROVE  WorldTypes'
  BY DEF WorldTypes, DeviceTypes, NetTypes, deviceVars, netVars

\* A counted fault stays within its bound.
LEMMA FaultIsCounted ==
  ASSUME faults \in 0..MaxFaults, Fault PROVE faults' \in 0..MaxFaults
  BY OtaAssumption DEF Fault

\* A task that ends has no locals left.
LEMMA EndedTask ==
  ASSUME Ends PROVE TaskInv'
  BY NullsAreTyped, OtaAssumption DEF Ends, TaskInv, TaskTypes, TaskIsBound, Failures

-----------------------------------------------------------------------------
(***************************************************************************)
(* The image library.                                                      *)
(***************************************************************************)
\* Uploads and deletions, failed ones too: only an image that is not in use goes away.
LEMMA LibraryStep ==
  ASSUME StoreInv, NEW i \in Images, PutImage(i) \/ PutImageFails(i) \/ DeleteImage(i) \/ DeleteImageFails(i)
  PROVE  Preserved
<1>1. JobInv /\ StoreRest /\ LibraryInv /\ TaskInv /\ WorldTypes
  BY InvariantParts
<1>2. UNCHANGED storeVars /\ UNCHANGED taskVars /\ UNCHANGED deviceVars /\ UNCHANGED netVars
  BY DEF PutImage, PutImageFails, DeleteImage, DeleteImageFails
<1>3. faults' \in 0..MaxFaults
  BY <1>1, FaultIsCounted DEF PutImage, PutImageFails, DeleteImage, DeleteImageFails, WorldTypes
<1>4. LibraryInv'
  BY <1>1 DEF LibraryInv, ImageTypes, CatalogIsReadable, PutImage, PutImageFails, DeleteImage, DeleteImageFails
<1>5. \A k \in meta \cap efi : k \in meta' \cap efi' \/ (k = i /\ ~InUse(i))
  BY DEF PutImage, PutImageFails, DeleteImage, DeleteImageFails
<1>6. AssignedImageIsKept'
  BY <1>1, <1>2, <1>5 DEF JobInv, AssignedImageIsKept, InUse, is_open, storeVars
<1>7. JobInv' /\ StoreRest' /\ TerminalStep
  BY <1>1, <1>2, <1>6 DEF JobInv, StoreRest, JobIsSound, DiskIsNotBehind, TerminalStep, is_open, is_terminal, storeVars
<1>. QED BY <1>1, <1>2, <1>3, <1>4, <1>7, TaskUnchanged, WorldUnchanged, InvariantPartsNext DEF Preserved

-----------------------------------------------------------------------------
(***************************************************************************)
(* Assignments.                                                            *)
(***************************************************************************)
\* A new assignment has the next id and an image that can be read; a failed creation is in unacked.
LEMMA QueueStep ==
  ASSUME StoreInv, NEW i \in Images, Queue(i) \/ QueueFails(i)
  PROVE  Preserved
<1> DEFINE n == NewJob(i)
<1>1. JobInv /\ StoreRest /\ LibraryInv /\ TaskInv /\ WorldTypes
  BY InvariantParts
<1>2. /\ UNCHANGED <<obs, obs_disk, waited>> /\ UNCHANGED imageVars /\ UNCHANGED taskVars
      /\ UNCHANGED deviceVars /\ UNCHANGED netVars
      /\ ids < MaxJobs /\ ids' = ids + 1 /\ Queueable(i)
  BY DEF Queue, QueueFails
<1>3. n \in Job /\ n.id = ids + 1 /\ n.image = i /\ n.phase = "Queued" /\ n.attempts = 0
  <2>2. ids + 1 \in 0..MaxJobs /\ 0 \in 0..MaxAttempts /\ "Queued" \in OpenPhases
    BY <1>1, <1>2, OtaAssumption DEF StoreRest, OpenPhases
  <2>. QED BY <2>2 DEF NewJob, Job
<1>4. \/ job' = n /\ job_disk' = n /\ unacked' = unacked
      \/ job' = job /\ job_disk' \in {job_disk, n} /\ unacked' = unacked \cup {ids + 1}
  BY DEF Queue, QueueFails, Saved, SaveFails
<1>5. ids \in 0..MaxJobs /\ ids' \in 0..MaxJobs /\ MaxJobs \in Nat
  BY <1>1, <1>2, OtaAssumption DEF StoreRest
<1>6. i \in meta \cap efi
  BY <1>1, <1>2 DEF Queueable, LibraryInv, CatalogIsReadable
<1>7. job.id \in Nat /\ job_disk.id \in Nat /\ job.id <= ids /\ job_disk.id <= ids
  BY <1>1, OtaAssumption DEF JobInv, Job, JobIsSound
<1>8. job' \in Job /\ job_disk' \in Job /\ JobIsSound(job)' /\ JobIsSound(job_disk)'
  BY <1>1, <1>2, <1>3, <1>4, <1>5, <1>7, OtaAssumption DEF JobInv, JobIsSound, is_open
<1>9. DiskIsNotBehind'
  BY <1>1, <1>3, <1>4, <1>5, <1>7 DEF JobInv, DiskIsNotBehind, is_terminal
<1>10. AssignedImageIsKept'
  BY <1>1, <1>2, <1>3, <1>4, <1>6 DEF JobInv, AssignedImageIsKept, is_open, imageVars
<1>11. StoreRest'
  <2>1. unacked' \in SUBSET (1..MaxJobs)
    <3>1. ids + 1 \in 1..MaxJobs
      BY <1>2, <1>5
    <3>. QED BY <1>1, <1>4, <3>1 DEF StoreRest
  <2>2. torn' \in BOOLEAN
    BY <1>1 DEF StoreRest, Queue, QueueFails, Saved, SaveFails
  <2>. QED BY <1>1, <1>2, <1>5, <2>1, <2>2 DEF StoreRest
<1>12. TerminalStep
  BY <1>3, <1>4, <1>5, <1>7 DEF TerminalStep
<1>13. faults' \in 0..MaxFaults
  BY <1>1, FaultIsCounted DEF Queue, QueueFails, SaveFails, WorldTypes
<1>14. JobInv'
  BY <1>8, <1>9, <1>10 DEF JobInv
<1>. QED BY <1>1, <1>2, <1>11, <1>12, <1>13, <1>14, LibraryUnchanged, TaskUnchanged, WorldUnchanged,
            InvariantPartsNext DEF Preserved

\* An open assignment may move to any phase.
LEMMA MovedIsSuccessor ==
  ASSUME JobInv, is_open(job), NEW p \in OpenPhases \cup TerminalPhases
  PROVE  Successor(Moved(job, p))
<1>1. job \in Job /\ JobIsSound(job)
  BY DEF JobInv
<1>2. p # "None" /\ job.phase # "None"
  BY DEF is_open, OpenPhases, TerminalPhases
<1>. QED BY <1>1, <1>2, MovedKeeps DEF Successor, JobIsSound, is_open

\* Cancellation ends an open assignment, in memory and on disk or only on disk.
LEMMA CancelStep ==
  ASSUME StoreInv, Cancel \/ CancelFails
  PROVE  Preserved
<1>1. JobInv /\ StoreRest /\ LibraryInv /\ TaskInv /\ WorldTypes
  BY InvariantParts
<1>2. /\ UNCHANGED <<ids, waited, unacked>> /\ UNCHANGED imageVars /\ UNCHANGED taskVars
      /\ UNCHANGED deviceVars /\ UNCHANGED netVars /\ is_open(job)
  BY DEF Cancel, CancelFails
<1>3. Successor(Moved(job, "Cancelled"))
  BY <1>1, <1>2, MovedIsSuccessor DEF TerminalPhases
<1>4. JobStep(Moved(job, "Cancelled"))
  BY DEF Cancel, CancelFails, Saved, SaveFails, JobStep
<1>5. JobInv' /\ TerminalStep
  BY <1>1, <1>2, <1>3, <1>4, JobStepKeepsJobInv DEF TerminalStep, imageVars
<1>6. StoreRest'
  BY <1>1, <1>2, NullsAreTyped DEF StoreRest, Cancel, CancelFails, Saved, SaveFails
<1>7. faults' \in 0..MaxFaults
  BY <1>1, FaultIsCounted DEF Cancel, CancelFails, SaveFails, WorldTypes
<1>. QED BY <1>1, <1>2, <1>5, <1>6, <1>7, LibraryUnchanged, TaskUnchanged, WorldUnchanged,
            InvariantPartsNext DEF Preserved

\* After a restart memory is what the file holds, which is not behind what memory was.
LEMMA RestartStep ==
  ASSUME StoreInv, Restart
  PROVE  Preserved
<1>1. JobInv /\ StoreRest /\ LibraryInv /\ TaskInv /\ WorldTypes
  BY InvariantParts
<1>2. /\ job' = job_disk /\ job_disk' = job_disk /\ ids' = ids /\ unacked' = unacked
      /\ meta' = meta /\ efi' = efi
  BY DEF Restart
<1>3. is_open(job_disk) /\ job_disk.id \notin unacked => is_open(job) /\ job_disk.id = job.id /\ job_disk.image = job.image
  <2>1. SUFFICES ASSUME is_open(job_disk), job_disk.id \notin unacked
                 PROVE  is_open(job) /\ job_disk.id = job.id /\ job_disk.image = job.image
    OBVIOUS
  <2>2. job_disk.id = job.id /\ job_disk.image = job.image /\ (is_terminal(job) => job_disk = job)
    BY <1>1, <2>1 DEF JobInv, DiskIsNotBehind
  <2>3. ~is_terminal(job)
    BY <2>1, <2>2 DEF is_terminal, is_open, TerminalPhases, OpenPhases
  <2>4. job.phase # "None"
    BY <1>1, <2>1, <2>2 DEF JobInv, JobIsSound, is_open, OpenPhases
  <2>. QED BY <1>1, <2>2, <2>3, <2>4 DEF JobInv, Job, is_terminal, is_open
<1>4. AssignedImageIsKept'
  BY <1>1, <1>2, <1>3 DEF JobInv, AssignedImageIsKept, is_open
<1>5. JobInv'
  BY <1>1, <1>2, <1>4 DEF JobInv, JobIsSound, DiskIsNotBehind, is_open, is_terminal
<1>6. TerminalStep
  BY <1>1, <1>2 DEF JobInv, DiskIsNotBehind, TerminalStep
<1>7. StoreRest' /\ LibraryInv'
  BY <1>1 DEF StoreRest, LibraryInv, ImageTypes, CatalogIsReadable, Restart
<1>8. WorldTypes'
  BY <1>1, FaultIsCounted, WorldUnchanged DEF Restart, WorldTypes
<1>9. TaskInv'
  BY EndedTask DEF Restart
<1>. QED BY <1>5, <1>6, <1>7, <1>8, <1>9, InvariantPartsNext DEF Preserved

-----------------------------------------------------------------------------
(***************************************************************************)
(* The reconciliation.                                                     *)
(***************************************************************************)
\* Steps of the task that leave the store, the library and the device alone.
LEMMA TaskOnlyStep ==
  ASSUME StoreInv, TaskInv', UNCHANGED storeVars, UNCHANGED imageVars, WorldTypes'
  PROVE  Preserved
<1>1. JobInv /\ StoreRest /\ LibraryInv
  BY InvariantParts
<1>2. JobInv' /\ StoreRest' /\ TerminalStep
  BY <1>1, StoreUnchanged DEF imageVars
<1>. QED BY <1>1, <1>2, LibraryUnchanged, InvariantPartsNext DEF Preserved

\* The same for steps that change nothing but the locals of the task.
LEMMA LocalStep ==
  ASSUME StoreInv, TaskInv', TaskOnly
  PROVE  Preserved
<1>1. WorldTypes /\ faults' = faults
  BY InvariantParts DEF TaskOnly
<1>2. WorldTypes'
  BY <1>1, WorldUnchanged DEF TaskOnly, WorldTypes
<1>. QED BY <1>2, TaskOnlyStep DEF TaskOnly

\* A reconciliation begins with an announced boot.
LEMMA AnnounceStep ==
  ASSUME StoreInv, NEW e \in 1..dev.epoch, Announce(e)
  PROVE  Preserved
<1>1. WorldTypes /\ dev.epoch \in 0..MaxBoots
  BY InvariantParts DEF WorldTypes, DeviceTypes, Status
<1>2. e \in 0..MaxBoots /\ e > 0
  BY <1>1, OtaAssumption
<1>3. TaskInv'
  BY <1>2, NullsAreTyped, OtaAssumption DEF Announce, TaskInv, TaskTypes, TaskIsBound, Failures
<1>. QED BY <1>3, LocalStep DEF Announce, TaskOnly

\* Reading the device, giving up and going on.
LEMMA LocalSteps ==
  ASSUME StoreInv,
         Observe \/ PushImageMissing \/ PushTimesOut \/ Recover \/ RecoverFound \/ ConfirmFails \/ VerifyConfirm
  PROVE  Preserved
<1>1. TaskInv /\ Reported \in Status
  BY InvariantParts, ReportedIsTyped
<1>2. CASE Observe
  BY <1>1, <1>2, EndedTask, LocalStep DEF Observe, TaskInv, TaskTypes, TaskIsBound
<1>3. CASE PushImageMissing
  BY <1>1, <1>3, LocalStep DEF PushImageMissing, At, TaskInv, TaskTypes, TaskIsBound, Failures
<1>4. CASE PushTimesOut
  BY <1>1, <1>4, LocalStep DEF PushTimesOut, At, TaskInv, TaskTypes, TaskIsBound, Failures
<1>5. CASE Recover
  BY <1>1, <1>5, LocalStep DEF Recover, TaskInv, TaskTypes, TaskIsBound, Failures
<1>6. CASE RecoverFound
  BY <1>1, <1>6, EndedTask, LocalStep DEF RecoverFound, TaskInv, TaskTypes, TaskIsBound
<1>7. CASE ConfirmFails
  BY <1>7, EndedTask, LocalStep DEF ConfirmFails
<1>8. CASE VerifyConfirm
  BY <1>1, <1>8, EndedTask, LocalStep DEF VerifyConfirm, TaskInv, TaskTypes, TaskIsBound
<1>. QED BY <1>2, <1>3, <1>4, <1>5, <1>6, <1>7, <1>8

\* A request names the assignment and the boot of its task.
LEMMA SendStep ==
  ASSUME StoreInv, PushImage \/ SendConfirm
  PROVE  Preserved
<1>1. TaskInv /\ WorldTypes
  BY InvariantParts
<1>2. TaskInv'
  BY <1>1 DEF PushImage, SendConfirm, At, TaskInv, TaskTypes, TaskIsBound
<1>3. tjob.id \in 1..MaxJobs /\ tepoch \in 1..MaxBoots /\ tjob.image \in Images
  BY <1>1, OtaAssumption DEF PushImage, SendConfirm, At, TaskInv, TaskTypes, TaskIsBound
<1>4. NetTypes'
  BY <1>1, <1>3 DEF PushImage, SendConfirm, WorldTypes, NetTypes, Put, Confirmation
<1>5. WorldTypes'
  BY <1>1, <1>4 DEF PushImage, SendConfirm, WorldTypes, DeviceTypes, deviceVars
<1>. QED BY <1>2, <1>5, TaskOnlyStep DEF PushImage, SendConfirm

\* A step of the task that decides or reports: it writes a successor of the assignment.
LEMMA WritingStep ==
  ASSUME StoreInv, NEW n, Successor(n), JobStep(n), StoreRest', TaskInv', faults' \in 0..MaxFaults,
         ids' = ids, unacked' = unacked, UNCHANGED imageVars, UNCHANGED deviceVars, UNCHANGED netVars
  PROVE  Preserved
<1>1. JobInv /\ LibraryInv /\ WorldTypes
  BY InvariantParts
<1>2. JobInv' /\ TerminalStep
  BY <1>1, JobStepKeepsJobInv DEF imageVars, TerminalStep
<1>. QED BY <1>1, <1>2, LibraryUnchanged, WorldUnchanged, InvariantPartsNext DEF Preserved

\* decide writes a successor of the assignment; what it hands to the task is an open assignment.
LEMMA DecideStep ==
  ASSUME StoreInv, NEW idle \in BOOLEAN, NEW due \in BOOLEAN, Decide(idle, due) \/ RecoverDecide(idle, due)
  PROVE  Preserved
<1> DEFINE n == DecidedJob(job, tseen, Changed, idle, due)
<1>1. JobInv /\ StoreRest /\ TaskInv /\ WorldTypes /\ tseen \in Status
  BY InvariantParts DEF TaskInv, TaskTypes
<1>2. Changed \in BOOLEAN
  BY DEF Changed
<1>3. Successor(n)
  BY <1>1, <1>2, DecidedJobIsSuccessor
<1>4. Decided(n) \/ DecideStops(n)
  BY DEF Decide, RecoverDecide
<1>5. JobStep(n)
  BY <1>4 DEF Decided, DecideStops, SavedIfChanged, SaveFails, JobStep
<1>6. ids' = ids /\ unacked' = unacked
  BY <1>4 DEF Decided, DecideStops
<1>7. StoreRest'
  <2>1. obs' \in Status /\ obs_disk' \in Status /\ torn' \in BOOLEAN
    BY <1>1, <1>4 DEF Decided, DecideStops, SavedIfChanged, SaveFails, StoreRest
  <2>2. waited' \in Status
    BY <1>1, <1>4, NullsAreTyped DEF Decided, DecideStops, StoreRest
  <2>. QED BY <1>1, <1>6, <2>1, <2>2 DEF StoreRest
<1>8. faults' \in 0..MaxFaults
  BY <1>1, <1>4, FaultIsCounted DEF Decided, DecideStops, SaveFails, WorldTypes
<1>9. TaskInv'
  <2>1. CASE Decide(idle, due)
    <3>1. CASE Ends
      BY <3>1, EndedTask
    <3>2. CASE Decision(job, tseen, Changed, idle, due) \in {"Update", "Confirm"}
               /\ tpc' \in {"update", "confirm"} /\ tjob' = [id |-> job.id, image |-> job.image]
               /\ tseen' = NoStatus /\ UNCHANGED <<tepoch, tfail>>
      <4>1. is_open(job)
        BY <1>3, <3>2 DEF Decision, Successor
      <4>2. job.id > 0 /\ job.id \in 0..MaxJobs /\ job.image \in Images
        BY <1>1, <4>1, OtaAssumption DEF JobInv, JobIsSound, Job, is_open, OpenPhases
      <4>. QED BY <1>1, <2>1, <3>2, <4>2, NullsAreTyped DEF Decide, TaskInv, TaskTypes, TaskIsBound
    <3>. QED BY <2>1, <3>1, <3>2 DEF Decide
  <2>2. CASE RecoverDecide(idle, due)
    BY <1>1, <2>2, EndedTask DEF RecoverDecide, TaskInv, TaskTypes, TaskIsBound
  <2>. QED BY <2>1, <2>2
<1>10. UNCHANGED imageVars /\ UNCHANGED deviceVars /\ UNCHANGED netVars
  BY DEF Decide, RecoverDecide
<1>. QED BY <1>3, <1>5, <1>6, <1>7, <1>8, <1>9, <1>10, WritingStep

\* record_delivery_failure moves an open assignment on, with one attempt more at most.
LEMMA FailedJobIsSuccessor ==
  ASSUME JobInv, FailureApplies, tfail \in Failures, tfail # "None"
  PROVE  Successor(FailedJob(job, tfail))
<1> DEFINE n == FailedJob(job, tfail)
<1>1. job \in Job /\ JobIsSound(job) /\ is_open(job) /\ job.phase # "None"
  BY DEF JobInv, FailureApplies, is_open, OpenPhases
<1>2. job.attempts \in 0..MaxAttempts /\ job.attempts < MaxAttempts /\ MaxAttempts \in Nat
  BY <1>1, OtaAssumption DEF Job, JobIsSound
<1>3. /\ Moved(job, "Failed") \in Job /\ Moved(job, "Downloading") \in Job
      /\ Moved(job, "Failed").id = job.id /\ Moved(job, "Downloading").id = job.id
      /\ Moved(job, "Failed").image = job.image /\ Moved(job, "Downloading").image = job.image
      /\ Moved(job, "Failed").attempts = job.attempts /\ Moved(job, "Downloading").attempts = job.attempts
      /\ Moved(job, "Failed").phase = "Failed" /\ Moved(job, "Downloading").phase = "Downloading"
  BY <1>1, MovedKeeps DEF OpenPhases, TerminalPhases
<1>4. /\ n \in Job /\ n.id = job.id /\ n.image = job.image
      /\ \/ n.phase = "Failed"
         \/ n.phase = "Downloading" /\ n.attempts < MaxAttempts
  <2>1. CASE tfail = "Rejected"
    BY <1>3, <2>1 DEF FailedJob
  <2>2. CASE tfail = "Conflict"
    <3>1. n = [Moved(job, "Downloading") EXCEPT !.delayed = TRUE]
      BY <2>2 DEF FailedJob
    <3>. QED BY <1>2, <1>3, <3>1 DEF Job
  <2>3. CASE tfail = "Unavailable"
    <3>1. n = [Moved(job, "Downloading") EXCEPT !.waiting = TRUE]
      BY <2>3 DEF FailedJob
    <3>. QED BY <1>2, <1>3, <3>1 DEF Job
  <2>4. CASE tfail = "Retryable" /\ job.attempts + 1 >= MaxAttempts
    <3>1. n = [Moved(job, "Failed") EXCEPT !.attempts = job.attempts + 1]
      BY <2>4 DEF FailedJob
    <3>. QED BY <1>2, <1>3, <3>1 DEF Job
  <2>5. CASE tfail = "Retryable" /\ ~(job.attempts + 1 >= MaxAttempts)
    <3>1. n = [Moved(job, "Downloading") EXCEPT !.attempts = job.attempts + 1, !.delayed = TRUE]
      BY <2>5 DEF FailedJob
    <3>2. job.attempts + 1 \in 0..MaxAttempts /\ job.attempts + 1 < MaxAttempts
      BY <1>2, <2>5
    <3>. QED BY <1>3, <3>1, <3>2 DEF Job
  <2>. QED BY <2>1, <2>2, <2>3, <2>4, <2>5 DEF Failures
<1>. QED BY <1>1, <1>4 DEF Successor, JobIsSound, is_open, OpenPhases

\* A failed delivery of the current assignment and boot moves it on; any other changes nothing.
LEMMA RecordFailureStep ==
  ASSUME StoreInv, RecordFailure
  PROVE  Preserved
<1>1. JobInv /\ StoreRest /\ TaskInv /\ WorldTypes
  BY InvariantParts
<1>2. /\ ids' = ids /\ unacked' = unacked /\ UNCHANGED <<obs, obs_disk>>
      /\ UNCHANGED imageVars /\ UNCHANGED deviceVars /\ UNCHANGED netVars
  BY DEF RecordFailure
<1>3. faults' \in 0..MaxFaults
  BY <1>1, FaultIsCounted DEF RecordFailure, SaveFails, WorldTypes
<1>4. TaskInv'
  BY EndedTask DEF RecordFailure
<1>5. StoreRest'
  BY <1>1, <1>2 DEF RecordFailure, Saved, SaveFails, StoreRest
<1>6. \E n : Successor(n) /\ JobStep(n)
  <2>1. CASE FailureApplies
    <3>1. tfail \in Failures /\ tfail # "None"
      BY <1>1 DEF RecordFailure, TaskInv, TaskTypes, TaskIsBound
    <3>2. JobStep(FailedJob(job, tfail))
      BY <2>1 DEF RecordFailure, Saved, SaveFails, JobStep
    <3>. QED BY <1>1, <2>1, <3>1, <3>2, FailedJobIsSuccessor
  <2>2. CASE ~FailureApplies
    <3>1. JobStep(job) /\ Successor(job)
      BY <1>1, <2>2 DEF RecordFailure, JobStep, Successor, JobInv
    <3>. QED BY <3>1
  <2>. QED BY <2>1, <2>2
<1>. QED BY <1>2, <1>3, <1>4, <1>5, <1>6, WritingStep

\* report follows the order of the phases, in which nothing comes after the end.
LEMMA ReportStep ==
  ASSUME StoreInv, ReportStaged \/ ReportSucceeded
  PROVE  Preserved
<1>1. JobInv /\ StoreRest /\ WorldTypes
  BY InvariantParts
<1>2. PICK p \in {"Staged", "Succeeded"}, a \in Images : Report(p, a)
  <2>1. job.image \in Images /\ tseen.active \in Images
    BY <1>1, InvariantParts DEF JobInv, Job, TaskInv, TaskTypes, Status
  <2>. QED BY <2>1 DEF ReportStaged, ReportSucceeded
<1>3. /\ ids' = ids /\ unacked' = unacked /\ UNCHANGED <<obs, obs_disk, waited>>
      /\ UNCHANGED imageVars /\ UNCHANGED deviceVars /\ UNCHANGED netVars
  BY <1>2 DEF Report, ReportStaged, ReportSucceeded
<1>4. faults' \in 0..MaxFaults
  BY <1>1, <1>2, FaultIsCounted DEF Report, SaveFails, WorldTypes
<1>5. StoreRest'
  BY <1>1, <1>2, <1>3 DEF Report, Saved, SaveFails, StoreRest
<1>6. \E n : Successor(n) /\ JobStep(n)
  <2>1. CASE Reportable(p, a)
    <3>1. is_open(job) /\ p \in OpenPhases \cup TerminalPhases
      BY <2>1 DEF Reportable, MayFollow, is_open, OpenPhases, TerminalPhases
    <3>2. JobStep(Moved(job, p))
      BY <1>2, <2>1 DEF Report, Saved, SaveFails, JobStep
    <3>. QED BY <1>1, <3>1, <3>2, MovedIsSuccessor
  <2>2. CASE ~Reportable(p, a)
    <3>1. JobStep(job) /\ Successor(job)
      BY <1>1, <1>2, <2>2 DEF Report, JobStep, Successor, JobInv
    <3>. QED BY <3>1
  <2>. QED BY <2>1, <2>2
<1>7. TaskInv'
  BY EndedTask DEF ReportStaged, ReportSucceeded
<1>. QED BY <1>3, <1>4, <1>5, <1>6, <1>7, WritingStep

-----------------------------------------------------------------------------
(***************************************************************************)
(* The device.                                                             *)
(***************************************************************************)
\* A step of the device leaves the store alone; the task may get an answer.
LEMMA DeviceOnlyStep ==
  ASSUME StoreInv, TaskInv', DeviceTypes', NetTypes', faults' = faults,
         UNCHANGED storeVars, UNCHANGED imageVars
  PROVE  Preserved
<1>1. WorldTypes
  BY InvariantParts
<1>2. WorldTypes'
  BY <1>1 DEF WorldTypes
<1>. QED BY <1>2, TaskOnlyStep

\* An answer keeps the task bound, if a recovery gets a failure to record.
LEMMA AnsweredTask ==
  ASSUME TaskInv, NEW here \in {"putting", "confirming"}, NEW m,
         NEW outcome \in {"accepted", "recover", "failed", "confirmed"}, NEW failure \in Failures,
         outcome \in {"recover", "failed"} => failure # "None", Answered(here, m, outcome, failure)
  PROVE  TaskInv'
<1>1. CASE Waits(here, m)
  BY <1>1 DEF Answered, Waits, TaskInv, TaskTypes, TaskIsBound
<1>2. CASE ~Waits(here, m)
  BY <1>2 DEF Answered, TaskInv, TaskTypes, TaskIsBound
<1>. QED BY <1>1, <1>2

\* A refused confirmation ends its task.
LEMMA RefusedTask ==
  ASSUME TaskInv, NEW m, Refused(m)
  PROVE  TaskInv'
<1>1. CASE Ends
  BY <1>1, EndedTask
<1>2. CASE UNCHANGED taskVars
  BY <1>2, TaskUnchanged
<1>. QED BY <1>1, <1>2 DEF Refused

\* The device commits what it runs.
LEMMA CommitIsTyped ==
  ASSUME DeviceTypes, NEW id \in UpdateIds,
         dev' = [dev EXCEPT !.active = dev.running, !.pending = 0, !.trial = FALSE,
                            !.last = id, !.outcome = "Confirmed"]
  PROVE  dev' \in Status /\ dev'.epoch > 0
<1>1. 0 \in UpdateIds /\ "Confirmed" \in Outcomes
  BY OtaAssumption DEF UpdateIds, Direct, Outcomes
<1>. QED BY <1>1 DEF DeviceTypes, Status

\* The device stages an image in its pending slot.
LEMMA StagedIsTyped ==
  ASSUME DeviceTypes, NEW id \in UpdateIds, NEW i \in Images, Staged(id, i)
  PROVE  dev' \in Status /\ dev'.epoch > 0 /\ slot' \in Images
  BY DEF DeviceTypes, Status, Staged

\* A boot tries, rolls back or drops what is pending.
LEMMA BootStep ==
  ASSUME StoreInv, NEW o \in BOOLEAN, Boot(o)
  PROVE  Preserved
<1>1. TaskInv /\ DeviceTypes /\ NetTypes
  BY InvariantParts DEF WorldTypes
<1>2. /\ UNCHANGED <<slot, committed>> /\ faults' = faults
      /\ UNCHANGED storeVars /\ UNCHANGED imageVars /\ UNCHANGED taskVars
  BY DEF Boot
<1>3. NetTypes'
  BY <1>1 DEF Boot, NetTypes
<1>4. /\ dev.epoch + 1 \in 0..MaxBoots /\ dev.epoch + 1 > 0
      /\ 0 \in UpdateIds /\ "RolledBack" \in Outcomes /\ "Failed" \in Outcomes
  BY <1>1, OtaAssumption DEF Boot, DeviceTypes, Status, UpdateIds, Direct, Outcomes
<1>5. dev \in Status /\ slot \in Images
  BY <1>1 DEF DeviceTypes
<1>6. dev' \in Status /\ dev'.epoch > 0
  <2>1. CASE dev' = [dev EXCEPT !.epoch = @ + 1, !.ota = o, !.trial = TRUE, !.running = slot]
    BY <1>4, <1>5, <2>1 DEF Status
  <2>2. CASE dev' = [dev EXCEPT !.epoch = @ + 1, !.ota = o, !.trial = FALSE, !.running = dev.active,
                              !.pending = 0, !.last = dev.pending,
                              !.outcome = IF dev.trial THEN "RolledBack" ELSE "Failed"]
    BY <1>4, <1>5, <2>2 DEF Status
  <2>3. CASE dev' = [dev EXCEPT !.epoch = @ + 1, !.ota = o]
    BY <1>4, <1>5, <2>3 DEF Status
  <2>. QED BY <2>1, <2>2, <2>3 DEF Boot
<1>7. DeviceTypes'
  BY <1>1, <1>2, <1>6 DEF DeviceTypes
<1>. QED BY <1>1, <1>2, <1>3, <1>7, TaskUnchanged, DeviceOnlyStep

\* Uploads that do not come from the server.
LEMMA DirectStep ==
  ASSUME StoreInv, NEW i \in Images, DirectUpload(i) \/ DirectConfirm
  PROVE  Preserved
<1>1. TaskInv /\ DeviceTypes /\ NetTypes
  BY InvariantParts DEF WorldTypes
<1>2. /\ committed' = committed /\ faults' = faults /\ UNCHANGED netVars
      /\ UNCHANGED storeVars /\ UNCHANGED imageVars /\ UNCHANGED taskVars
  BY DEF DirectUpload, DirectConfirm
<1>3. Direct \in UpdateIds
  BY OtaAssumption DEF Direct, UpdateIds
<1>4. dev' \in Status /\ dev'.epoch > 0 /\ slot' \in Images
  <2>1. CASE DirectUpload(i)
    BY <1>1, <1>3, <2>1, StagedIsTyped DEF DirectUpload
  <2>2. CASE DirectConfirm
    BY <1>1, <1>3, <2>2, CommitIsTyped DEF DirectConfirm, DeviceTypes
  <2>. QED BY <2>1, <2>2
<1>5. DeviceTypes' /\ NetTypes'
  BY <1>1, <1>2, <1>4 DEF DeviceTypes, NetTypes, netVars
<1>. QED BY <1>1, <1>2, <1>5, TaskUnchanged, DeviceOnlyStep

\* An image reaches the device, whether the task still waits for the answer or not.
LEMMA PutStep ==
  ASSUME StoreInv, NEW m \in puts, DeviceStages(m) \/ DeviceRefuses(m)
  PROVE  Preserved
<1>1. TaskInv /\ DeviceTypes /\ NetTypes
  BY InvariantParts DEF WorldTypes
<1>2. /\ committed' = committed /\ faults' = faults /\ confirms' = confirms /\ puts' = puts \ {m}
      /\ UNCHANGED storeVars /\ UNCHANGED imageVars
  BY DEF DeviceStages, DeviceRefuses, deviceVars
<1>3. m.id \in UpdateIds /\ m.image \in Images
  BY <1>1, OtaAssumption DEF NetTypes, Put, UpdateIds, Direct
<1>4. DeviceTypes'
  <2>1. CASE DeviceStages(m)
    BY <1>1, <1>2, <1>3, <2>1, StagedIsTyped DEF DeviceStages, DeviceTypes
  <2>2. CASE DeviceRefuses(m)
    BY <1>1, <2>2 DEF DeviceRefuses, DeviceTypes, deviceVars
  <2>. QED BY <2>1, <2>2
<1>5. TaskInv'
  <2>1. \E outcome \in {"accepted", "recover", "failed"}, failure \in Failures :
          /\ outcome \in {"recover", "failed"} => failure # "None"
          /\ Answered("putting", m, outcome, failure)
    BY DEF DeviceStages, DeviceRefuses, Failures
  <2>. QED BY <1>1, <2>1, AnsweredTask
<1>6. NetTypes'
  BY <1>1, <1>2 DEF NetTypes
<1>. QED BY <1>2, <1>4, <1>5, <1>6, DeviceOnlyStep

\* A confirmation reaches the device.
LEMMA ConfirmStep ==
  ASSUME StoreInv, NEW m \in confirms, DeviceCommits(m) \/ DeviceRejectsConfirm(m)
  PROVE  Preserved
<1>1. TaskInv /\ DeviceTypes /\ NetTypes
  BY InvariantParts DEF WorldTypes
<1>2. /\ slot' = slot /\ faults' = faults /\ puts' = puts /\ confirms' = confirms \ {m}
      /\ UNCHANGED storeVars /\ UNCHANGED imageVars
  BY DEF DeviceCommits, DeviceRejectsConfirm, deviceVars
<1>3. m.id \in UpdateIds
  BY <1>1, OtaAssumption DEF NetTypes, Confirmation, UpdateIds, Direct
<1>4. DeviceTypes'
  <2>1. CASE DeviceCommits(m)
    <3>1. dev' \in Status /\ dev'.epoch > 0
      BY <1>1, <1>3, <2>1, CommitIsTyped DEF DeviceCommits
    <3>2. committed' \in SUBSET UpdateIds
      BY <1>1, <1>3, <2>1 DEF DeviceCommits, DeviceTypes
    <3>. QED BY <1>1, <1>2, <3>1, <3>2 DEF DeviceTypes
  <2>2. CASE DeviceRejectsConfirm(m)
    BY <1>1, <2>2 DEF DeviceRejectsConfirm, DeviceTypes, deviceVars
  <2>. QED BY <2>1, <2>2
<1>5. TaskInv'
  <2>1. CASE Refused(m)
    BY <1>1, <2>1, RefusedTask
  <2>2. CASE Answered("confirming", m, "confirmed", "None")
    BY <1>1, <2>2, AnsweredTask DEF Failures
  <2>. QED BY <2>1, <2>2 DEF DeviceCommits, DeviceRejectsConfirm
<1>6. NetTypes'
  BY <1>1, <1>2 DEF NetTypes
<1>. QED BY <1>2, <1>4, <1>5, <1>6, DeviceOnlyStep

-----------------------------------------------------------------------------
(***************************************************************************)
(* The specification.                                                      *)
(***************************************************************************)
\* Every step keeps the invariant and leaves an assignment that has ended alone.
LEMMA NextStep ==
  ASSUME StoreInv, [Next]_vars
  PROVE  Preserved
<1>1. CASE Store
  <2>1. Uploads \subseteq Images
    BY OtaAssumption
  <2>. QED BY <1>1, <2>1, LibraryStep, QueueStep, CancelStep, RestartStep DEF Store
<1>2. CASE Task
  BY <1>2, AnnounceStep, LocalSteps, SendStep, DecideStep, RecordFailureStep, ReportStep DEF Task
<1>3. CASE Device
  <2>1. DirectImages \subseteq Images /\ Base \in Images
    BY OtaAssumption
  <2>. QED BY <1>3, <2>1, BootStep, DirectStep, PutStep, ConfirmStep DEF Device
<1>4. CASE UNCHANGED vars
  <2>1. /\ UNCHANGED storeVars /\ UNCHANGED imageVars /\ UNCHANGED deviceVars
        /\ UNCHANGED taskVars /\ UNCHANGED netVars /\ faults' = faults
    BY <1>4 DEF vars
  <2>2. TaskInv'
    BY <2>1, InvariantParts, TaskUnchanged
  <2>. QED BY <2>1, <2>2, LocalStep DEF TaskOnly
<1>. QED BY <1>1, <1>2, <1>3, <1>4 DEF Next

\* The empty store satisfies the invariant.
LEMMA InitialState == Init => StoreInv
<1> SUFFICES ASSUME Init PROVE StoreInv
  OBVIOUS
<1>1. job = NoJob /\ job_disk = NoJob /\ NoJob \in Job /\ NoStatus \in Status /\ ~is_open(NoJob)
  BY NullsAreTyped DEF Init, NoJob, is_open, OpenPhases
<1>2. JobInv
  BY <1>1 DEF Init, JobInv, JobIsSound, DiskIsNotBehind, AssignedImageIsKept, NoJob, is_terminal, is_open,
              TerminalPhases, OpenPhases
<1>3. StoreRest
  <2>1. ids \in 0..MaxJobs
    BY OtaAssumption DEF Init
  <2>2. unacked \in SUBSET (1..MaxJobs) /\ torn \in BOOLEAN
    BY DEF Init
  <2>3. obs \in Status /\ obs_disk \in Status /\ waited \in Status
    BY <1>1 DEF Init
  <2>. QED BY <2>1, <2>2, <2>3 DEF StoreRest
<1>4. LibraryInv
  BY DEF Init, LibraryInv, ImageTypes, CatalogIsReadable
<1>5. TaskInv
  BY <1>1, OtaAssumption DEF Init, TaskInv, TaskTypes, TaskIsBound, Failures
<1>6. WorldTypes
  <2>1. dev \in Status /\ dev.epoch > 0
    <3>1. dev = [NoStatus EXCEPT !.epoch = 1, !.ota = TRUE]
      BY DEF Init
    <3>2. 1 \in 0..MaxBoots
      BY OtaAssumption
    <3>3. dev \in Status
      BY <1>1, <3>1, <3>2 DEF Status
    <3>4. dev.epoch = 1
      BY <3>1 DEF NoStatus
    <3>. QED BY <3>3, <3>4
  <2>. QED BY <2>1, OtaAssumption DEF Init, WorldTypes, DeviceTypes, NetTypes
<1>. QED BY <1>2, <1>3, <1>4, <1>5, <1>6, InvariantParts

\* After any failed write and any restart the file of the assignments is not behind memory, the
\* catalog can be read, and a reconciliation is bound to an assignment and an announced boot.
THEOREM StoreInvariant == Spec => []StoreInv
<1>1. StoreInv /\ [Next]_vars => StoreInv'
  BY NextStep DEF Preserved
<1>. QED BY InitialState, <1>1, PTL DEF Spec

\* Every job, observation, device and task keeps its type; no open job has used up its attempts.
THEOREM TypeCorrect == Spec => []TypeOK
<1>1. StoreInv => TypeOK
  BY DEF StoreInv
<1>. QED BY StoreInvariant, <1>1, PTL

\* decide, report, cancel, record_delivery_failure and a restart never revive an assignment that
\* has ended.
THEOREM EndedAssignmentStays == Spec => TerminalStays
<1>1. StoreInv /\ [Next]_vars => [is_terminal(job) => job' = job \/ job'.id > job.id]_vars
  BY NextStep DEF Preserved, TerminalStep
<1>. QED BY StoreInvariant, <1>1, PTL DEF Spec, TerminalStays

\* delete_image and queue exclude each other: the image of an open assignment stays readable.
THEOREM ImageStaysAssigned == Spec => []AssignedImageIsKept
<1>1. StoreInv => AssignedImageIsKept
  BY DEF StoreInv
<1>. QED BY StoreInvariant, <1>1, PTL

-----------------------------------------------------------------------------
(***************************************************************************)
(* Server and device: the invariant in parts, and what most steps share.   *)
(***************************************************************************)
WorldPart ==
  /\ EpochsInOrder /\ DeviceIsSound /\ NoSecondTrial /\ DeliveriesAreFresh
  /\ SeenInThisBoot /\ SeenInEarlierBoot /\ CommitsAreTrue
ImagePart == HasOneImage(job) /\ HasOneImage(job_disk)
SuccessPart == SucceededIsCommitted(job) /\ SucceededIsCommitted(job_disk)

\* What holds as long as every write got through.
ChangeIsSeen == job.waiting => obs \in {waited, NoStatus}
RecordPart ==
  /\ FilesAreInStep /\ ChangeIsSeen
  /\ CommitIsRecorded /\ CommitIsSeen

\* Requests get fewer, and the task ends or goes on to something that neither sends nor decides.
Shrinks ==
  /\ puts' \subseteq puts /\ confirms' \subseteq confirms
  /\ tjob' = tjob \/ tjob'.id = 0
  /\ tseen' = tseen \/ tseen' = NoStatus
  /\ tepoch' \in {tepoch, 0} \cup 1..dev.epoch
  /\ Engaged' => Engaged /\ tepoch' = tepoch
  /\ Observing' => Observing /\ tseen' = tseen
  /\ tpc' \in {"update", "confirm", "verified"} => tpc' = tpc /\ tjob' = tjob /\ tseen' = tseen

DeviceStays == UNCHANGED <<dev, slot, committed>>

\* The invariant is the conjunction of its four parts.
LEMMA TrialParts ==
  TrialInv <=> WorldPart /\ ImagePart /\ SuccessPart /\ (~torn => RecordPart)
  BY DEF TrialInv, WorldPart, ImagePart, SuccessPart, RecordPart, ConfirmationIsExact, DeviceChangeIsSeen,
         ChangeIsSeen, CommitIsRecorded, Attested

\* The same for the next state.
LEMMA TrialPartsNext ==
  ASSUME WorldPart', ImagePart', SuccessPart', torn' \/ RecordPart'
  PROVE  TrialInv'
  BY DEF TrialInv, WorldPart, ImagePart, SuccessPart, RecordPart, ConfirmationIsExact, DeviceChangeIsSeen,
         ChangeIsSeen, CommitIsRecorded, Attested

\* A task that ends, sends nothing and decides nothing more.
LEMMA EndsShrinks ==
  ASSUME Ends, UNCHANGED netVars PROVE Shrinks
  BY DEF Ends, Shrinks, Engaged, Observing, netVars

\* A task that stays where it is.
LEMMA StaysShrinks ==
  ASSUME UNCHANGED taskVars, UNCHANGED netVars PROVE Shrinks
  BY DEF Shrinks, Engaged, Observing, taskVars, netVars

\* What can still be accepted gets less with the requests.
LEMMA ShrinksDeliverable ==
  ASSUME Shrinks, DeviceStays, NEW id, Deliverable(id)'
  PROVE  Deliverable(id)
  BY DEF Shrinks, DeviceStays, Deliverable, Engaged

\* Fewer requests and no new decision leave what the device and the requests know in order.
LEMMA ShrinksKeepsWorld ==
  ASSUME WorldPart, TypeOK, Shrinks, DeviceStays, ids' = ids
  PROVE  WorldPart'
<1>1. EpochsInOrder'
  <2>1. dev' = dev /\ dev.epoch \in Nat /\ dev.epoch > 0
    BY OtaAssumption DEF DeviceStays, TypeOK, DeviceTypes, Status
  <2>2. tepoch' <= dev'.epoch
    BY <2>1 DEF WorldPart, EpochsInOrder, Shrinks
  <2>3. Observing' => tseen'.epoch = tepoch'
    BY DEF WorldPart, EpochsInOrder, Shrinks, Engaged, Observing
  <2>. QED BY <2>1, <2>2, <2>3 DEF WorldPart, EpochsInOrder, Shrinks
<1>2. DeviceIsSound' /\ NoSecondTrial'
  BY OtaAssumption DEF WorldPart, DeviceIsSound, NoSecondTrial, Shrinks, DeviceStays, TypeOK, StoreTypes, NoStatus
<1>3. DeliveriesAreFresh'
  BY ShrinksDeliverable DEF WorldPart, DeliveriesAreFresh, DeviceStays
<1>4. SeenInThisBoot' /\ SeenInEarlierBoot'
  BY DEF WorldPart, SeenInThisBoot, SeenInEarlierBoot, Shrinks, DeviceStays, Engaged, Observing, Unsettled
<1>5. CommitsAreTrue'
  BY DEF WorldPart, CommitsAreTrue, Shrinks, DeviceStays, NoStatus
<1>. QED BY <1>1, <1>2, <1>3, <1>4, <1>5 DEF WorldPart

\* They leave the image of an assignment as it is.
SameAssignment(j, k) == j.id = k.id /\ j.image = k.image

LEMMA ShrinksKeepsImages ==
  ASSUME ImagePart, Shrinks, DeviceStays,
         SameAssignment(job', job) \/ SameAssignment(job', job_disk),
         SameAssignment(job_disk', job) \/ SameAssignment(job_disk', job_disk)
  PROVE  ImagePart'
<1>1. \A m \in puts' : m \in puts
  BY DEF Shrinks
<1>2. tjob' = tjob \/ tjob'.id = 0
  BY DEF Shrinks
<1>. QED BY <1>1, <1>2 DEF ImagePart, HasOneImage, DeviceStays, SameAssignment

\* They leave the record as it is, if it is not written.
LEMMA ShrinksKeepsRecord ==
  ASSUME RecordPart, Shrinks, DeviceStays, UNCHANGED <<job, job_disk, obs, waited>>, obs_disk' \in {obs_disk, NoStatus}
  PROVE  RecordPart'
<1>1. FilesAreInStep' /\ ChangeIsSeen'
  BY DEF RecordPart, FilesAreInStep, ChangeIsSeen, is_open
<1>2. CommitIsRecorded'
  <2>1. \A id : Deliverable(id)' => Deliverable(id)
    BY ShrinksDeliverable
  <2>2. confirms' \subseteq confirms /\ (tpc' = "confirm" => tpc = "confirm" /\ tjob' = tjob /\ tepoch' = tepoch)
    BY DEF Shrinks, Engaged
  <2>3. Attested' => Attested
    BY <2>2 DEF Attested, DeviceStays
  <2>. QED BY <2>1, <2>3 DEF RecordPart, CommitIsRecorded, RecordsCommit, DeviceStays
<1>3. CommitIsSeen'
  BY DEF RecordPart, CommitIsSeen, Shrinks, DeviceStays
<1>. QED BY <1>1, <1>2, <1>3 DEF RecordPart

\* Steps that touch neither the record nor the device, but for the file of the observations.
LEMMA QuietStep ==
  ASSUME TypeOK, TrialInv, Shrinks, DeviceStays, ids' = ids,
         UNCHANGED <<job, job_disk, obs, waited, torn>>, obs_disk' \in {obs_disk, NoStatus}
  PROVE  TrialInv'
<1>1. WorldPart /\ ImagePart /\ SuccessPart /\ (~torn => RecordPart)
  BY TrialParts
<1>2. WorldPart'
  BY <1>1, ShrinksKeepsWorld
<1>3. ImagePart'
  <2>1. SameAssignment(job', job) /\ SameAssignment(job_disk', job_disk)
    BY DEF SameAssignment
  <2>. QED BY <1>1, <2>1, ShrinksKeepsImages
<1>4. SuccessPart'
  BY <1>1 DEF SuccessPart, SucceededIsCommitted, DeviceStays
<1>5. torn' \/ RecordPart'
  BY <1>1, ShrinksKeepsRecord
<1>. QED BY <1>2, <1>3, <1>4, <1>5, TrialPartsNext

\* The record is written and the task goes on or ends: the identity of the assignment stays, and
\* what else has to be shown is about the new record.
LEMMA RecordStep ==
  ASSUME TypeOK, TrialInv, Shrinks, DeviceStays, ids' = ids, NEW n, Successor(n), JobStep(n),
         n.phase = "Succeeded" => n.id \in committed,
         torn' \/ RecordPart'
  PROVE  TrialInv'
<1>1. WorldPart /\ ImagePart /\ SuccessPart
  BY TrialParts
<1>2. WorldPart'
  BY <1>1, ShrinksKeepsWorld
<1>3. ImagePart'
  <2>1. SameAssignment(job', job)
    BY DEF SameAssignment, Successor, JobStep
  <2>2. SameAssignment(job_disk', job) \/ SameAssignment(job_disk', job_disk)
    BY DEF SameAssignment, Successor, JobStep
  <2>. QED BY <1>1, <2>1, <2>2, ShrinksKeepsImages
<1>4. SuccessPart'
  BY <1>1 DEF SuccessPart, SucceededIsCommitted, DeviceStays, JobStep, Successor
<1>. QED BY <1>2, <1>3, <1>4, TrialPartsNext

\* A record that got through to its file, of an assignment that does not go back.
LEMMA SavedKeepsRecord ==
  ASSUME RecordPart, Shrinks, DeviceStays, NEW n, job' = n, job_disk' = n, n.id = job.id, n.image = job.image,
         obs_disk' \in {obs', NoStatus},
         n.waiting => is_open(n) /\ obs' \in {waited', NoStatus},
         n.phase = "Confirming" => (dev.pending = n.id => dev.trial) /\ ~Deliverable(n.id),
         n.phase \in {"Queued", "Downloading"} => job.phase \in {"Queued", "Downloading"},
         Attested => RecordsCommit(n)
  PROVE  RecordPart'
<1>1. FilesAreInStep' /\ ChangeIsSeen'
  BY DEF FilesAreInStep, ChangeIsSeen, is_open
<1>2. CommitIsRecorded'
  <2>1. \A id : Deliverable(id)' => Deliverable(id)
    BY ShrinksDeliverable
  <2>2. confirms' \subseteq confirms /\ (tpc' = "confirm" => tpc = "confirm" /\ tjob' = tjob /\ tepoch' = tepoch)
    BY DEF Shrinks, Engaged
  <2>3. Attested' => Attested
    BY <2>2 DEF Attested, DeviceStays
  <2>. QED BY <2>1, <2>3 DEF RecordPart, CommitIsRecorded, RecordsCommit, DeviceStays
<1>3. CommitIsSeen'
  BY DEF RecordPart, CommitIsSeen, Shrinks, DeviceStays
<1>. QED BY <1>1, <1>2, <1>3 DEF RecordPart

-----------------------------------------------------------------------------
(***************************************************************************)
(* Steps that add nothing to what server and device know of each other.    *)
(***************************************************************************)
\* Uploads and deletions, and steps that change nothing.
LEMMA LibraryTrial ==
  ASSUME StoreInv, TrialInv, UNCHANGED storeVars, UNCHANGED deviceVars, UNCHANGED taskVars, UNCHANGED netVars
  PROVE  TrialInv'
<1>1. Shrinks
  BY StaysShrinks
<1>. QED BY <1>1, QuietStep DEF StoreInv, DeviceStays, storeVars, deviceVars

\* Steps of the task that only move it, and a late announcement.
LEMMA LocalTrial ==
  ASSUME StoreInv, TrialInv, TaskOnly, Shrinks
  PROVE  TrialInv'
  BY QuietStep DEF StoreInv, TaskOnly, DeviceStays, storeVars, deviceVars

\* An announcement leaves the task without a status.
LEMMA AnnounceTrial ==
  ASSUME StoreInv, TrialInv, NEW e \in 1..dev.epoch, Announce(e)
  PROVE  TrialInv'
<1>1. Shrinks
  BY DEF Announce, Shrinks, Engaged, Observing, netVars
<1>. QED BY <1>1, LocalTrial DEF Announce, TaskOnly

\* A task that gives up or goes on to record a failure.
LEMMA GivingUpTrial ==
  ASSUME StoreInv, TrialInv, PushImageMissing \/ PushTimesOut \/ RecoverFound \/ ConfirmFails
  PROVE  TrialInv'
<1>1. UNCHANGED netVars /\ TaskOnly
  BY DEF PushImageMissing, PushTimesOut, RecoverFound, ConfirmFails, TaskOnly
<1>2. CASE Ends
  BY <1>1, <1>2, EndsShrinks, LocalTrial
<1>3. CASE ~Ends
  <2>1. Shrinks
    BY <1>1, <1>3 DEF PushImageMissing, PushTimesOut, RecoverFound, ConfirmFails, At, Shrinks, Engaged, Observing, netVars
  <2>. QED BY <1>1, <2>1, LocalTrial
<1>. QED BY <1>2, <1>3

\* An answer that the device gives without changing.
LEMMA AnswerShrinks ==
  ASSUME NEW here \in {"putting", "confirming"}, NEW m, NEW outcome \in {"accepted", "recover", "failed", "confirmed"},
         NEW failure, Answered(here, m, outcome, failure), puts' \subseteq puts, confirms' \subseteq confirms
  PROVE  Shrinks
<1>1. tpc' = tpc \/ (tpc = here /\ tpc' = outcome)
  BY DEF Answered, Waits
<1>2. UNCHANGED <<tepoch, tseen, tjob>>
  BY DEF Answered
<1>. QED BY <1>1, <1>2 DEF Shrinks, Engaged, Observing

\* A refused image or confirmation.
LEMMA RefusalTrial ==
  ASSUME StoreInv, TrialInv,
         (\E m \in puts : DeviceRefuses(m)) \/ (\E m \in confirms : DeviceRejectsConfirm(m))
  PROVE  TrialInv'
<1>1. UNCHANGED storeVars /\ UNCHANGED deviceVars /\ puts' \subseteq puts /\ confirms' \subseteq confirms
  BY DEF DeviceRefuses, DeviceRejectsConfirm
<1>2. Shrinks
  <2>1. CASE \E m \in puts : DeviceRefuses(m)
    <3>1. \E m \in puts, outcome \in {"recover", "failed"}, failure \in Failures : Answered("putting", m, outcome, failure)
      BY <2>1 DEF DeviceRefuses, Failures
    <3>. QED BY <1>1, <3>1, AnswerShrinks
  <2>2. CASE \E m \in confirms : DeviceRejectsConfirm(m)
    <3>1. Ends \/ UNCHANGED taskVars
      BY <2>2 DEF DeviceRejectsConfirm, Refused
    <3>. QED BY <1>1, <3>1 DEF Ends, Shrinks, Engaged, Observing, taskVars
  <2>. QED BY <2>1, <2>2
<1>. QED BY <1>1, <1>2, QuietStep DEF StoreInv, DeviceStays, storeVars, deviceVars

\* After a restart memory is the file, which holds the same assignment or one that nobody knows.
LEMMA RestartTrial ==
  ASSUME StoreInv, TrialInv, Restart
  PROVE  TrialInv'
<1>1. WorldPart /\ ImagePart /\ SuccessPart /\ (~torn => RecordPart)
  BY TrialParts
<1>2. /\ job' = job_disk /\ job_disk' = job_disk /\ obs' = obs_disk /\ obs_disk' = obs_disk
      /\ waited' = waited /\ torn' = torn /\ ids' = ids /\ UNCHANGED netVars /\ DeviceStays /\ Shrinks
  BY EndsShrinks DEF Restart, DeviceStays, deviceVars
<1>3. WorldPart'
  BY <1>1, <1>2, ShrinksKeepsWorld DEF StoreInv
<1>4. ImagePart'
  <2>1. SameAssignment(job', job_disk) /\ SameAssignment(job_disk', job_disk)
    BY <1>2 DEF SameAssignment
  <2>. QED BY <1>1, <1>2, <2>1, ShrinksKeepsImages
<1>5. SuccessPart'
  BY <1>1, <1>2 DEF SuccessPart, SucceededIsCommitted, DeviceStays
<1>6. torn' \/ RecordPart'
  <2>1. CASE ~torn
    <3>1. job_disk = job /\ obs_disk \in {obs, NoStatus} /\ RecordPart
      BY <1>1, <2>1 DEF RecordPart, FilesAreInStep
    <3>2. FilesAreInStep' /\ ChangeIsSeen'
      BY <1>2, <3>1 DEF RecordPart, FilesAreInStep, ChangeIsSeen, is_open
    <3>3. CommitIsRecorded'
      <4>1. \A id : Deliverable(id)' => Deliverable(id)
        BY <1>2, ShrinksDeliverable
      <4>2. Attested' => Attested
        BY <1>2, <3>1 DEF Attested, DeviceStays, Restart, Ends, netVars
      <4>. QED BY <1>2, <3>1, <4>1, <4>2 DEF RecordPart, CommitIsRecorded, RecordsCommit, DeviceStays
    <3>4. CommitIsSeen'
      BY DEF CommitIsSeen, Observing, Restart, Ends
    <3>. QED BY <3>2, <3>3, <3>4 DEF RecordPart
  <2>. QED BY <1>2, <2>1
<1>. QED BY <1>3, <1>4, <1>5, <1>6, TrialPartsNext

\* A cancelled assignment may have been committed; nothing is sent for it.
LEMMA CancelTrial ==
  ASSUME StoreInv, TrialInv, Cancel \/ CancelFails
  PROVE  TrialInv'
<1> DEFINE n == Moved(job, "Cancelled")
<1>1. WorldPart /\ ImagePart /\ SuccessPart /\ (~torn => RecordPart) /\ JobInv /\ TypeOK
  BY TrialParts, InvariantParts DEF StoreInv
<1>2. is_open(job) /\ ids' = ids /\ waited' = waited /\ UNCHANGED deviceVars /\ UNCHANGED taskVars /\ UNCHANGED netVars
  BY DEF Cancel, CancelFails
<1>3. Shrinks /\ DeviceStays
  BY <1>2, StaysShrinks DEF DeviceStays, deviceVars
<1>4. /\ Successor(n) /\ n.phase = "Cancelled" /\ n.id = job.id /\ n.image = job.image /\ ~n.waiting
      /\ RecordsCommit(n)
  BY <1>1, <1>2, MovedIsSuccessor, MovedKeeps DEF TerminalPhases, Successor, Moved, JobInv, Job, RecordsCommit
<1>5. CASE Cancel
  <2>1. job' = n /\ job_disk' = n /\ torn' = torn /\ obs_disk' = NoStatus
    BY <1>5 DEF Cancel, Saved
  <2>2. torn' \/ RecordPart'
    BY <1>1, <1>3, <1>4, <2>1, SavedKeepsRecord
  <2>3. JobStep(n)
    BY <2>1 DEF JobStep
  <2>. QED BY <1>1, <1>2, <1>3, <1>4, <2>2, <2>3, RecordStep
<1>6. CASE CancelFails /\ SaveFails(n)
  <2>1. JobStep(n) /\ torn'
    BY <1>6 DEF SaveFails, JobStep
  <2>. QED BY <1>1, <1>2, <1>3, <1>4, <2>1, RecordStep
<1>7. CASE CancelFails /\ ~SaveFails(n)
  <2>1. UNCHANGED <<job, job_disk, obs, waited, torn>> /\ obs_disk' \in {obs_disk, NoStatus}
    BY <1>2, <1>7 DEF CancelFails
  <2>. QED BY <1>1, <1>2, <1>3, <2>1, QuietStep
<1>. QED BY <1>5, <1>6, <1>7

\* Nothing carries the id of a new assignment yet.
LEMMA QueueTrial ==
  ASSUME StoreInv, TrialInv, NEW i \in Images, Queue(i) \/ QueueFails(i)
  PROVE  TrialInv'
<1> DEFINE n == NewJob(i)
<1>1. WorldPart /\ ImagePart /\ SuccessPart /\ (~torn => RecordPart) /\ JobInv /\ TypeOK
  BY TrialParts, InvariantParts DEF StoreInv
<1>2. /\ ids < MaxJobs /\ ids' = ids + 1 /\ UNCHANGED <<obs, obs_disk, waited>>
      /\ UNCHANGED deviceVars /\ UNCHANGED taskVars /\ UNCHANGED netVars
  BY DEF Queue, QueueFails
<1>3. /\ n.id = ids + 1 /\ n.phase = "Queued" /\ ~n.waiting
  BY DEF NewJob
<1>4. ids \in Nat /\ Direct \in Nat /\ ids + 1 # Direct /\ ids + 1 < Direct
  BY <1>1, <1>2, OtaAssumption DEF TypeOK, StoreTypes, Direct
<1>5. \/ job' = n /\ job_disk' = n /\ torn' = torn
      \/ job' = job /\ job_disk' \in {job_disk, n} /\ torn'
  BY DEF Queue, QueueFails, Saved, SaveFails
<1>6. UNCHANGED <<dev, slot, committed, tpc, tepoch, tseen, tjob, puts, confirms>>
  BY <1>2 DEF deviceVars, taskVars, netVars
<1>7. /\ tjob.id # ids + 1 /\ \A m \in puts : m.id # ids + 1
      /\ dev.pending # ids + 1 /\ dev.last # ids + 1 /\ ids + 1 \notin committed
  <2>1. tjob.id \in Nat /\ \A m \in puts : m.id \in Nat
    BY <1>1, OtaAssumption DEF TypeOK, TaskTypes, NetTypes, Put
  <2>. QED BY <1>1, <1>4, <2>1 DEF WorldPart, DeviceIsSound, CommitsAreTrue
<1>8. \A id : Deliverable(id)' <=> Deliverable(id)
  BY <1>6 DEF Deliverable
<1>9. ~Deliverable(ids + 1)
  BY <1>7 DEF Deliverable
<1>10. WorldPart'
  <2>1. EpochsInOrder' /\ NoSecondTrial' /\ SeenInThisBoot' /\ SeenInEarlierBoot'
    BY <1>1, <1>6 DEF WorldPart, EpochsInOrder, NoSecondTrial, SeenInThisBoot, SeenInEarlierBoot, Engaged,
                      Observing, Unsettled
  <2>2. DeviceIsSound'
    <3>1. tjob.id \in Nat /\ \A m \in puts : m.id \in Nat
      BY <1>1, OtaAssumption DEF TypeOK, TaskTypes, NetTypes, Put
    <3>. QED BY <1>1, <1>2, <1>4, <1>6, <3>1 DEF WorldPart, DeviceIsSound
  <2>3. DeliveriesAreFresh'
    <3>1. \A id \in 1..(ids + 1) : id \in 1..ids \/ id = ids + 1
      BY <1>4
    <3>. QED BY <1>1, <1>2, <1>6, <1>8, <1>9, <3>1 DEF WorldPart, DeliveriesAreFresh
  <2>4. CommitsAreTrue'
    BY <1>1, <1>2, <1>4, <1>6 DEF WorldPart, CommitsAreTrue
  <2>. QED BY <2>1, <2>2, <2>3, <2>4 DEF WorldPart
<1>11. ImagePart'
  BY <1>1, <1>3, <1>5, <1>6, <1>7 DEF ImagePart, HasOneImage
<1>12. SuccessPart'
  BY <1>1, <1>3, <1>5, <1>6 DEF SuccessPart, SucceededIsCommitted
<1>13. torn' \/ RecordPart'
  <2>1. CASE job' = n /\ job_disk' = n /\ torn' = torn /\ ~torn
    <3>1. FilesAreInStep' /\ ChangeIsSeen'
      BY <1>1, <1>2, <1>3, <2>1 DEF RecordPart, FilesAreInStep, ChangeIsSeen
    <3>2. ~Attested'
      BY <1>3, <1>6, <1>7, <2>1 DEF Attested
    <3>3. CommitIsRecorded'
      BY <1>1, <1>3, <1>6, <1>7, <1>8, <2>1, <3>2 DEF RecordPart, CommitIsRecorded
    <3>4. CommitIsSeen'
      BY <1>3, <1>6, <1>7, <2>1 DEF CommitIsSeen
    <3>. QED BY <3>1, <3>2, <3>3, <3>4 DEF RecordPart
  <2>. QED BY <1>5, <2>1
<1>. QED BY <1>10, <1>11, <1>12, <1>13, TrialPartsNext

-----------------------------------------------------------------------------
(***************************************************************************)
(* The task reads the status and sends its requests.                       *)
(***************************************************************************)
\* A status that is read in the running boot is the device itself, or says nothing about updates.
LEMMA ReportedIsDevice ==
  ASSUME Reported.ota
  PROVE  Reported = dev
<1>1. CASE dev.ota
  BY <1>1 DEF Reported
<1>2. CASE ~dev.ota
  BY <1>2 DEF Reported, NoStatus
<1>. QED BY <1>1, <1>2

\* The task reads the status in the boot it was started for.
LEMMA ReadingTrial ==
  ASSUME StoreInv, TrialInv, TaskOnly, tpc' \in {"observed", "found"}, tseen' = Reported,
         dev.epoch = tepoch, tepoch' = tepoch, tjob' = tjob
  PROVE  TrialInv'
<1>1. WorldPart /\ ImagePart /\ SuccessPart /\ (~torn => RecordPart) /\ WorldTypes /\ TypeOK
  BY TrialParts, InvariantParts DEF StoreInv
<1>2. /\ UNCHANGED <<job, job_disk, obs, obs_disk, ids, waited, torn>>
      /\ UNCHANGED <<dev, slot, committed, puts, confirms>>
  BY DEF TaskOnly, storeVars, deviceVars, netVars
<1>3. Reported.epoch = dev.epoch /\ (Reported.ota => Reported = dev) /\ (~Reported.ota => Reported.outcome = "None" /\ ~Reported.trial)
  BY <1>1, ReportedIsTyped, ReportedIsDevice DEF Reported, NoStatus
<1>4. \A id : Deliverable(id)' => Deliverable(id)
  BY <1>2 DEF Deliverable
<1>5. WorldPart'
  <2>1. EpochsInOrder'
    <3>1. dev.epoch \in Nat
      BY <1>1, OtaAssumption DEF WorldTypes, DeviceTypes, Status
    <3>. QED BY <1>1, <1>2, <1>3, <3>1 DEF WorldPart, EpochsInOrder, Engaged, Observing
  <2>2. DeviceIsSound' /\ NoSecondTrial' /\ DeliveriesAreFresh'
    BY <1>1, <1>2, <1>3, <1>4 DEF WorldPart, DeviceIsSound, NoSecondTrial, DeliveriesAreFresh
  <2>3. SeenInThisBoot'
    BY <1>2, <1>3 DEF SeenInThisBoot, Unsettled
  <2>4. SeenInEarlierBoot'
    <3>1. dev.epoch \in Nat
      BY <1>1, OtaAssumption DEF WorldTypes, DeviceTypes, Status
    <3>. QED BY <1>2, <3>1 DEF SeenInEarlierBoot
  <2>5. CommitsAreTrue'
    BY <1>1, <1>2, <1>3 DEF WorldPart, CommitsAreTrue
  <2>. QED BY <2>1, <2>2, <2>3, <2>4, <2>5 DEF WorldPart
<1>6. ImagePart' /\ SuccessPart'
  BY <1>1, <1>2 DEF ImagePart, HasOneImage, SuccessPart, SucceededIsCommitted
<1>7. torn' \/ RecordPart'
  <2>1. CASE ~torn
    <3>1. FilesAreInStep' /\ ChangeIsSeen'
      BY <1>1, <1>2, <2>1 DEF RecordPart, FilesAreInStep, ChangeIsSeen, is_open
    <3>2. CommitIsRecorded'
      <4>1. Attested' => Attested
        BY <1>2 DEF Attested
      <4>. QED BY <1>1, <1>2, <1>4, <2>1, <4>1 DEF RecordPart, CommitIsRecorded, RecordsCommit
    <3>3. CommitIsSeen'
      <4>1. job.id \in committed => job.id > 0
        <5>1. committed \subseteq 1..ids
          BY <1>1 DEF WorldPart, CommitsAreTrue
        <5>2. ids \in Int
          BY <1>1, OtaAssumption DEF TypeOK, StoreTypes
        <5>3. \A k \in 1..ids : k > 0
          BY <5>2
        <5>. QED BY <5>1, <5>3
      <4>2. dev.last \in committed => dev.outcome = "Confirmed"
        BY <1>1, <2>1 DEF RecordPart, CommitIsRecorded
      <4>3. job.id \in committed /\ dev.last = job.id /\ dev.outcome = "Confirmed" => dev.active = job.image
        BY <1>1, <4>1 DEF ImagePart, HasOneImage
      <4>. QED BY <1>2, <1>3, <4>2, <4>3 DEF CommitIsSeen
    <3>. QED BY <3>1, <3>2, <3>3 DEF RecordPart
  <2>. QED BY <1>2, <2>1
<1>. QED BY <1>5, <1>6, <1>7, TrialPartsNext

\* The first reading of a reconciliation.
LEMMA ObserveTrial ==
  ASSUME StoreInv, TrialInv, Observe
  PROVE  TrialInv'
<1>1. TaskOnly
  BY DEF Observe
<1>2. CASE Ends
  BY <1>1, <1>2, EndsShrinks, LocalTrial DEF TaskOnly
<1>3. CASE ~Ends
  BY <1>1, <1>3, ReadingTrial DEF Observe
<1>. QED BY <1>2, <1>3

\* The reading after a delivery whose answer was lost.
LEMMA RecoverTrial ==
  ASSUME StoreInv, TrialInv, Recover
  PROVE  TrialInv'
<1>1. TaskOnly /\ UNCHANGED <<tepoch, tjob>> /\ tpc = "recover"
  BY DEF Recover
<1>2. CASE tpc' = "failed"
  <2>1. Shrinks
    BY <1>1, <1>2 DEF Recover, Shrinks, Engaged, Observing, TaskOnly, netVars
  <2>. QED BY <1>1, <2>1, LocalTrial
<1>3. CASE tpc' = "found"
  BY <1>1, <1>3, ReadingTrial DEF Recover
<1>. QED BY <1>2, <1>3 DEF Recover

\* The status after a confirmation: what it says was committed.
LEMMA VerifyTrial ==
  ASSUME StoreInv, TrialInv, VerifyConfirm
  PROVE  TrialInv'
<1>1. TaskOnly
  BY DEF VerifyConfirm
<1>2. CASE Ends
  BY <1>1, <1>2, EndsShrinks, LocalTrial DEF TaskOnly
<1>3. CASE ~Ends
  <2>1. WorldPart /\ ImagePart /\ SuccessPart /\ (~torn => RecordPart)
    BY TrialParts
  <2>2. /\ tpc = "confirmed" /\ tpc' = "verified" /\ UNCHANGED <<tepoch, tjob>>
        /\ tseen' = dev /\ dev.last = tjob.id /\ dev.outcome = "Confirmed"
    BY <1>3, ReportedIsDevice DEF VerifyConfirm, CommittedStatus
  <2>3. /\ UNCHANGED <<job, job_disk, obs, obs_disk, ids, waited, torn>>
        /\ UNCHANGED <<dev, slot, committed, puts, confirms>>
    BY <1>1 DEF TaskOnly, storeVars, deviceVars, netVars
  <2>4. \A id : Deliverable(id)' => Deliverable(id)
    BY <2>2, <2>3 DEF Deliverable
  <2>5. WorldPart'
    BY <2>1, <2>2, <2>3, <2>4 DEF WorldPart, EpochsInOrder, DeviceIsSound, NoSecondTrial, DeliveriesAreFresh,
       SeenInThisBoot, SeenInEarlierBoot, CommitsAreTrue, Engaged, Observing
  <2>6. ImagePart' /\ SuccessPart'
    BY <2>1, <2>2, <2>3 DEF ImagePart, HasOneImage, SuccessPart, SucceededIsCommitted
  <2>7. RecordPart => RecordPart'
    <3>1. Attested' => Attested
      BY <2>2, <2>3 DEF Attested
    <3>. QED BY <2>2, <2>3, <2>4, <3>1 DEF RecordPart, FilesAreInStep, ChangeIsSeen, CommitIsRecorded, CommitIsSeen,
                RecordsCommit, Observing, is_open
  <2>. QED BY <2>1, <2>3, <2>5, <2>6, <2>7, TrialPartsNext
<1>. QED BY <1>2, <1>3

\* The image that is sent was deliverable before; it is the image of its assignment.
LEMMA PushTrial ==
  ASSUME StoreInv, TrialInv, PushImage
  PROVE  TrialInv'
<1> DEFINE r == [id |-> tjob.id, image |-> tjob.image, epoch |-> tepoch]
<1>1. WorldPart /\ ImagePart /\ SuccessPart /\ (~torn => RecordPart) /\ TypeOK
  BY TrialParts DEF StoreInv
<1>2. /\ UNCHANGED <<job, job_disk, obs, obs_disk, ids, waited, torn>>
      /\ UNCHANGED <<dev, slot, committed, confirms, tepoch, tseen, tjob>>
      /\ tpc = "update" /\ tpc' = "putting" /\ puts' = puts \cup {r}
  BY DEF PushImage, At, storeVars, deviceVars
<1>3. \A m \in puts' : m \in puts \/ (m.id = tjob.id /\ m.image = tjob.image /\ m.epoch = tepoch)
  BY <1>2
<1>4. \A id : Deliverable(id)' => Deliverable(id)
  BY <1>2, <1>3 DEF Deliverable
<1>5. WorldPart'
  <2>1. EpochsInOrder'
    <3>1. tepoch \in Nat
      BY <1>1, OtaAssumption DEF TypeOK, TaskTypes
    <3>. QED BY <1>1, <1>2, <1>3, <3>1 DEF WorldPart, EpochsInOrder, Engaged, Observing
  <2>2. DeviceIsSound' /\ NoSecondTrial' /\ DeliveriesAreFresh'
    BY <1>1, <1>2, <1>3, <1>4 DEF WorldPart, DeviceIsSound, NoSecondTrial, DeliveriesAreFresh
  <2>3. SeenInThisBoot' /\ SeenInEarlierBoot' /\ CommitsAreTrue'
    BY <1>1, <1>2 DEF WorldPart, SeenInThisBoot, SeenInEarlierBoot, CommitsAreTrue, Observing
  <2>. QED BY <2>1, <2>2, <2>3 DEF WorldPart
<1>6. ImagePart' /\ SuccessPart'
  BY <1>1, <1>2, <1>3 DEF ImagePart, HasOneImage, SuccessPart, SucceededIsCommitted
<1>7. RecordPart => RecordPart'
  <2>1. Attested' => Attested
    BY <1>2 DEF Attested
  <2>. QED BY <1>2, <1>4, <2>1 DEF RecordPart, FilesAreInStep, ChangeIsSeen, CommitIsRecorded, CommitIsSeen,
              RecordsCommit, Observing, is_open
<1>. QED BY <1>1, <1>2, <1>5, <1>6, <1>7, TrialPartsNext

\* A confirmation is sent for an assignment whose record says so.
LEMMA SendConfirmTrial ==
  ASSUME StoreInv, TrialInv, SendConfirm
  PROVE  TrialInv'
<1> DEFINE r == [id |-> tjob.id, epoch |-> tepoch]
<1>1. WorldPart /\ ImagePart /\ SuccessPart /\ (~torn => RecordPart) /\ TypeOK
  BY TrialParts DEF StoreInv
<1>2. /\ UNCHANGED <<job, job_disk, obs, obs_disk, ids, waited, torn>>
      /\ UNCHANGED <<dev, slot, committed, puts, tepoch, tseen, tjob>>
      /\ tpc = "confirm" /\ tpc' = "confirming" /\ confirms' = confirms \cup {r}
  BY DEF SendConfirm, At, storeVars, deviceVars
<1>3. \A m \in confirms' : m \in confirms \/ (m.id = tjob.id /\ m.epoch = tepoch)
  BY <1>2
<1>4. \A id : Deliverable(id)' => Deliverable(id)
  BY <1>2 DEF Deliverable
<1>5. WorldPart'
  <2>1. EpochsInOrder'
    <3>1. tepoch \in Nat
      BY <1>1, OtaAssumption DEF TypeOK, TaskTypes
    <3>. QED BY <1>1, <1>2, <1>3, <3>1 DEF WorldPart, EpochsInOrder, Engaged, Observing
  <2>2. DeviceIsSound' /\ NoSecondTrial' /\ DeliveriesAreFresh'
    BY <1>1, <1>2, <1>4 DEF WorldPart, DeviceIsSound, NoSecondTrial, DeliveriesAreFresh
  <2>3. SeenInThisBoot' /\ SeenInEarlierBoot' /\ CommitsAreTrue'
    BY <1>1, <1>2 DEF WorldPart, SeenInThisBoot, SeenInEarlierBoot, CommitsAreTrue, Observing
  <2>. QED BY <2>1, <2>2, <2>3 DEF WorldPart
<1>6. ImagePart' /\ SuccessPart'
  BY <1>1, <1>2 DEF ImagePart, HasOneImage, SuccessPart, SucceededIsCommitted
<1>7. RecordPart => RecordPart'
  <2>1. Attested' => Attested
    BY <1>2, <1>3 DEF Attested
  <2>. QED BY <1>2, <1>4, <2>1 DEF RecordPart, FilesAreInStep, ChangeIsSeen, CommitIsRecorded, CommitIsSeen,
              RecordsCommit, Observing, is_open
<1>. QED BY <1>1, <1>2, <1>5, <1>6, <1>7, TrialPartsNext

-----------------------------------------------------------------------------
(***************************************************************************)
(* The device moves.                                                       *)
(***************************************************************************)
\* Ids of created assignments are not the id of a direct upload.
LEMMA CreatedIsNotDirect ==
  ASSUME TypeOK
  PROVE  /\ ids \in Nat /\ ids < Direct /\ Direct \in Nat /\ Direct \notin 1..ids
         /\ \A k \in 1..ids : k # Direct /\ k > 0
  BY OtaAssumption DEF TypeOK, StoreTypes, Direct

\* Nothing that was sent in an earlier boot can be accepted after the next one.
LEMMA BootTrial ==
  ASSUME StoreInv, TrialInv, NEW o \in BOOLEAN, Boot(o)
  PROVE  TrialInv'
<1>1. WorldPart /\ ImagePart /\ SuccessPart /\ (~torn => RecordPart) /\ TypeOK
  BY TrialParts DEF StoreInv
<1>2. /\ UNCHANGED <<job, job_disk, obs, obs_disk, ids, waited, torn>>
      /\ UNCHANGED <<slot, committed, tpc, tepoch, tseen, tjob>>
      /\ puts' \subseteq puts /\ confirms' \subseteq confirms
  BY DEF Boot, storeVars, taskVars
<1>3. dev \in Status /\ dev.epoch \in Nat /\ tepoch \in Nat /\ \A m \in puts : m.epoch \in Nat
  BY <1>1, OtaAssumption DEF TypeOK, DeviceTypes, TaskTypes, NetTypes, Put, Status
<1>4. \A m \in confirms : m.epoch \in Nat
  BY <1>1, OtaAssumption DEF TypeOK, NetTypes, Confirmation
<1>5. dev'.epoch = dev.epoch + 1 /\ dev'.active = dev.active
  BY <1>3 DEF Boot, Status
<1>6. \/ /\ dev.pending # 0 /\ ~dev.trial /\ dev'.trial /\ dev'.running = slot /\ dev'.pending = dev.pending
         /\ dev'.last = dev.last /\ dev'.outcome = dev.outcome
      \/ /\ dev.pending # 0 /\ ~dev'.trial /\ dev'.pending = 0 /\ dev'.last = dev.pending
         /\ dev'.outcome \in {"RolledBack", "Failed"}
      \/ /\ dev.pending = 0 /\ dev'.pending = 0 /\ dev'.trial = dev.trial /\ dev'.running = dev.running
         /\ dev'.last = dev.last /\ dev'.outcome = dev.outcome
  BY <1>3 DEF Boot, Status
<1>7. tepoch < dev'.epoch /\ (\A m \in puts' : m.epoch < dev'.epoch) /\ (\A m \in confirms' : m.epoch < dev'.epoch)
  BY <1>1, <1>2, <1>3, <1>4, <1>5 DEF WorldPart, EpochsInOrder
<1>8. \A id : ~Deliverable(id)'
  BY <1>2, <1>3, <1>4, <1>5, <1>7 DEF Deliverable
<1>9. ~(dev'.trial /\ dev.pending = 0)
  BY <1>1, <1>6 DEF WorldPart, DeviceIsSound
<1>10. WorldPart'
  <2>1. EpochsInOrder'
    BY <1>1, <1>2, <1>3, <1>4, <1>5, <1>7 DEF WorldPart, EpochsInOrder, Engaged, Observing
  <2>2. DeviceIsSound'
    BY <1>1, <1>2, <1>6, <1>9, CreatedIsNotDirect DEF WorldPart, DeviceIsSound
  <2>3. NoSecondTrial' /\ DeliveriesAreFresh'
    BY <1>1, <1>2, <1>6, <1>8 DEF WorldPart, NoSecondTrial, DeliveriesAreFresh
  <2>4. SeenInThisBoot'
    BY <1>2, <1>3, <1>5, <1>7 DEF SeenInThisBoot
  <2>5. SeenInEarlierBoot'
    <3>1. SUFFICES ASSUME Observing, tseen.ota, tseen.trial, tseen.pending # Direct, dev'.pending = tseen.pending
                   PROVE  FALSE
      BY <1>2 DEF SeenInEarlierBoot, Observing
    <3>2. CASE tepoch < dev.epoch
      <4>1. dev.pending # tseen.pending
        BY <1>1, <3>1, <3>2 DEF WorldPart, SeenInEarlierBoot
      <4>. QED BY <1>1, <1>6, <3>1, <4>1 DEF WorldPart, DeviceIsSound
    <3>3. CASE tepoch = dev.epoch
      <4>1. dev.trial \/ dev.last = tseen.pending
        BY <1>1, <3>1, <3>3 DEF WorldPart, SeenInThisBoot
      <4>2. dev.trial => tseen.pending = dev.pending
        BY <1>1, <3>1, <3>3 DEF WorldPart, SeenInThisBoot
      <4>3. tseen.pending # 0
        BY <1>1, <3>1 DEF WorldPart, DeviceIsSound
      <4>. QED BY <1>1, <1>6, <3>1, <4>1, <4>2, <4>3 DEF WorldPart, NoSecondTrial
    <3>. QED BY <1>1, <1>3, <3>2, <3>3 DEF WorldPart, EpochsInOrder
  <2>6. CommitsAreTrue'
    BY <1>1, <1>2, <1>6 DEF WorldPart, CommitsAreTrue
  <2>. QED BY <2>1, <2>2, <2>3, <2>4, <2>5, <2>6 DEF WorldPart
<1>11. ImagePart' /\ SuccessPart'
  BY <1>1, <1>2, <1>5, <1>6 DEF ImagePart, HasOneImage, SuccessPart, SucceededIsCommitted
<1>12. RecordPart => RecordPart'
  <2>1. SUFFICES ASSUME RecordPart PROVE RecordPart'
    OBVIOUS
  <2>2. FilesAreInStep' /\ ChangeIsSeen'
    BY <1>2, <2>1 DEF RecordPart, FilesAreInStep, ChangeIsSeen, is_open
  <2>3. \A id \in committed : id # 0 /\ id # dev.pending
    BY <1>1, <2>1, CreatedIsNotDirect DEF WorldPart, CommitsAreTrue, RecordPart, CommitIsRecorded
  <2>4. Attested' => Attested
    <3>1. \A m \in confirms' : m.epoch # dev'.epoch
      BY <1>2, <1>3, <1>4, <1>5, <1>7
    <3>2. tepoch' # dev'.epoch
      BY <1>2, <1>3, <1>5, <1>7
    <3>3. Attested' => job.id \in committed /\ dev'.last = job.id
      BY <1>2, <3>1, <3>2 DEF Attested
    <3>. QED BY <1>6, <2>3, <3>3 DEF Attested
  <2>5. CommitIsRecorded'
    <3>1. job.phase = "Confirming" => job.id # 0
      BY InvariantParts DEF JobInv, JobIsSound
    <3>2. job.phase = "Confirming" /\ dev'.pending = job.id => dev'.trial
      BY <1>1, <1>6, <2>1, <3>1 DEF RecordPart, CommitIsRecorded
    <3>3. \A id \in committed : dev'.pending # id
      BY <1>6, <2>3
    <3>4. dev'.last \in committed => dev'.outcome = "Confirmed"
      BY <1>6, <2>1, <2>3 DEF RecordPart, CommitIsRecorded
    <3>. QED BY <1>2, <1>8, <2>1, <2>4, <3>2, <3>3, <3>4 DEF RecordPart, CommitIsRecorded, RecordsCommit
  <2>6. CommitIsSeen'
    <3>1. job.id \in committed /\ dev'.last = job.id => dev.last = job.id
      BY <1>6, <2>3
    <3>. QED BY <1>2, <2>1, <3>1 DEF RecordPart, CommitIsSeen, Observing
  <2>. QED BY <2>2, <2>5, <2>6 DEF RecordPart
<1>. QED BY <1>1, <1>2, <1>10, <1>11, <1>12, TrialPartsNext

\* An image from elsewhere is staged: no assignment has its id.
LEMMA DirectUploadTrial ==
  ASSUME StoreInv, TrialInv, NEW i \in Images, DirectUpload(i)
  PROVE  TrialInv'
<1>1. WorldPart /\ ImagePart /\ SuccessPart /\ (~torn => RecordPart) /\ TypeOK
  BY TrialParts DEF StoreInv
<1>2. /\ UNCHANGED <<job, job_disk, obs, obs_disk, ids, waited, torn>>
      /\ UNCHANGED <<committed, puts, confirms, tpc, tepoch, tseen, tjob>>
  BY DEF DirectUpload, storeVars, taskVars, netVars
<1>3. /\ dev'.epoch = dev.epoch /\ dev'.active = dev.active /\ dev'.running = dev.running /\ dev'.pending = Direct
      /\ ~dev.trial /\ ~dev'.trial /\ dev'.last = dev.last /\ dev'.outcome = dev.outcome
  <2>1. dev \in Status
    BY <1>1 DEF TypeOK, DeviceTypes
  <2>. QED BY <2>1 DEF DirectUpload, Staged, Unsettled, Status
<1>4. \A id : Deliverable(id)' <=> Deliverable(id)
  BY <1>2, <1>3 DEF Deliverable
<1>5. job.id < Direct /\ job_disk.id < Direct /\ job.id \in Nat /\ job_disk.id \in Nat
  BY <1>1, OtaAssumption DEF TypeOK, StoreTypes, Job, Direct
<1>6. WorldPart'
  <2>1. EpochsInOrder' /\ SeenInThisBoot' /\ SeenInEarlierBoot' /\ CommitsAreTrue'
    BY <1>1, <1>2, <1>3 DEF WorldPart, EpochsInOrder, SeenInThisBoot, SeenInEarlierBoot, CommitsAreTrue,
       Engaged, Observing
  <2>2. DeviceIsSound' /\ NoSecondTrial' /\ DeliveriesAreFresh'
    BY <1>1, <1>2, <1>3, <1>4 DEF WorldPart, DeviceIsSound, NoSecondTrial, DeliveriesAreFresh
  <2>. QED BY <2>1, <2>2 DEF WorldPart
<1>7. ImagePart' /\ SuccessPart'
  BY <1>1, <1>2, <1>3, <1>5 DEF ImagePart, HasOneImage, SuccessPart, SucceededIsCommitted
<1>8. RecordPart => RecordPart'
  <2>1. Attested' => Attested
    BY <1>2, <1>3 DEF Attested
  <2>2. \A id \in committed : id # Direct
    BY <1>1, CreatedIsNotDirect DEF WorldPart, CommitsAreTrue
  <2>. QED BY <1>2, <1>3, <1>4, <1>5, <2>1, <2>2 DEF RecordPart, FilesAreInStep, ChangeIsSeen, CommitIsRecorded,
              CommitIsSeen, RecordsCommit, Observing, is_open
<1>. QED BY <1>1, <1>2, <1>6, <1>7, <1>8, TrialPartsNext

\* What the device is after it has committed the update on trial.
LEMMA CommitChanges ==
  ASSUME dev \in Status, NEW id,
         dev' = [dev EXCEPT !.active = dev.running, !.pending = 0, !.trial = FALSE,
                            !.last = id, !.outcome = "Confirmed"]
  PROVE  /\ dev'.epoch = dev.epoch /\ dev'.active = dev.running /\ dev'.running = dev.running /\ dev'.pending = 0
         /\ ~dev'.trial /\ dev'.last = id /\ dev'.outcome = "Confirmed"
  BY DEF Status

\* The confirmation of an image from elsewhere.
LEMMA DirectConfirmTrial ==
  ASSUME StoreInv, TrialInv, DirectConfirm
  PROVE  TrialInv'
<1>1. WorldPart /\ ImagePart /\ SuccessPart /\ (~torn => RecordPart) /\ TypeOK
  BY TrialParts DEF StoreInv
<1>2. /\ UNCHANGED <<job, job_disk, obs, obs_disk, ids, waited, torn>>
      /\ UNCHANGED <<slot, committed, puts, confirms, tpc, tepoch, tseen, tjob>>
  BY DEF DirectConfirm, storeVars, taskVars, netVars
<1>3. /\ dev'.epoch = dev.epoch /\ dev'.pending = 0 /\ ~dev'.trial /\ dev'.last = Direct /\ dev'.outcome = "Confirmed"
      /\ dev.trial /\ dev.pending = Direct
  BY <1>1, CommitChanges DEF DirectConfirm, TypeOK, DeviceTypes
<1>4. \A id : Deliverable(id)' <=> Deliverable(id)
  BY <1>2, <1>3 DEF Deliverable
<1>5. job.id < Direct /\ job_disk.id < Direct /\ job.id \in Nat /\ job_disk.id \in Nat
  BY <1>1, OtaAssumption DEF TypeOK, StoreTypes, Job, Direct
<1>6. WorldPart'
  <2>1. EpochsInOrder' /\ CommitsAreTrue'
    BY <1>1, <1>2, <1>3 DEF WorldPart, EpochsInOrder, CommitsAreTrue, Engaged, Observing
  <2>2. SeenInThisBoot' /\ SeenInEarlierBoot'
    BY <1>1, <1>2, <1>3 DEF WorldPart, SeenInThisBoot, SeenInEarlierBoot, DeviceIsSound, Observing, Unsettled
  <2>3. DeviceIsSound' /\ NoSecondTrial' /\ DeliveriesAreFresh'
    BY <1>1, <1>2, <1>3, <1>4, CreatedIsNotDirect DEF WorldPart, DeviceIsSound, NoSecondTrial, DeliveriesAreFresh
  <2>. QED BY <2>1, <2>2, <2>3 DEF WorldPart
<1>7. ImagePart' /\ SuccessPart'
  BY <1>1, <1>2, <1>3, <1>5 DEF ImagePart, HasOneImage, SuccessPart, SucceededIsCommitted
<1>8. RecordPart => RecordPart'
  <2>1. ~Attested'
    BY <1>2, <1>3, <1>5 DEF Attested
  <2>2. \A id \in committed : id # Direct /\ id # 0
    BY <1>1, CreatedIsNotDirect DEF WorldPart, CommitsAreTrue
  <2>3. job.phase = "Confirming" => job.id # 0
    BY InvariantParts DEF JobInv, JobIsSound
  <2>. QED BY <1>2, <1>3, <1>4, <1>5, <2>1, <2>2, <2>3 DEF RecordPart, FilesAreInStep, ChangeIsSeen, CommitIsRecorded,
              CommitIsSeen, Observing, is_open
<1>. QED BY <1>1, <1>2, <1>6, <1>7, <1>8, TrialPartsNext

\* The device accepts an image: it is of this boot, not yet tried and the image of its assignment.
LEMMA StagesTrial ==
  ASSUME StoreInv, TrialInv, NEW m \in puts, DeviceStages(m)
  PROVE  TrialInv'
<1>1. WorldPart /\ ImagePart /\ SuccessPart /\ (~torn => RecordPart) /\ TypeOK
  BY TrialParts DEF StoreInv
<1>2. /\ UNCHANGED <<job, job_disk, obs, obs_disk, ids, waited, torn>>
      /\ UNCHANGED <<committed, confirms, tepoch, tseen, tjob>>
      /\ puts' \subseteq puts /\ m.epoch = dev.epoch /\ slot' = m.image
  BY DEF DeviceStages, storeVars, Answered, Staged
<1>3. /\ dev'.epoch = dev.epoch /\ dev'.active = dev.active /\ dev'.running = dev.running /\ dev'.pending = m.id
      /\ ~dev.trial /\ ~dev'.trial /\ dev'.last = dev.last /\ dev'.outcome = dev.outcome
  <2>1. dev \in Status
    BY <1>1 DEF TypeOK, DeviceTypes
  <2>. QED BY <2>1 DEF DeviceStages, Staged, Unsettled, Status
<1>4. Engaged' => Engaged
  BY DEF DeviceStages, Answered, Waits, Engaged
<1>5. /\ Observing' => Observing
      /\ tpc' = "update" => tpc = "update"
      /\ tpc' = "confirm" => tpc = "confirm"
      /\ tpc' = "verified" => tpc = "verified"
  BY DEF DeviceStages, Answered, Observing
<1>6. \A id : Deliverable(id)' => Deliverable(id)
  BY <1>2, <1>3, <1>5 DEF Deliverable
<1>7. Deliverable(m.id)
  BY <1>2 DEF Deliverable
<1>8. m.id \in 1..ids /\ m.epoch \in Nat /\ tepoch \in Nat
  BY <1>1, OtaAssumption DEF TypeOK, NetTypes, TaskTypes, Put, WorldPart, DeviceIsSound, StoreTypes
<1>9. m.id # dev.last
  BY <1>1, <1>7, <1>8 DEF WorldPart, DeliveriesAreFresh
<1>10. WorldPart'
  <2>1. EpochsInOrder'
    BY <1>1, <1>2, <1>3, <1>4, <1>5 DEF WorldPart, EpochsInOrder
  <2>2. DeviceIsSound' /\ NoSecondTrial'
    BY <1>1, <1>2, <1>3, <1>8, <1>9, CreatedIsNotDirect DEF WorldPart, DeviceIsSound, NoSecondTrial
  <2>3. DeliveriesAreFresh' /\ CommitsAreTrue'
    BY <1>1, <1>2, <1>3, <1>5, <1>6 DEF WorldPart, DeliveriesAreFresh, CommitsAreTrue
  <2>4. SeenInThisBoot'
    BY <1>1, <1>2, <1>3, <1>5 DEF WorldPart, SeenInThisBoot
  <2>5. SeenInEarlierBoot'
    <3>1. Observing => Engaged
      BY DEF Observing, Engaged
    <3>2. Observing => ~(tepoch < dev.epoch)
      BY <1>1, <1>2, <1>8, <3>1 DEF WorldPart, EpochsInOrder
    <3>. QED BY <1>2, <1>3, <1>5, <3>2 DEF SeenInEarlierBoot
  <2>. QED BY <2>1, <2>2, <2>3, <2>4, <2>5 DEF WorldPart
<1>11. ImagePart' /\ SuccessPart'
  BY <1>1, <1>2, <1>3 DEF ImagePart, HasOneImage, SuccessPart, SucceededIsCommitted
<1>12. RecordPart => RecordPart'
  <2>1. Attested' => Attested
    BY <1>2, <1>3 DEF Attested
  <2>. QED BY <1>2, <1>3, <1>5, <1>6, <1>7, <2>1 DEF RecordPart, FilesAreInStep, ChangeIsSeen, CommitIsRecorded,
              CommitIsSeen, RecordsCommit, is_open
<1>. QED BY <1>1, <1>2, <1>10, <1>11, <1>12, TrialPartsNext

\* The device commits: the confirmation is of this boot, so the record says Confirming, or the
\* assignment was cancelled, and a status that was read in this boot has seen the trial.
LEMMA CommitsTrial ==
  ASSUME StoreInv, TrialInv, NEW m \in confirms, DeviceCommits(m)
  PROVE  TrialInv'
<1>1. WorldPart /\ ImagePart /\ SuccessPart /\ (~torn => RecordPart) /\ TypeOK
  BY TrialParts DEF StoreInv
<1>2. /\ UNCHANGED <<job, job_disk, obs, obs_disk, ids, waited, torn>>
      /\ UNCHANGED <<slot, puts>> /\ confirms' \subseteq confirms /\ committed' = committed \cup {m.id}
      /\ m.epoch = dev.epoch /\ dev.trial /\ dev.pending = m.id
  BY DEF DeviceCommits, storeVars
<1>3. /\ dev'.epoch = dev.epoch /\ dev'.active = dev.running /\ dev'.pending = 0
      /\ ~dev'.trial /\ dev'.last = m.id /\ dev'.outcome = "Confirmed"
  BY <1>1, CommitChanges DEF DeviceCommits, TypeOK, DeviceTypes
<1>4. Shrinks
  <2>1. CASE Refused(m)
    <3>1. Ends \/ UNCHANGED taskVars
      BY <2>1 DEF Refused
    <3>. QED BY <1>2, <3>1 DEF Ends, Shrinks, Engaged, Observing, taskVars
  <2>2. CASE Answered("confirming", m, "confirmed", "None")
    BY <1>2, <2>2, AnswerShrinks
  <2>. QED BY <2>1, <2>2 DEF DeviceCommits
<1>5. \A id : Deliverable(id)' => Deliverable(id)
  BY <1>2, <1>3, <1>4 DEF Deliverable, Shrinks, Engaged
<1>6. m.id \in 1..ids /\ m.epoch \in Nat /\ tepoch \in Nat
  <2>1. m.id \in 1..MaxJobs /\ m.epoch \in Nat /\ tepoch \in Nat
    BY <1>1, OtaAssumption DEF TypeOK, NetTypes, Confirmation, TaskTypes
  <2>2. m.id \in 0..ids \cup {Direct}
    BY <1>1, <1>2 DEF WorldPart, DeviceIsSound
  <2>. QED BY <2>1, <2>2, OtaAssumption DEF Direct
<1>7. m.id > 0 /\ m.id # Direct /\ ~Deliverable(m.id) /\ m.id # dev.last
  BY <1>1, <1>2, <1>6, CreatedIsNotDirect DEF WorldPart, DeliveriesAreFresh, NoSecondTrial
<1>8. WorldPart'
  <2>1. EpochsInOrder'
    <3>1. tepoch' <= dev.epoch
      <4>1. dev.epoch \in Nat /\ dev.epoch > 0
        BY <1>1, OtaAssumption DEF TypeOK, DeviceTypes, Status
      <4>. QED BY <1>1, <1>4, <4>1 DEF WorldPart, EpochsInOrder, Shrinks
    <3>2. Observing' => tseen'.epoch = tepoch'
      BY <1>1, <1>4 DEF WorldPart, EpochsInOrder, Shrinks, Engaged, Observing
    <3>. QED BY <1>1, <1>2, <1>3, <1>4, <3>1, <3>2 DEF WorldPart, EpochsInOrder, Shrinks
  <2>2. DeviceIsSound'
    <3>1. m.id \in 0..ids
      BY <1>1, <1>6, CreatedIsNotDirect
    <3>2. tjob'.id <= ids
      BY <1>1, <1>4, CreatedIsNotDirect DEF WorldPart, DeviceIsSound, Shrinks
    <3>3. tseen'.trial => tseen'.pending # 0
      BY <1>1, <1>4 DEF WorldPart, DeviceIsSound, Shrinks, NoStatus
    <3>. QED BY <1>1, <1>2, <1>3, <3>1, <3>2, <3>3, CreatedIsNotDirect DEF WorldPart, DeviceIsSound
  <2>3. NoSecondTrial' /\ DeliveriesAreFresh'
    BY <1>1, <1>2, <1>3, <1>5, <1>7 DEF WorldPart, NoSecondTrial, DeliveriesAreFresh
  <2>4. SeenInThisBoot'
    BY <1>1, <1>2, <1>3, <1>4 DEF WorldPart, SeenInThisBoot, Shrinks, Engaged, Observing
  <2>5. SeenInEarlierBoot'
    BY <1>1, <1>3, <1>4 DEF WorldPart, DeviceIsSound, SeenInEarlierBoot, Shrinks
  <2>6. CommitsAreTrue'
    <3>1. tseen'.outcome = "Confirmed" => tseen' = tseen
      BY <1>4 DEF Shrinks, NoStatus
    <3>2. tpc' = "verified" => tpc = "verified" /\ tjob' = tjob /\ tseen' = tseen
      BY <1>4 DEF Shrinks
    <3>. QED BY <1>1, <1>2, <1>3, <1>6, <3>1, <3>2 DEF WorldPart, CommitsAreTrue
  <2>. QED BY <2>1, <2>2, <2>3, <2>4, <2>5, <2>6 DEF WorldPart
<1>9. ImagePart' /\ SuccessPart'
  <2>1. dev.running = slot
    BY <1>1, <1>2 DEF WorldPart, DeviceIsSound
  <2>2. tjob' = tjob \/ tjob'.id = 0
    BY <1>4 DEF Shrinks
  <2>. QED BY <1>1, <1>2, <1>3, <2>1, <2>2 DEF ImagePart, HasOneImage, SuccessPart, SucceededIsCommitted
<1>10. RecordPart => RecordPart'
  <2>1. SUFFICES ASSUME RecordPart PROVE RecordPart'
    OBVIOUS
  <2>2. FilesAreInStep' /\ ChangeIsSeen'
    BY <1>2, <2>1 DEF RecordPart, FilesAreInStep, ChangeIsSeen, is_open
  <2>3. job.id = m.id => RecordsCommit(job)
    BY <1>2, <2>1 DEF RecordPart, CommitIsRecorded, Attested
  <2>4. CommitIsRecorded'
    <3>1. job.phase = "Confirming" => job.id # 0
      BY InvariantParts DEF JobInv, JobIsSound
    <3>2. \A id \in committed : id # 0
      BY <1>1, CreatedIsNotDirect DEF WorldPart, CommitsAreTrue
    <3>3. Attested' => job.id = m.id
      BY <1>2, <1>3 DEF Attested
    <3>. QED BY <1>2, <1>3, <1>5, <1>7, <2>1, <2>3, <3>1, <3>2, <3>3 DEF RecordPart, CommitIsRecorded, RecordsCommit
  <2>5. CommitIsSeen'
    <3>1. SUFFICES ASSUME Observing', tseen'.ota, job.id = m.id
                   PROVE  tseen'.trial /\ tseen'.pending = job.id /\ tseen'.running = job.image /\ tseen'.last # job.id
      BY <1>2, <1>3 DEF CommitIsSeen
    <3>2. Observing /\ Engaged /\ tseen' = tseen
      BY <1>4, <3>1 DEF Shrinks, Observing, Engaged
    <3>3. tepoch = dev.epoch
      BY <1>1, <1>2, <1>6, <3>2 DEF WorldPart, EpochsInOrder
    <3>4. tseen.trial /\ tseen.pending = dev.pending /\ tseen.running = dev.running /\ tseen.last = dev.last
      BY <1>1, <1>2, <3>1, <3>2, <3>3 DEF WorldPart, SeenInThisBoot
    <3>5. dev.running = job.image
      BY <1>1, <1>2, <1>7, <3>1 DEF WorldPart, DeviceIsSound, ImagePart, HasOneImage
    <3>. QED BY <1>2, <1>7, <3>1, <3>2, <3>4, <3>5
  <2>. QED BY <2>2, <2>4, <2>5 DEF RecordPart
<1>. QED BY <1>1, <1>2, <1>8, <1>9, <1>10, TrialPartsNext

-----------------------------------------------------------------------------
(***************************************************************************)
(* The task decides and records.                                           *)
(***************************************************************************)
\* What a decision makes of an assignment, and what it took from the status.
LEMMA DecidedFacts ==
  ASSUME NEW j \in Job, NEW s \in Status, NEW changed \in BOOLEAN, NEW idle \in BOOLEAN, NEW due \in BOOLEAN,
         is_open(j) => j.id # 0
  PROVE  LET n == DecidedJob(j, s, changed, idle, due)
             decision == Decision(j, s, changed, idle, due)
         IN /\ n.phase = "Confirming" => j.phase = "Confirming" \/ (is_open(j) /\ s.ota /\ OwnTrial(j, s))
            /\ n.phase \in {"Queued", "Downloading"} => j.phase \in {"Queued", "Downloading"}
            /\ n.phase = "Succeeded" => j.phase = "Succeeded" \/ (s.last = j.id /\ s.outcome = "Confirmed")
            /\ n.waiting => \/ ~is_open(j) /\ n = j
                            \/ is_open(n) /\ (~s.ota \/ (j.waiting /\ ~changed))
            /\ decision = "Update" => /\ is_open(j) /\ s.ota /\ ~Unsettled(s) /\ s.active # j.image
                                      /\ n.phase = "Downloading"
                                      /\ s.last = j.id => s.outcome \notin {"RolledBack", "Failed"}
            /\ decision = "Confirm" => is_open(j) /\ s.ota /\ OwnTrial(j, s) /\ n.phase = "Confirming"
            /\ RecordsCommit(j) =>
                 \/ RecordsCommit(n)
                 \/ /\ s.ota
                    /\ ~(s.trial /\ s.pending = j.id /\ s.running = j.image /\ s.last # j.id)
                    /\ ~(s.last = j.id /\ s.outcome = "Confirmed" /\ s.active = j.image)
<1> DEFINE n == DecidedJob(j, s, changed, idle, due)
           decision == Decision(j, s, changed, idle, due)
<1>1. CASE ~is_open(j)
  <2>1. n = j
    BY <1>1 DEF DecidedJob
  <2>2. decision \notin {"Update", "Confirm"}
    BY <1>1, <2>1 DEF Decision
  <2>. QED BY <1>1, <2>1, <2>2
<1>2. CASE is_open(j) /\ ~s.ota
  <2>1. n = [j EXCEPT !.waiting = TRUE, !.delayed = FALSE]
    BY <1>2 DEF DecidedJob
  <2>2. n.phase = j.phase
    BY <2>1 DEF Job
  <2>3. decision \notin {"Update", "Confirm"}
    BY <1>2 DEF Decision
  <2>. QED BY <1>2, <2>2, <2>3 DEF is_open, RecordsCommit
<1>3. CASE is_open(j) /\ s.ota /\ OutcomePhase(j, s) # j.phase
  <2>1. n = Moved(j, OutcomePhase(j, s))
    BY <1>3 DEF DecidedJob
  <2>2. n.phase = OutcomePhase(j, s) /\ ~n.waiting
    BY <2>1 DEF Moved, Job
  <2>3. s.last = j.id /\ \/ n.phase = "Succeeded" /\ s.outcome = "Confirmed"
                         \/ n.phase = s.outcome /\ s.outcome \in {"RolledBack", "Failed"}
    BY <1>3, <2>2 DEF OutcomePhase
  <2>4. decision \notin {"Update", "Confirm"}
    BY <1>3, <2>3 DEF Decision, is_open, OpenPhases
  <2>. QED BY <1>3, <2>2, <2>3, <2>4 DEF RecordsCommit
<1>4. CASE is_open(j) /\ s.ota /\ OutcomePhase(j, s) = j.phase
  <2>1. n = Progress(j, s, changed, idle, due)
    BY <1>4 DEF DecidedJob
  <2>2. s.last = j.id => s.outcome \notin {"RolledBack", "Failed"}
    BY <1>4 DEF OutcomePhase, is_open, OpenPhases
  <2>3. ~(s.last = j.id /\ s.outcome = "Confirmed" /\ s.active = j.image /\ j.phase = "Confirming")
    BY <1>4 DEF OutcomePhase
  <2>4. CASE OwnTrial(j, s)
    <3>1. n = Moved(j, "Confirming")
      BY <2>1, <2>4 DEF Progress, OwnTrial, OwnPending, Unsettled
    <3>2. n.phase = "Confirming" /\ ~n.waiting
      BY <3>1 DEF Moved, Job
    <3>3. decision # "Update"
      BY <2>4, <3>2 DEF Decision, OwnTrial, Unsettled
    <3>. QED BY <1>4, <2>4, <3>2, <3>3 DEF RecordsCommit
  <2>5. CASE ~OwnTrial(j, s) /\ OwnPending(j, s)
    <3>1. n = Moved(j, "Staged")
      BY <1>4, <2>1, <2>5 DEF Progress, OwnPending, Unsettled
    <3>2. n.phase = "Staged" /\ ~n.waiting
      BY <3>1 DEF Moved, Job
    <3>3. decision \notin {"Update", "Confirm"}
      BY <2>5, <3>2 DEF Decision
    <3>. QED BY <1>4, <2>3, <2>5, <3>2, <3>3 DEF RecordsCommit, OwnPending, is_open, OpenPhases
  <2>6. CASE ~OwnTrial(j, s) /\ ~OwnPending(j, s) /\ ~Unsettled(s) /\ idle /\ s.active = j.image
    <3>1. n = Moved(j, "Failed")
      BY <2>1, <2>6 DEF Progress
    <3>2. n.phase = "Failed" /\ ~n.waiting
      BY <3>1 DEF Moved, Job
    <3>3. decision \notin {"Update", "Confirm"}
      BY <2>6, <3>2 DEF Decision
    <3>. QED BY <1>4, <2>3, <2>6, <3>2, <3>3 DEF RecordsCommit, Unsettled, is_open, OpenPhases
  <2>7. CASE /\ ~OwnTrial(j, s) /\ ~OwnPending(j, s) /\ ~Unsettled(s) /\ idle /\ s.active # j.image
             /\ ~HeldBack(j, changed, due) /\ j.phase \in {"Queued", "Downloading"}
    <3>1. n = Moved(j, "Downloading")
      BY <2>1, <2>7 DEF Progress
    <3>2. n.phase = "Downloading" /\ ~n.waiting
      BY <3>1 DEF Moved, Job
    <3>3. decision # "Confirm"
      BY <2>7, <3>2 DEF Decision
    <3>. QED BY <1>4, <2>2, <2>7, <3>2, <3>3 DEF RecordsCommit
  <2>8. CASE /\ ~OwnTrial(j, s) /\ ~OwnPending(j, s)
             /\ ~(~Unsettled(s) /\ idle /\ s.active = j.image)
             /\ ~(/\ ~Unsettled(s) /\ idle /\ s.active # j.image
                  /\ ~HeldBack(j, changed, due) /\ j.phase \in {"Queued", "Downloading"})
    <3>1. n = [j EXCEPT !.waiting = j.waiting /\ ~changed]
      BY <2>1, <2>8 DEF Progress
    <3>2. n.phase = j.phase /\ (n.waiting => j.waiting /\ ~changed)
      BY <3>1 DEF Job
    <3>3. decision \notin {"Update", "Confirm"}
      BY <2>8, <3>2 DEF Decision
    <3>. QED BY <1>4, <2>8, <3>2, <3>3 DEF RecordsCommit, is_open
  <2>. QED BY <2>4, <2>5, <2>6, <2>7, <2>8
<1>. QED BY <1>1, <1>2, <1>3, <1>4

\* An assignment that was seen on trial cannot be staged again in this boot, nor is it pending
\* without being tried.
LEMMA OwnTrialSeen ==
  ASSUME StoreInv, TrialInv, Observing, is_open(job), tseen.ota, OwnTrial(job, tseen)
  PROVE  (dev.pending = job.id => dev.trial) /\ ~Deliverable(job.id)
<1>1. WorldPart /\ TypeOK /\ JobInv
  BY TrialParts, InvariantParts DEF StoreInv
<1>2. tseen.trial /\ tseen.pending = job.id
  BY DEF OwnTrial
<1>3. job.id \in 1..ids /\ job.id # Direct /\ job.id # 0
  <2>1. job.id \in 0..MaxJobs /\ job.id # 0 /\ job.id <= ids
    BY <1>1 DEF JobInv, JobIsSound, Job, is_open, OpenPhases
  <2>. QED BY <1>1, <2>1, OtaAssumption DEF TypeOK, StoreTypes, Direct
<1>4. tepoch \in Nat /\ dev.epoch \in Nat /\ \A m \in puts : m.epoch \in Nat
  BY <1>1, OtaAssumption DEF TypeOK, TaskTypes, DeviceTypes, Status, NetTypes, Put
<1>5. CASE tepoch = dev.epoch
  <2>1. dev.trial \/ dev.last = job.id
    BY <1>1, <1>2, <1>5 DEF WorldPart, SeenInThisBoot
  <2>2. dev.trial => dev.pending = job.id
    BY <1>1, <1>2, <1>5 DEF WorldPart, SeenInThisBoot
  <2>3. dev.pending = job.id => dev.pending # dev.last
    BY <1>1, <1>3 DEF WorldPart, NoSecondTrial
  <2>. QED BY <1>1, <1>3, <2>1, <2>2, <2>3 DEF WorldPart, DeliveriesAreFresh
<1>6. CASE tepoch < dev.epoch
  <2>1. dev.pending # job.id
    BY <1>1, <1>2, <1>3, <1>6 DEF WorldPart, SeenInEarlierBoot
  <2>2. \A m \in puts : m.epoch # dev.epoch
    BY <1>1, <1>4, <1>6 DEF WorldPart, EpochsInOrder, Observing, Engaged
  <2>3. ~Deliverable(job.id)
    BY <1>4, <1>6, <2>2 DEF Deliverable
  <2>. QED BY <2>1, <2>3
<1>. QED BY <1>1, <1>4, <1>5, <1>6 DEF WorldPart, EpochsInOrder

\* A delivery is only decided for an assignment that the device has not decided, while nothing is on trial.
LEMMA UpdateIsFresh ==
  ASSUME StoreInv, TrialInv, Observing, tepoch = dev.epoch, is_open(job), tseen.ota, ~Unsettled(tseen),
         tseen.active # job.image, tseen.last = job.id => tseen.outcome \notin {"RolledBack", "Failed"}
  PROVE  job.id # dev.last /\ ~dev.trial
<1>1. WorldPart /\ ImagePart /\ TypeOK /\ JobInv
  BY TrialParts, InvariantParts DEF StoreInv
<1>2. job.id \in Nat /\ job.id > 0
  BY <1>1, OtaAssumption DEF JobInv, JobIsSound, Job, is_open, OpenPhases
<1>3. ~dev.trial /\ dev.last = tseen.last /\ dev.outcome = tseen.outcome /\ dev.active = tseen.active
  BY <1>1 DEF WorldPart, SeenInThisBoot
<1>4. dev.outcome \in Outcomes
  BY <1>1 DEF TypeOK, DeviceTypes, Status
<1>5. SUFFICES ASSUME dev.last = job.id PROVE FALSE
  BY <1>3
<1>6. dev.outcome = "Confirmed"
  BY <1>1, <1>2, <1>3, <1>4, <1>5 DEF WorldPart, DeviceIsSound, Outcomes
<1>7. dev.active = job.image
  BY <1>1, <1>2, <1>5, <1>6 DEF ImagePart, HasOneImage
<1>. QED BY <1>3, <1>7

\* What attests a commit to the record attests it to the decision: it has seen the trial or the outcome.
LEMMA AttestedDecision ==
  ASSUME StoreInv, TrialInv, Observing, ~torn, Attested, tseen.ota
  PROVE  /\ RecordsCommit(job)
         /\ \/ tseen.trial /\ tseen.pending = job.id /\ tseen.running = job.image /\ tseen.last # job.id
            \/ tseen.last = job.id /\ tseen.outcome = "Confirmed" /\ tseen.active = job.image
<1>1. WorldPart /\ ImagePart /\ RecordPart /\ TypeOK /\ JobInv
  BY TrialParts, InvariantParts DEF StoreInv
<1>2. RecordsCommit(job)
  BY <1>1 DEF RecordPart, CommitIsRecorded
<1>3. CASE job.id \in committed /\ dev.last = job.id
  BY <1>1, <1>2, <1>3 DEF RecordPart, CommitIsSeen
<1>4. CASE dev.trial /\ dev.pending = job.id /\ \E m \in confirms : m.id = job.id /\ m.epoch = dev.epoch
  <2>1. tepoch \in Nat /\ dev.epoch \in Nat
    BY <1>1, OtaAssumption DEF TypeOK, TaskTypes, DeviceTypes, Status
  <2>2. Engaged
    BY DEF Observing, Engaged
  <2>3. tepoch = dev.epoch
    BY <1>1, <1>4, <2>1, <2>2 DEF WorldPart, EpochsInOrder
  <2>4. tseen.trial /\ tseen.pending = job.id /\ tseen.running = dev.running /\ tseen.last = dev.last
    BY <1>1, <1>4, <2>3 DEF WorldPart, SeenInThisBoot
  <2>5. job.id > 0 /\ job.id # Direct
    <3>1. job.id # 0
      BY <1>1, <1>4 DEF WorldPart, DeviceIsSound
    <3>. QED BY <1>1, <3>1, OtaAssumption DEF JobInv, Job, Direct
  <2>6. dev.running = job.image
    BY <1>1, <1>4, <2>5 DEF WorldPart, DeviceIsSound, ImagePart, HasOneImage
  <2>7. dev.last # job.id
    BY <1>1, <1>4, <2>5 DEF WorldPart, NoSecondTrial
  <2>. QED BY <1>2, <2>4, <2>6, <2>7
<1>. QED BY <1>3, <1>4 DEF Attested, Observing

\* What a decision that got through makes of the record.
LEMMA DecidedRecord ==
  ASSUME StoreInv, TrialInv, Observing, ~torn, NEW idle \in BOOLEAN, NEW due \in BOOLEAN,
         Decided(DecidedJob(job, tseen, Changed, idle, due)), DeviceStays, UNCHANGED netVars, ~Observing',
         tpc' = "update" => /\ Decision(job, tseen, Changed, idle, due) = "Update"
                            /\ tjob'.id = job.id /\ tepoch' = tepoch,
         tpc' = "confirm" => Decision(job, tseen, Changed, idle, due) = "Confirm"
  PROVE  RecordPart'
<1> DEFINE n == DecidedJob(job, tseen, Changed, idle, due)
           decision == Decision(job, tseen, Changed, idle, due)
<1>1. WorldPart /\ RecordPart /\ TypeOK /\ JobInv /\ job \in Job /\ tseen \in Status
  BY TrialParts, InvariantParts DEF StoreInv, TypeOK, StoreTypes, TaskTypes
<1>2. Changed \in BOOLEAN /\ (is_open(job) => job.id # 0)
  BY <1>1 DEF Changed, JobInv, JobIsSound, is_open, OpenPhases
<1>3. /\ n.phase = "Confirming" => job.phase = "Confirming" \/ (is_open(job) /\ tseen.ota /\ OwnTrial(job, tseen))
      /\ n.phase \in {"Queued", "Downloading"} => job.phase \in {"Queued", "Downloading"}
      /\ n.waiting => \/ ~is_open(job) /\ n = job
                      \/ is_open(n) /\ (~tseen.ota \/ (job.waiting /\ ~Changed))
      /\ decision = "Update" => n.phase = "Downloading"
      /\ decision = "Confirm" => n.phase = "Confirming"
      /\ RecordsCommit(job) =>
           \/ RecordsCommit(n)
           \/ /\ tseen.ota
              /\ ~(tseen.trial /\ tseen.pending = job.id /\ tseen.running = job.image /\ tseen.last # job.id)
              /\ ~(tseen.last = job.id /\ tseen.outcome = "Confirmed" /\ tseen.active = job.image)
  BY <1>1, <1>2, DecidedFacts
<1>4. Successor(n)
  BY <1>1, <1>2, DecidedJobIsSuccessor
<1>5. n.id = job.id /\ (is_open(n) => is_open(job))
  BY <1>4 DEF Successor
<1>6. job' = n /\ job_disk' = n /\ obs' = tseen /\ obs_disk' \in {tseen, NoStatus}
  BY <1>1 DEF Decided, SavedIfChanged, RecordPart, FilesAreInStep, Changed
<1>7. FilesAreInStep'
  BY <1>1, <1>3, <1>6 DEF RecordPart, FilesAreInStep, is_open
<1>8. ChangeIsSeen'
  <2>1. SUFFICES ASSUME n.waiting PROVE tseen \in {waited', NoStatus}
    BY <1>6 DEF ChangeIsSeen
  <2>2. is_open(n) /\ is_open(job) /\ (~tseen.ota \/ (job.waiting /\ ~Changed))
    BY <1>1, <1>3, <1>5, <2>1 DEF RecordPart, FilesAreInStep
  <2>3. CASE ~tseen.ota
    <3>1. waited' = tseen
      BY <2>2, <2>3 DEF Decided
    <3>. QED BY <3>1
  <2>4. CASE tseen.ota /\ job.waiting /\ ~Changed
    <3>1. waited' = waited
      BY <2>1, <2>2, <2>4 DEF Decided
    <3>. QED BY <1>1, <2>4, <3>1 DEF RecordPart, ChangeIsSeen, Changed
  <2>. QED BY <2>2, <2>3, <2>4
<1>9. Attested => RecordsCommit(n)
  <2>1. Attested => RecordsCommit(job)
    BY <1>1 DEF RecordPart, CommitIsRecorded
  <2>. QED BY <1>3, <2>1, AttestedDecision
<1>10. \A id : Deliverable(id)' => Deliverable(id) \/ (decision = "Update" /\ id = job.id)
  BY DEF Deliverable, DeviceStays, netVars
<1>11. Attested' => Attested \/ decision = "Confirm"
  BY <1>5, <1>6 DEF Attested, DeviceStays, netVars
<1>12. CommitIsRecorded'
  <2>1. n.phase = "Confirming" => (dev.pending = job.id => dev.trial) /\ ~Deliverable(job.id)
    BY <1>1, <1>3, OwnTrialSeen DEF RecordPart, CommitIsRecorded
  <2>2. \A id : n.phase = "Confirming" /\ id = n.id => ~Deliverable(id)'
    BY <1>3, <1>5, <1>10, <2>1
  <2>3. job.id \in committed => n.phase \notin {"Queued", "Downloading"}
    BY <1>1, <1>3 DEF RecordPart, CommitIsRecorded
  <2>4. \A id \in committed : dev.pending # id /\ ~Deliverable(id)'
    BY <1>1, <1>3, <1>10, <2>3 DEF RecordPart, CommitIsRecorded
  <2>5. Attested' => RecordsCommit(n)
    BY <1>3, <1>9, <1>11 DEF RecordsCommit
  <2>6. dev.last \in committed => dev.outcome = "Confirmed"
    BY <1>1 DEF RecordPart, CommitIsRecorded
  <2>. QED BY <1>5, <1>6, <2>1, <2>2, <2>3, <2>4, <2>5, <2>6 DEF CommitIsRecorded, RecordsCommit, DeviceStays, Deliverable
<1>13. CommitIsSeen'
  BY DEF CommitIsSeen
<1>. QED BY <1>7, <1>8, <1>12, <1>13 DEF RecordPart

\* The decision that hands the assignment to the task.
LEMMA CarriesTrial ==
  ASSUME StoreInv, TrialInv, NEW idle \in BOOLEAN, NEW due \in BOOLEAN, tpc = "observed",
         Decided(DecidedJob(job, tseen, Changed, idle, due)),
         DeviceStays, UNCHANGED netVars, tjob' = [id |-> job.id, image |-> job.image], tseen' = NoStatus, tepoch' = tepoch,
         \/ tpc' = "update" /\ Decision(job, tseen, Changed, idle, due) = "Update"
         \/ tpc' = "confirm" /\ Decision(job, tseen, Changed, idle, due) = "Confirm"
  PROVE  TrialInv'
<1> DEFINE n == DecidedJob(job, tseen, Changed, idle, due)
           decision == Decision(job, tseen, Changed, idle, due)
<1>1. /\ WorldPart /\ ImagePart /\ SuccessPart /\ TypeOK /\ JobInv /\ job \in Job /\ tseen \in Status
  BY TrialParts, InvariantParts DEF StoreInv, TypeOK, StoreTypes, TaskTypes
<1>2. Changed \in BOOLEAN /\ (is_open(job) => job.id # 0)
  BY <1>1 DEF Changed, JobInv, JobIsSound, is_open, OpenPhases
<1>3. /\ n.phase # "Succeeded" /\ is_open(job)
      /\ decision = "Update" => /\ tseen.ota /\ ~Unsettled(tseen) /\ tseen.active # job.image
                                /\ tseen.last = job.id => tseen.outcome \notin {"RolledBack", "Failed"}
  BY <1>1, <1>2, DecidedFacts
<1>4. Successor(n)
  BY <1>1, <1>2, DecidedJobIsSuccessor
<1>5. n.id = job.id /\ n.image = job.image /\ job.id <= ids
  BY <1>1, <1>4 DEF Successor, JobInv, JobIsSound
<1>6. job' = n /\ job_disk' \in {job_disk, n} /\ ids' = ids /\ torn' = torn /\ Observing /\ ~Observing' /\ Engaged
  BY DEF Decided, SavedIfChanged, Observing, Engaged
<1>7. UNCHANGED <<dev, slot, committed, puts, confirms>>
  BY DEF DeviceStays, netVars
<1>8. \A id : Deliverable(id)' => \/ Deliverable(id)
                                  \/ tpc' = "update" /\ tepoch = dev.epoch /\ id = job.id
  BY <1>7 DEF Deliverable
<1>9. tpc' = "update" /\ tepoch = dev.epoch => job.id # dev.last /\ ~dev.trial
  BY <1>3, <1>6, UpdateIsFresh
<1>10. WorldPart'
  <2>1. EpochsInOrder' /\ SeenInThisBoot' /\ SeenInEarlierBoot'
    BY <1>1, <1>6, <1>7 DEF WorldPart, EpochsInOrder, SeenInThisBoot, SeenInEarlierBoot
  <2>2. DeviceIsSound' /\ NoSecondTrial' /\ CommitsAreTrue'
    BY <1>1, <1>5, <1>6, <1>7 DEF WorldPart, DeviceIsSound, NoSecondTrial, CommitsAreTrue, NoStatus
  <2>3. DeliveriesAreFresh'
    BY <1>1, <1>6, <1>7, <1>8, <1>9 DEF WorldPart, DeliveriesAreFresh
  <2>. QED BY <2>1, <2>2, <2>3 DEF WorldPart
<1>11. ImagePart'
  <2>1. job_disk.id = job.id => job_disk.image = job.image
    BY <1>1 DEF JobInv, DiskIsNotBehind, Job
  <2>. QED BY <1>1, <1>5, <1>6, <1>7, <2>1 DEF ImagePart, HasOneImage
<1>12. SuccessPart'
  BY <1>1, <1>3, <1>6, <1>7 DEF SuccessPart, SucceededIsCommitted
<1>13. torn' \/ RecordPart'
  BY <1>6, DecidedRecord
<1>. QED BY <1>10, <1>11, <1>12, <1>13, TrialPartsNext

\* Every other decision leaves nothing behind but the record.
LEMMA DecideTrial ==
  ASSUME StoreInv, TrialInv, NEW idle \in BOOLEAN, NEW due \in BOOLEAN, Decide(idle, due) \/ RecoverDecide(idle, due)
  PROVE  TrialInv'
<1> DEFINE n == DecidedJob(job, tseen, Changed, idle, due)
           decision == Decision(job, tseen, Changed, idle, due)
<1>1. /\ WorldPart /\ ImagePart /\ SuccessPart /\ TypeOK /\ JobInv /\ job \in Job /\ tseen \in Status
  BY TrialParts, InvariantParts DEF StoreInv, TypeOK, StoreTypes, TaskTypes
<1>2. Changed \in BOOLEAN /\ (is_open(job) => job.id # 0)
  BY <1>1 DEF Changed, JobInv, JobIsSound, is_open, OpenPhases
<1>3. DeviceStays /\ UNCHANGED netVars /\ Observing
  BY DEF Decide, RecoverDecide, DeviceStays, deviceVars, Observing
<1>4. Successor(n)
  BY <1>1, <1>2, DecidedJobIsSuccessor
<1>5. n.phase = "Succeeded" => n.id \in committed
  <2>1. n.id = job.id /\ job.id < Direct
    BY <1>1, <1>4, OtaAssumption DEF Successor, Job, Direct
  <2>2. n.phase = "Succeeded" => job.phase = "Succeeded" \/ (tseen.last = job.id /\ tseen.outcome = "Confirmed")
    BY <1>1, <1>2, DecidedFacts
  <2>3. job.id # Direct
    BY <1>1, <2>1, OtaAssumption DEF Job, Direct
  <2>. QED BY <1>1, <2>1, <2>2, <2>3 DEF WorldPart, CommitsAreTrue, SuccessPart, SucceededIsCommitted
<1>6. CASE DecideStops(n) /\ Ends
  <2>1. JobStep(n) /\ torn' /\ ids' = ids
    BY <1>6 DEF DecideStops, SaveFails, JobStep
  <2>2. Shrinks
    BY <1>3, <1>6, EndsShrinks
  <2>. QED BY <1>1, <1>3, <1>4, <1>5, <2>1, <2>2, RecordStep
<1>7. CASE Decided(n) /\ (Ends \/ (tpc' = "failed" /\ UNCHANGED <<tepoch, tseen, tjob, tfail>>))
  <2>1. JobStep(n) /\ ids' = ids /\ torn' = torn
    BY <1>7 DEF Decided, SavedIfChanged, JobStep
  <2>2. Shrinks
    <3>1. CASE Ends
      BY <1>3, <3>1, EndsShrinks
    <3>2. CASE tpc' = "failed" /\ UNCHANGED <<tepoch, tseen, tjob, tfail>>
      BY <1>3, <3>2 DEF Shrinks, Engaged, Observing, netVars
    <3>. QED BY <1>7, <3>1, <3>2
  <2>3. tpc' \in {"none", "failed"} /\ ~Observing'
    BY <1>7 DEF Ends, Observing
  <2>4. torn' \/ RecordPart'
    BY <1>3, <1>7, <2>1, <2>3, DecidedRecord
  <2>. QED BY <1>1, <1>3, <1>4, <1>5, <2>1, <2>2, <2>4, RecordStep
<1>8. CASE /\ Decided(n) /\ Decide(idle, due)
           /\ tjob' = [id |-> job.id, image |-> job.image] /\ tseen' = NoStatus /\ tepoch' = tepoch
           /\ \/ tpc' = "update" /\ decision = "Update"
              \/ tpc' = "confirm" /\ decision = "Confirm"
  BY <1>3, <1>8, CarriesTrial DEF Decide
<1>. QED BY <1>6, <1>7, <1>8 DEF Decide, RecoverDecide

\* A failed delivery is recorded for an assignment that is still to be delivered, so not for one
\* that the device committed.
LEMMA RecordFailureTrial ==
  ASSUME StoreInv, TrialInv, RecordFailure
  PROVE  TrialInv'
<1> DEFINE n == FailedJob(job, tfail)
<1>1. WorldPart /\ (~torn => RecordPart) /\ TypeOK /\ JobInv /\ job \in Job /\ tfail \in Failures /\ tfail # "None"
  BY TrialParts, InvariantParts DEF StoreInv, TypeOK, StoreTypes, TaskTypes, TaskIsBound, RecordFailure
<1>2. UNCHANGED <<obs, obs_disk, ids>> /\ UNCHANGED netVars /\ DeviceStays /\ Shrinks
  BY EndsShrinks DEF RecordFailure, DeviceStays, deviceVars
<1>3. CASE ~FailureApplies
  <2>1. UNCHANGED <<job, job_disk, waited, torn>>
    BY <1>3 DEF RecordFailure
  <2>. QED BY <1>1, <1>2, <2>1, QuietStep
<1>4. CASE FailureApplies
  <2>1. Successor(n) /\ n.id = job.id /\ n.image = job.image
    BY <1>1, <1>4, FailedJobIsSuccessor DEF Successor
  <2>2. job.phase \in {"Queued", "Downloading"}
    BY <1>4 DEF FailureApplies
  <2>3. n.phase \in {"Failed", "Downloading"} /\ (n.waiting => n.phase = "Downloading" /\ tfail = "Unavailable")
    <3>1. CASE tfail = "Rejected"
      BY <1>1, <3>1 DEF FailedJob, Moved, Job
    <3>2. CASE tfail = "Conflict"
      BY <1>1, <3>2 DEF FailedJob, Moved, Job
    <3>3. CASE tfail = "Unavailable"
      BY <1>1, <3>3 DEF FailedJob, Moved, Job
    <3>4. CASE tfail = "Retryable" /\ job.attempts + 1 >= MaxAttempts
      BY <1>1, <3>4 DEF FailedJob, Moved, Job
    <3>5. CASE tfail = "Retryable" /\ ~(job.attempts + 1 >= MaxAttempts)
      BY <1>1, <3>5 DEF FailedJob, Moved, Job
    <3>. QED BY <1>1, <3>1, <3>2, <3>3, <3>4, <3>5 DEF Failures
  <2>4. JobStep(n) /\ (torn' \/ (Saved(n) /\ waited' = IF tfail = "Unavailable" THEN obs ELSE waited))
    BY <1>4 DEF RecordFailure, Saved, SaveFails, JobStep
  <2>5. torn' \/ RecordPart'
    <3>1. SUFFICES ASSUME ~torn' PROVE RecordPart'
      OBVIOUS
    <3>2. job' = n /\ job_disk' = n /\ ~torn /\ RecordPart
      BY <1>1, <2>4, <3>1 DEF Saved
    <3>3. ~Attested
      BY <2>2, <3>2 DEF RecordPart, CommitIsRecorded, RecordsCommit
    <3>4. n.waiting => is_open(n) /\ obs' \in {waited', NoStatus}
      BY <1>2, <2>3, <2>4, <3>1 DEF is_open, OpenPhases
    <3>5. obs_disk' \in {obs', NoStatus}
      BY <1>2, <3>2 DEF RecordPart, FilesAreInStep
    <3>. QED BY <1>2, <2>1, <2>2, <2>3, <3>2, <3>3, <3>4, <3>5, SavedKeepsRecord
  <2>. QED BY <1>1, <1>2, <2>1, <2>3, <2>4, <2>5, RecordStep
<1>. QED BY <1>3, <1>4

\* Staged follows Downloading; succeeded is only reported after a status that says so.
LEMMA ReportTrial ==
  ASSUME StoreInv, TrialInv, ReportStaged \/ ReportSucceeded
  PROVE  TrialInv'
<1>1. WorldPart /\ (~torn => RecordPart) /\ TypeOK /\ JobInv /\ job \in Job
  BY TrialParts, InvariantParts DEF StoreInv, TypeOK, StoreTypes
<1>2. UNCHANGED <<obs, obs_disk, waited, ids>> /\ UNCHANGED netVars /\ DeviceStays /\ Shrinks
  BY EndsShrinks DEF ReportStaged, ReportSucceeded, Report, DeviceStays, deviceVars
<1>3. PICK p, a : Report(p, a) /\ (p = "Staged" \/ (p = "Succeeded" /\ tpc = "verified"))
  BY DEF ReportStaged, ReportSucceeded
<1> DEFINE n == Moved(job, p)
<1>4. CASE ~Reportable(p, a)
  <2>1. job' = job /\ job_disk' \in {job_disk, job} /\ torn' = torn
    BY <1>3, <1>4 DEF Report
  <2>2. JobStep(job) /\ Successor(job)
    BY <1>1, <2>1 DEF JobStep, Successor, JobInv
  <2>3. torn' \/ RecordPart'
    <3>1. CASE ~torn
      <4>1. RecordPart /\ UNCHANGED <<job, job_disk, obs, waited>> /\ obs_disk' = obs_disk
        BY <1>1, <1>2, <2>1, <3>1 DEF RecordPart, FilesAreInStep
      <4>. QED BY <1>2, <4>1, ShrinksKeepsRecord
    <3>. QED BY <2>1, <3>1
  <2>4. job.phase = "Succeeded" => job.id \in committed
    BY TrialParts DEF SuccessPart, SucceededIsCommitted
  <2>. QED BY <1>1, <1>2, <2>2, <2>3, <2>4, RecordStep
<1>5. CASE Reportable(p, a)
  <2>1. /\ is_open(job) /\ p \in OpenPhases \cup TerminalPhases /\ job.id = tjob.id
        /\ p = "Staged" => job.phase = "Downloading"
    BY <1>3, <1>5 DEF Reportable, MayFollow, is_open, OpenPhases, TerminalPhases
  <2>2. Successor(n) /\ n.id = job.id /\ n.image = job.image /\ n.phase = p /\ ~n.waiting
    BY <1>1, <2>1, MovedIsSuccessor, MovedKeeps DEF Moved, Job
  <2>3. JobStep(n) /\ (torn' \/ (job' = n /\ job_disk' = n /\ torn' = torn))
    BY <1>3, <1>5 DEF Report, Saved, SaveFails, JobStep
  <2>4. n.phase = "Succeeded" => n.id \in committed
    <3>1. job.id # Direct
      BY <1>1, OtaAssumption DEF Job, Direct
    <3>. QED BY <1>1, <1>3, <2>1, <2>2, <3>1 DEF WorldPart, CommitsAreTrue
  <2>5. torn' \/ RecordPart'
    <3>1. SUFFICES ASSUME ~torn' PROVE RecordPart'
      OBVIOUS
    <3>2. job' = n /\ job_disk' = n /\ ~torn /\ RecordPart
      BY <1>1, <2>3, <3>1
    <3>3. Attested => RecordsCommit(n)
      BY <1>3, <2>1, <2>2, <3>2 DEF RecordPart, CommitIsRecorded, RecordsCommit
    <3>4. obs_disk' \in {obs', NoStatus}
      BY <1>2, <3>2 DEF RecordPart, FilesAreInStep
    <3>. QED BY <1>2, <1>3, <2>2, <3>2, <3>3, <3>4, SavedKeepsRecord
  <2>. QED BY <1>1, <1>2, <2>2, <2>3, <2>4, <2>5, RecordStep
<1>. QED BY <1>4, <1>5

-----------------------------------------------------------------------------
(***************************************************************************)
(* Server and device together.                                             *)
(***************************************************************************)
\* Every step keeps what server and device know of each other.
LEMMA TrialStep ==
  ASSUME StoreInv, TrialInv, [Next]_vars
  PROVE  TrialInv'
<1>1. CASE Store
  <2>1. Uploads \subseteq Images
    BY OtaAssumption
  <2>2. ASSUME NEW i \in Uploads, PutImage(i) \/ PutImageFails(i) \/ DeleteImage(i) \/ DeleteImageFails(i)
        PROVE  TrialInv'
    BY <2>2, LibraryTrial DEF PutImage, PutImageFails, DeleteImage, DeleteImageFails
  <2>. QED BY <1>1, <2>1, <2>2, QueueTrial, CancelTrial, RestartTrial DEF Store
<1>2. CASE Task
  BY <1>2, AnnounceTrial, ObserveTrial, DecideTrial, PushTrial, GivingUpTrial, RecoverTrial, RecordFailureTrial,
     ReportTrial, SendConfirmTrial, VerifyTrial DEF Task
<1>3. CASE Device
  <2>1. DirectImages \subseteq Images
    BY OtaAssumption
  <2>. QED BY <1>3, <2>1, BootTrial, DirectUploadTrial, DirectConfirmTrial, StagesTrial, RefusalTrial, CommitsTrial
           DEF Device
<1>4. CASE UNCHANGED vars
  BY <1>4, LibraryTrial DEF vars
<1>. QED BY <1>1, <1>2, <1>3, <1>4 DEF Next

\* Before the first boot is announced nobody knows anything.
LEMMA InitialTrial == Init => TrialInv
<1> SUFFICES ASSUME Init PROVE TrialInv
  OBVIOUS
<1>1. /\ dev.epoch = 1 /\ dev.pending = 0 /\ dev.last = 0 /\ ~dev.trial /\ dev.outcome = "None"
  BY DEF Init, NoStatus
<1>2. job.id = 0 /\ job.phase = "None" /\ ~job.waiting
  BY DEF Init, NoJob
<1>3. ~is_open(job)
  BY <1>2 DEF is_open, OpenPhases
<1>4. WorldPart
  <2>1. EpochsInOrder /\ DeviceIsSound /\ NoSecondTrial
    BY <1>1 DEF Init, EpochsInOrder, DeviceIsSound, NoSecondTrial, NoStatus, Engaged, Observing
  <2>2. DeliveriesAreFresh /\ SeenInThisBoot /\ SeenInEarlierBoot /\ CommitsAreTrue
    BY <1>1 DEF Init, DeliveriesAreFresh, SeenInThisBoot, SeenInEarlierBoot, CommitsAreTrue, NoStatus, Observing
  <2>. QED BY <2>1, <2>2 DEF WorldPart
<1>5. ImagePart /\ SuccessPart
  BY <1>2 DEF Init, ImagePart, HasOneImage, SuccessPart, SucceededIsCommitted
<1>6. RecordPart
  BY <1>1, <1>2 DEF Init, RecordPart, FilesAreInStep, ChangeIsSeen, CommitIsRecorded, CommitIsSeen, Attested,
                    Deliverable, Observing
<1>. QED BY <1>4, <1>5, <1>6, TrialParts

\* An update is recorded as succeeded only if the device committed it, is tried once, and a parked
\* assignment sees the device change, for any number of boots, assignments, failed writes and restarts.
THEOREM TrialInvariant == Spec => []TrialInv
<1>1. StoreInv /\ StoreInv' /\ TrialInv /\ [Next]_vars => TrialInv'
  BY TrialStep
<1>. QED BY InitialTrial, StoreInvariant, <1>1, PTL DEF Spec

\* The verdict of the server is the verdict of the device: no success without a commit, and no
\* failure after one as long as every write got through.
THEOREM ConfirmationsAreExact == Spec => []ConfirmationIsExact
<1>1. TrialInv => ConfirmationIsExact
  BY DEF TrialInv
<1>. QED BY TrialInvariant, <1>1, PTL

\* Timeouts, lost answers and late images never make the device try an update it has decided.
THEOREM UpdatesAreTriedOnce == Spec => []NoSecondTrial
<1>1. TrialInv => NoSecondTrial
  BY DEF TrialInv
<1>. QED BY TrialInvariant, <1>1, PTL

-----------------------------------------------------------------------------
(***************************************************************************)
(* SerialHub: OutputFollows and InputFollows say where the bytes of the    *)
(* output and the chunks of the input are, place by place.                 *)
(***************************************************************************)
Chunks == Consoles \X Nat

OutputTyped ==
  /\ past \in Seq(Nat) /\ Len(past) <= HistoryBytes /\ recorded \in 0..MaxOutputs
  /\ printer \in [Consoles -> {"none", "replay", "live", "done"}] /\ skipped \in [Consoles -> BOOLEAN]
  /\ replay \in [Consoles -> Seq(Nat)] /\ got \in [Consoles -> Seq(Nat)] /\ next \in [Consoles -> Nat]

InputTyped ==
  /\ typed \in [Consoles -> Nat] /\ pipe \in [Consoles -> Seq(Chunks)] /\ held \in [Consoles -> Seq(Chunks)]
  /\ waiting \in Seq(Chunks) /\ Len(waiting) <= InputChunks /\ delivered \in Seq(Chunks)
  /\ \A c \in Consoles : Len(held[c]) <= 1

OthersTyped ==
  /\ listener \in {"accept", "serve", "close", "gone"} /\ accepted \in 0..MaxConnections
  /\ console \in [Consoles -> {"none", "open", "dropped"}] /\ closing \in [Consoles -> BOOLEAN]

\* A sequence holds the numbers up to last.
EndsWith(s, last) == Len(s) <= last /\ \A i \in 1..Len(s) : s[i] = last - Len(s) + i

\* What the console of an attachment has got and will get from the history.
Rises(s, bound) ==
  /\ \A i \in 1..Len(s) : s[i] < bound
  /\ \A i \in 1..(Len(s) - 1) : s[i] < s[i + 1]

OutputFollows ==
  /\ EndsWith(past, recorded)
  /\ \A c \in Consoles :
       /\ printer[c] = "none" <=> console[c] = "none"
       /\ printer[c] = "none" => got[c] = <<>> /\ ~skipped[c]
       /\ printer[c] # "replay" => replay[c] = <<>>
       /\ next[c] <= recorded + 1
       /\ printer[c] \in {"replay", "live"} =>
            /\ next[c] > 0 /\ Rises(got[c] \o replay[c], next[c])
            /\ ~skipped[c] => EndsWith(got[c] \o replay[c], next[c] - 1)

\* The chunks of a console that one place has are earlier than those another one has.
Elements(s) == {s[i] : i \in DOMAIN s}
Precede(s, t, c) == \A x \in Elements(s), y \in Elements(t) : x[1] = c /\ y[1] = c => x[2] < y[2]
UpTo(s, c, n) == \A x \in Elements(s) : x[1] = c => x[2] <= n
OnlyOf(s, c) == \A x \in Elements(s) : x[1] = c

InputFollows ==
  \A c \in Consoles :
    /\ OnlyOf(held[c], c) /\ OnlyOf(pipe[c], c)
    /\ InOrder(delivered, c) /\ InOrder(waiting, c) /\ InOrder(held[c], c) /\ InOrder(pipe[c], c)
    /\ Precede(delivered, waiting, c) /\ Precede(delivered, held[c], c) /\ Precede(delivered, pipe[c], c)
    /\ Precede(waiting, held[c], c) /\ Precede(waiting, pipe[c], c) /\ Precede(held[c], pipe[c], c)
    /\ UpTo(delivered, c, typed[c]) /\ UpTo(waiting, c, typed[c]) /\ UpTo(held[c], c, typed[c])
    /\ UpTo(pipe[c], c, typed[c])

HubIInv == OutputTyped /\ InputTyped /\ OthersTyped /\ OutputFollows /\ InputFollows

-----------------------------------------------------------------------------
(***************************************************************************)
(* Order in sequences of chunks                                            *)
(***************************************************************************)
LEMMA CatIsInOrder ==
  ASSUME NEW s \in Seq(Chunks), NEW t \in Seq(Chunks), NEW c
  PROVE  InOrder(s \o t, c) <=> InOrder(s, c) /\ InOrder(t, c) /\ Precede(s, t, c)
<1>1. /\ s \o t \in Seq(Chunks) /\ Len(s \o t) = Len(s) + Len(t) /\ Len(s) \in Nat /\ Len(t) \in Nat
      /\ \A i \in 1..Len(s) + Len(t) : (s \o t)[i] = IF i <= Len(s) THEN s[i] ELSE t[i - Len(s)]
      /\ DOMAIN s = 1..Len(s) /\ DOMAIN t = 1..Len(t) /\ DOMAIN (s \o t) = 1..Len(s) + Len(t)
  BY ConcatProperties, LenProperties
<1>. DEFINE u == s \o t
<1>2. /\ \A i \in 1..Len(s) : u[i] = s[i] /\ i \in 1..Len(s) + Len(t)
      /\ \A j \in 1..Len(t) : u[j + Len(s)] = t[j] /\ j + Len(s) \in 1..Len(s) + Len(t)
  BY <1>1
<1>3. DOMAIN u = 1..Len(s) + Len(t)
  BY <1>1
<1>. HIDE DEF u
<1>4. ASSUME InOrder(u, c) PROVE InOrder(s, c) /\ InOrder(t, c) /\ Precede(s, t, c)
  <2>1. InOrder(s, c)
    BY <1>1, <1>2, <1>3, <1>4 DEF InOrder
  <2>2. InOrder(t, c)
    <3>. SUFFICES ASSUME NEW i \in 1..Len(t), NEW j \in 1..Len(t), i < j, t[i][1] = c, t[j][1] = c PROVE t[i][2] < t[j][2]
      BY <1>1 DEF InOrder
    <3>1. i + Len(s) \in DOMAIN u /\ j + Len(s) \in DOMAIN u /\ i + Len(s) < j + Len(s)
      BY <1>1, <1>2, <1>3
    <3>2. u[i + Len(s)] = t[i] /\ u[j + Len(s)] = t[j]
      BY <1>2
    <3>. QED BY <1>4, <3>1, <3>2 DEF InOrder
  <2>3. Precede(s, t, c)
    <3>. SUFFICES ASSUME NEW i \in 1..Len(s), NEW j \in 1..Len(t), s[i][1] = c, t[j][1] = c PROVE s[i][2] < t[j][2]
      BY <1>1 DEF Precede, Elements
    <3>1. i \in DOMAIN u /\ j + Len(s) \in DOMAIN u /\ i < j + Len(s)
      BY <1>1, <1>2, <1>3
    <3>2. u[i] = s[i] /\ u[j + Len(s)] = t[j]
      BY <1>2
    <3>. QED BY <1>4, <3>1, <3>2 DEF InOrder
  <2>. QED BY <2>1, <2>2, <2>3
<1>5. ASSUME InOrder(s, c), InOrder(t, c), Precede(s, t, c) PROVE InOrder(u, c)
  <2>. SUFFICES ASSUME NEW i \in 1..Len(s) + Len(t), NEW j \in 1..Len(s) + Len(t), i < j, u[i][1] = c, u[j][1] = c
                PROVE  u[i][2] < u[j][2]
    BY <1>3 DEF InOrder
  <2>1. u[i] = (IF i <= Len(s) THEN s[i] ELSE t[i - Len(s)]) /\ u[j] = (IF j <= Len(s) THEN s[j] ELSE t[j - Len(s)])
    BY <1>1 DEF u
  <2>2. CASE j <= Len(s)
    BY <1>1, <1>5, <2>1, <2>2 DEF InOrder
  <2>3. CASE i <= Len(s) /\ j > Len(s)
    <3>1. i \in DOMAIN s /\ j - Len(s) \in DOMAIN t
      BY <1>1, <2>3
    <3>2. u[i] = s[i] /\ u[j] = t[j - Len(s)]
      BY <1>1, <2>1, <2>3
    <3>3. s[i] \in Elements(s) /\ t[j - Len(s)] \in Elements(t)
      BY <3>1 DEF Elements
    <3>. QED BY <1>5, <3>2, <3>3 DEF Precede
  <2>4. CASE i > Len(s)
    <3>1. i - Len(s) \in DOMAIN t /\ j - Len(s) \in DOMAIN t /\ i - Len(s) < j - Len(s)
      BY <1>1, <2>4
    <3>2. u[i] = t[i - Len(s)] /\ u[j] = t[j - Len(s)]
      BY <1>1, <2>1, <2>4
    <3>. QED BY <1>5, <3>1, <3>2 DEF InOrder
  <2>. QED BY <1>1, <2>2, <2>3, <2>4
<1>. QED BY <1>4, <1>5 DEF u

LEMMA CatHasBoth ==
  ASSUME NEW s \in Seq(Chunks), NEW t \in Seq(Chunks)
  PROVE  Elements(s \o t) = Elements(s) \cup Elements(t)
<1>1. /\ Len(s) \in Nat /\ Len(t) \in Nat
      /\ \A i \in 1..Len(s) + Len(t) : (s \o t)[i] = IF i <= Len(s) THEN s[i] ELSE t[i - Len(s)]
      /\ DOMAIN s = 1..Len(s) /\ DOMAIN t = 1..Len(t) /\ DOMAIN (s \o t) = 1..Len(s) + Len(t)
  BY ConcatProperties, LenProperties
<1>. DEFINE w == s \o t
<1>2. /\ \A i \in DOMAIN s : i \in DOMAIN w /\ w[i] = s[i]
      /\ \A j \in DOMAIN t : j + Len(s) \in DOMAIN w /\ w[j + Len(s)] = t[j]
      /\ \A k \in DOMAIN w : (k \in DOMAIN s /\ w[k] = s[k]) \/ (k - Len(s) \in DOMAIN t /\ w[k] = t[k - Len(s)])
  BY <1>1
<1>. HIDE DEF w
<1>3. ASSUME NEW x \in Elements(w) PROVE x \in Elements(s) \cup Elements(t)
  <2>1. PICK k \in DOMAIN w : x = w[k]
    BY DEF Elements
  <2>. QED BY <1>2, <2>1 DEF Elements
<1>4. ASSUME NEW x \in Elements(s) PROVE x \in Elements(w)
  <2>1. PICK k \in DOMAIN s : x = s[k]
    BY DEF Elements
  <2>. QED BY <1>2, <2>1 DEF Elements
<1>5. ASSUME NEW x \in Elements(t) PROVE x \in Elements(w)
  <2>1. PICK k \in DOMAIN t : x = t[k]
    BY DEF Elements
  <2>2. x = w[k + Len(s)] /\ k + Len(s) \in DOMAIN w
    BY <1>2, <2>1
  <2>. QED BY <2>2 DEF Elements
<1>. QED BY <1>3, <1>4, <1>5 DEF w

LEMMA CatPrecedes ==
  ASSUME NEW s \in Seq(Chunks), NEW t \in Seq(Chunks), NEW u, NEW c, NEW n
  PROVE  /\ Precede(s \o t, u, c) <=> Precede(s, u, c) /\ Precede(t, u, c)
         /\ Precede(u, s \o t, c) <=> Precede(u, s, c) /\ Precede(u, t, c)
         /\ UpTo(s \o t, c, n) <=> UpTo(s, c, n) /\ UpTo(t, c, n)
         /\ OnlyOf(s \o t, c) <=> OnlyOf(s, c) /\ OnlyOf(t, c)
  BY CatHasBoth DEF Precede, UpTo, OnlyOf

LEMMA EmptyIsInOrder ==
  ASSUME NEW s, NEW c, NEW n
  PROVE  /\ InOrder(<<>>, c) /\ UpTo(<<>>, c, n) /\ OnlyOf(<<>>, c)
         /\ Precede(<<>>, s, c) /\ Precede(s, <<>>, c)
<1>1. DOMAIN <<>> = {}
  OBVIOUS
<1>2. Elements(<<>>) = {}
  BY <1>1 DEF Elements
<1>3. InOrder(<<>>, c)
  BY <1>1 DEF InOrder
<1>. QED BY <1>2, <1>3 DEF UpTo, OnlyOf, Precede

\* A chunk of one console says nothing of the others.
LEMMA OthersChunk ==
  ASSUME NEW s, NEW t, NEW c, NEW d, c # d, OnlyOf(s, c), NEW n
  PROVE  InOrder(s, d) /\ UpTo(s, d, n) /\ Precede(s, t, d) /\ Precede(t, s, d)
  BY DEF OnlyOf, InOrder, UpTo, Precede, Elements

LEMMA HeadAndTail ==
  ASSUME NEW S, NEW s \in Seq(S), s # <<>>
  PROVE  <<Head(s)>> \in Seq(S) /\ Tail(s) \in Seq(S) /\ s = <<Head(s)>> \o Tail(s) /\ Len(s) = Len(Tail(s)) + 1
<1>1. Head(s) \in S /\ Tail(s) \in Seq(S) /\ Len(Tail(s)) = Len(s) - 1 /\ \A i \in 1..Len(Tail(s)) : Tail(s)[i] = s[i + 1]
  BY HeadTailProperties
<1>2. Len(s) \in Nat \ {0}
  BY EmptySeq
<1>. DEFINE h == <<Head(s)>>
            t == Tail(s)
<1>3. h \in Seq(S) /\ Len(h) = 1 /\ h[1] = s[1]
  BY <1>1, <1>2
<1>. HIDE DEF h, t
<1>4. t \in Seq(S) /\ Len(t) = Len(s) - 1 /\ \A i \in 1..Len(t) : t[i] = s[i + 1]
  BY <1>1 DEF t
<1>5. h \o t \in Seq(S) /\ Len(h \o t) = Len(h) + Len(t)
      /\ \A i \in 1..Len(h) + Len(t) : (h \o t)[i] = IF i <= Len(h) THEN h[i] ELSE t[i - Len(h)]
  <2>1. h \in Seq(S) /\ t \in Seq(S)
    BY <1>3, <1>4
  <2>. QED BY <2>1, ConcatProperties, Zenon
<1>6. Len(h \o t) = Len(s) /\ \A i \in 1..Len(s) : (h \o t)[i] = s[i]
  BY <1>2, <1>3, <1>4, <1>5
<1>7. h \o t = s
  BY <1>5, <1>6, SeqEqual
<1>. QED BY <1>1, <1>2, <1>3, <1>7 DEF h, t

LEMMA AppendIsCat ==
  ASSUME NEW S, NEW s \in Seq(S), NEW e \in S
  PROVE  /\ <<e>> \in Seq(S) /\ Append(s, e) = s \o <<e>> /\ Append(s, e) \in Seq(S) /\ Len(Append(s, e)) = Len(s) + 1
         /\ \A i \in 1..Len(s) + 1 : Append(s, e)[i] = IF i <= Len(s) THEN s[i] ELSE e
<1>1. <<e>> \in Seq(S) /\ Len(<<e>>) = 1 /\ <<e>>[1] = e /\ Len(s) \in Nat
  BY LenProperties
<1>2. Append(s, e) \in Seq(S) /\ Len(Append(s, e)) = Len(s) + 1
      /\ \A i \in 1..Len(s) + 1 : Append(s, e)[i] = IF i <= Len(s) THEN s[i] ELSE e
  BY <1>1
<1>. DEFINE h == <<e>>
<1>3. h \in Seq(S) /\ Len(h) = 1 /\ h[1] = e
  BY <1>1
<1>. HIDE DEF h
<1>4. s \o h \in Seq(S) /\ Len(s \o h) = Len(s) + Len(h)
      /\ \A i \in 1..Len(s) + Len(h) : (s \o h)[i] = IF i <= Len(s) THEN s[i] ELSE h[i - Len(s)]
  BY <1>3, ConcatProperties, Zenon
<1>5. Len(s \o h) = Len(Append(s, e)) /\ \A i \in 1..Len(Append(s, e)) : Append(s, e)[i] = (s \o h)[i]
  BY <1>1, <1>2, <1>3, <1>4
<1>6. Append(s, e) = s \o h
  BY <1>2, <1>4, <1>5, SeqEqual
<1>. QED BY <1>1, <1>2, <1>6 DEF h

LEMMA OneChunk ==
  ASSUME NEW e \in Chunks, NEW c
  PROVE  Elements(<<e>>) = {e} /\ InOrder(<<e>>, c)
<1>1. DOMAIN <<e>> = {1} /\ <<e>>[1] = e
  OBVIOUS
<1>. QED BY <1>1 DEF Elements, InOrder

-----------------------------------------------------------------------------
(***************************************************************************)
(* Numbers in sequences                                                    *)
(***************************************************************************)
LEMMA EndsIsFromTo ==
  ASSUME NEW s \in Seq(Nat), NEW n \in Nat, EndsWith(s, n)
  PROVE  s = FromTo(n - Len(s) + 1, n) /\ Rises(s, n + 1)
<1>1. Len(s) \in Nat /\ s = [i \in 1..Len(s) |-> s[i]]
  BY LenProperties
<1>2. n - (n - Len(s) + 1) + 1 = Len(s)
  BY <1>1
<1>3. \A i \in 1..Len(s) : s[i] = n - Len(s) + 1 + i - 1
  BY <1>1 DEF EndsWith
<1>4. FromTo(n - Len(s) + 1, n) = [i \in 1..Len(s) |-> n - Len(s) + 1 + i - 1]
  BY <1>2 DEF FromTo
<1>5. Rises(s, n + 1)
  <2>1. Len(s) \in Nat /\ \A i \in 1..Len(s) : s[i] = n - Len(s) + i
    BY <1>1 DEF EndsWith
  <2>2. ASSUME NEW i \in 1..(Len(s) - 1) PROVE s[i] < s[i + 1]
    <3>1. i \in 1..Len(s) /\ i + 1 \in 1..Len(s)
      BY <2>1
    <3>2. s[i] = n - Len(s) + i /\ s[i + 1] = n - Len(s) + (i + 1)
      BY <2>1, <3>1
    <3>. QED BY <2>1, <3>2
  <2>. QED BY <2>1, <2>2 DEF Rises
<1>. QED BY <1>1, <1>3, <1>4, <1>5

LEMMA AppendEnds ==
  ASSUME NEW s \in Seq(Nat), NEW n \in Nat, NEW m \in Nat, m = n + 1
  PROVE  /\ EndsWith(s, n) => EndsWith(Append(s, m), m)
         /\ Rises(s, m) => Rises(Append(s, m), m + 1)
<1>1. Len(s) \in Nat /\ Len(Append(s, m)) = Len(s) + 1 /\ \A i \in 1..Len(s) : s[i] \in Nat
  BY LenProperties, AppendIsCat
<1>2. \A i \in 1..Len(s) + 1 : Append(s, m)[i] = IF i <= Len(s) THEN s[i] ELSE m
  BY AppendIsCat
<1>. DEFINE t == Append(s, m)
<1>. HIDE DEF t
<1>3. Len(t) = Len(s) + 1 /\ \A i \in 1..Len(s) + 1 : t[i] = IF i <= Len(s) THEN s[i] ELSE m
  BY <1>1, <1>2 DEF t
<1>4. EndsWith(s, n) => EndsWith(t, m)
  BY <1>1, <1>3 DEF EndsWith
<1>5. ASSUME Rises(s, m) PROVE Rises(t, m + 1)
  <2>1. \A i \in 1..Len(t) : t[i] < m + 1
    BY <1>1, <1>3, <1>5 DEF Rises
  <2>2. ASSUME NEW i \in 1..(Len(t) - 1) PROVE t[i] < t[i + 1]
    <3>1. i \in 1..Len(s) /\ i + 1 \in 1..Len(s) + 1 /\ t[i] = s[i]
      BY <1>1, <1>3
    <3>2. CASE i + 1 <= Len(s)
      <4>1. i \in 1..(Len(s) - 1) /\ t[i + 1] = s[i + 1]
        BY <1>1, <1>3, <3>1, <3>2
      <4>. QED BY <1>5, <3>1, <4>1 DEF Rises
    <3>3. CASE i = Len(s)
      BY <1>1, <1>3, <1>5, <3>1, <3>3 DEF Rises
    <3>. QED BY <1>1, <3>1, <3>2, <3>3
  <2>. QED BY <2>1, <2>2 DEF Rises
<1>. QED BY <1>4, <1>5 DEF t

LEMMA TailEnds ==
  ASSUME NEW s \in Seq(Nat), NEW n \in Nat, s # <<>>, EndsWith(s, n)
  PROVE  Tail(s) \in Seq(Nat) /\ Len(Tail(s)) = Len(s) - 1 /\ EndsWith(Tail(s), n)
<1>1. Tail(s) \in Seq(Nat) /\ Len(Tail(s)) = Len(s) - 1 /\ \A i \in 1..Len(Tail(s)) : Tail(s)[i] = s[i + 1]
  BY HeadTailProperties
<1>2. Len(s) \in Nat \ {0}
  BY EmptySeq
<1>. QED BY <1>1, <1>2 DEF EndsWith

-----------------------------------------------------------------------------
(***************************************************************************)
(* The output                                                              *)
(***************************************************************************)
LEMMA OutputStays ==
  ASSUME OutputTyped, OutputFollows, UNCHANGED <<console, outputVars>>
  PROVE  OutputTyped' /\ OutputFollows'
  BY DEF OutputTyped, OutputFollows, outputVars, Rises, EndsWith

LEMMA InputStays ==
  ASSUME InputTyped, InputFollows, UNCHANGED inputVars
  PROVE  InputTyped' /\ InputFollows'
  BY DEF InputTyped, InputFollows, inputVars, InOrder, Precede, UpTo, OnlyOf, Elements

\* A step of one attachment.
LEMMA OutputStep ==
  ASSUME OutputFollows, NEW c \in Consoles, UNCHANGED <<past, recorded>>,
         \A d \in Consoles : d # c => /\ console'[d] = console[d] /\ printer'[d] = printer[d] /\ got'[d] = got[d]
                                     /\ replay'[d] = replay[d] /\ next'[d] = next[d] /\ skipped'[d] = skipped[d],
         printer'[c] = "none" <=> console'[c] = "none",
         printer'[c] = "none" => got'[c] = <<>> /\ ~skipped'[c],
         printer'[c] # "replay" => replay'[c] = <<>>,
         next'[c] <= recorded + 1,
         printer'[c] \in {"replay", "live"} =>
           /\ next'[c] > 0 /\ Rises(got'[c] \o replay'[c], next'[c])
           /\ ~skipped'[c] => EndsWith(got'[c] \o replay'[c], next'[c] - 1)
  PROVE  OutputFollows'
<1>1. EndsWith(past, recorded)'
  BY DEF OutputFollows, EndsWith
<1>2. ASSUME NEW d \in Consoles
      PROVE  /\ printer'[d] = "none" <=> console'[d] = "none"
             /\ printer'[d] = "none" => got'[d] = <<>> /\ ~skipped'[d]
             /\ printer'[d] # "replay" => replay'[d] = <<>>
             /\ next'[d] <= recorded + 1
             /\ printer'[d] \in {"replay", "live"} =>
                  /\ next'[d] > 0 /\ Rises(got'[d] \o replay'[d], next'[d])
                  /\ ~skipped'[d] => EndsWith(got'[d] \o replay'[d], next'[d] - 1)
  BY DEF OutputFollows
<1>. QED BY <1>1, <1>2 DEF OutputFollows, Rises, EndsWith

LEMMA RecordsKeeps == ASSUME HubIInv, Records PROVE OutputTyped' /\ OutputFollows'
<1>. DEFINE all == Append(past, recorded + 1)
<1>1. recorded \in Nat /\ recorded + 1 \in Nat /\ past \in Seq(Nat) /\ EndsWith(past, recorded) /\ Len(past) <= HistoryBytes
  BY SerialHubAssumption DEF HubIInv, OutputTyped, OutputFollows
<1>2. all \in Seq(Nat) /\ Len(all) = Len(past) + 1 /\ EndsWith(all, recorded + 1)
  BY <1>1, AppendIsCat, AppendEnds
<1>3. past' = (IF Len(all) > HistoryBytes THEN Tail(all) ELSE all) /\ recorded' = recorded + 1 /\ recorded < MaxOutputs
      /\ UNCHANGED <<console, printer, replay, next, got, skipped>>
  BY DEF Records
<1>4. HistoryBytes \in Nat \ {0} /\ MaxOutputs \in Nat
  BY SerialHubAssumption
<1>. HIDE DEF all
<1>5. all # <<>> /\ Len(past) \in Nat
  BY <1>1, <1>2, EmptySeq, LenProperties
<1>6. past' \in Seq(Nat) /\ Len(past') <= HistoryBytes /\ EndsWith(past', recorded')
  BY <1>1, <1>2, <1>3, <1>4, <1>5, TailEnds
<1>7. OutputTyped'
  BY <1>1, <1>3, <1>4, <1>6 DEF HubIInv, OutputTyped
<1>8. \A c \in Consoles : next[c] \in Nat /\ (next[c] <= recorded + 1 => next'[c] <= recorded' + 1)
  BY <1>1, <1>3 DEF HubIInv, OutputTyped
<1>9. EndsWith(past, recorded)'
  BY <1>6 DEF EndsWith
<1>10. ASSUME NEW c \in Consoles
      PROVE  /\ printer'[c] = "none" <=> console'[c] = "none"
             /\ printer'[c] = "none" => got'[c] = <<>> /\ ~skipped'[c]
             /\ printer'[c] # "replay" => replay'[c] = <<>>
             /\ next'[c] <= recorded' + 1
             /\ printer'[c] \in {"replay", "live"} =>
                  /\ next'[c] > 0 /\ Rises(got'[c] \o replay'[c], next'[c])
                  /\ ~skipped'[c] => EndsWith(got'[c] \o replay'[c], next'[c] - 1)
  BY <1>3, <1>8 DEF HubIInv, OutputFollows
<1>. QED BY <1>7, <1>9, <1>10 DEF OutputFollows, Rises, EndsWith

LEMMA AttachKeeps == ASSUME HubIInv, NEW c \in Consoles, Attach(c) PROVE OutputTyped' /\ OutputFollows' /\ OthersTyped'
<1>1. /\ console[c] = "none" /\ console' = [console EXCEPT ![c] = "open"] /\ printer' = [printer EXCEPT ![c] = "replay"]
      /\ replay' = [replay EXCEPT ![c] = past] /\ next' = [next EXCEPT ![c] = recorded + 1]
      /\ UNCHANGED <<listener, accepted, closing, past, recorded, got, skipped>>
  BY DEF Attach
<1>2. recorded \in Nat /\ past \in Seq(Nat) /\ EndsWith(past, recorded) /\ got[c] = <<>> /\ ~skipped[c]
  BY <1>1, SerialHubAssumption DEF HubIInv, OutputTyped, OutputFollows
<1>3. OutputTyped' /\ OthersTyped'
  BY <1>1, <1>2 DEF HubIInv, OutputTyped, OthersTyped
<1>4. /\ console'[c] = "open" /\ printer'[c] = "replay" /\ replay'[c] = past /\ next'[c] = recorded + 1
      /\ got'[c] = <<>> /\ ~skipped'[c]
  BY <1>1, <1>2 DEF HubIInv, OutputTyped, OthersTyped
<1>5. \A d \in Consoles : d # c => /\ console'[d] = console[d] /\ printer'[d] = printer[d] /\ got'[d] = got[d]
                                  /\ replay'[d] = replay[d] /\ next'[d] = next[d] /\ skipped'[d] = skipped[d]
  BY <1>1 DEF HubIInv, OutputTyped, OthersTyped
<1>6. got'[c] \o replay'[c] = past /\ Rises(past, recorded + 1) /\ recorded + 1 - 1 = recorded
  BY <1>2, <1>4, ConcatEmptySeq, EndsIsFromTo
<1>7. /\ next'[c] <= recorded + 1 /\ next'[c] > 0 /\ Rises(got'[c] \o replay'[c], next'[c])
      /\ EndsWith(got'[c] \o replay'[c], next'[c] - 1)
  BY <1>2, <1>4, <1>6
<1>8. OutputFollows /\ UNCHANGED <<past, recorded>> /\ printer'[c] # "none" /\ console'[c] # "none" /\ printer'[c] = "replay"
  BY <1>1, <1>4 DEF HubIInv
<1>9. OutputFollows'
  BY <1>5, <1>7, <1>8, OutputStep
<1>. QED BY <1>3, <1>9

LEMMA ReplaysKeeps == ASSUME HubIInv, NEW c \in Consoles, Replays(c) PROVE OutputTyped' /\ OutputFollows'
<1>1. /\ printer[c] = "replay" /\ got' = [got EXCEPT ![c] = @ \o replay[c]] /\ replay' = [replay EXCEPT ![c] = <<>>]
      /\ printer' = [printer EXCEPT ![c] = "live"] /\ UNCHANGED <<console, past, recorded, next, skipped>>
  BY DEF Replays
<1>2. got[c] \in Seq(Nat) /\ replay[c] \in Seq(Nat) /\ got[c] \o replay[c] \in Seq(Nat)
  BY ConcatProperties DEF HubIInv, OutputTyped
<1>3. OutputTyped'
  BY <1>1, <1>2 DEF HubIInv, OutputTyped
<1>4. /\ printer'[c] = "live" /\ replay'[c] = <<>> /\ got'[c] = got[c] \o replay[c]
      /\ console'[c] = console[c] /\ next'[c] = next[c] /\ skipped'[c] = skipped[c]
  BY <1>1 DEF HubIInv, OutputTyped
<1>5. \A d \in Consoles : d # c => /\ console'[d] = console[d] /\ printer'[d] = printer[d] /\ got'[d] = got[d]
                                  /\ replay'[d] = replay[d] /\ next'[d] = next[d] /\ skipped'[d] = skipped[d]
  BY <1>1 DEF HubIInv, OutputTyped
<1>6. got'[c] \o replay'[c] = got[c] \o replay[c]
  BY <1>2, <1>4, ConcatEmptySeq
<1>7. /\ console[c] # "none" /\ next[c] <= recorded + 1 /\ next[c] > 0 /\ Rises(got[c] \o replay[c], next[c])
      /\ ~skipped[c] => EndsWith(got[c] \o replay[c], next[c] - 1)
  BY <1>1 DEF HubIInv, OutputFollows
<1>. QED BY <1>1, <1>3, <1>4, <1>5, <1>6, <1>7, OutputStep DEF HubIInv

LEMMA ReceivesKeeps == ASSUME HubIInv, NEW c \in Consoles, Receives(c) PROVE OutputTyped' /\ OutputFollows'
<1>1. printer[c] = "live" /\ next[c] <= recorded /\ UNCHANGED <<console, past, recorded, printer, replay>>
  BY DEF Receives
<1>2. /\ got[c] \in Seq(Nat) /\ replay[c] = <<>> /\ got[c] \o replay[c] = got[c] /\ next[c] \in Nat /\ recorded \in Nat
      /\ console[c] # "none" /\ next[c] > 0 /\ Rises(got[c], next[c]) /\ (~skipped[c] => EndsWith(got[c], next[c] - 1))
  <2>1. /\ got[c] \in Seq(Nat) /\ replay[c] = <<>> /\ next[c] \in Nat /\ recorded \in Nat
        /\ console[c] # "none" /\ next[c] > 0 /\ Rises(got[c] \o replay[c], next[c])
        /\ (~skipped[c] => EndsWith(got[c] \o replay[c], next[c] - 1))
    BY <1>1, SerialHubAssumption DEF HubIInv, OutputTyped, OutputFollows
  <2>. QED BY <2>1, ConcatEmptySeq
<1>3. Backlog \in Nat \ {0}
  BY SerialHubAssumption
<1>4. CASE /\ recorded - next[c] >= Backlog
           /\ next' = [next EXCEPT ![c] = recorded - Backlog + 1] /\ skipped' = [skipped EXCEPT ![c] = TRUE]
           /\ UNCHANGED got
  <2>1. recorded - Backlog + 1 \in Nat /\ recorded - Backlog + 1 > next[c] /\ recorded - Backlog + 1 <= recorded + 1
    BY <1>2, <1>3, <1>4
  <2>2. OutputTyped'
    BY <1>1, <1>4, <2>1 DEF HubIInv, OutputTyped
  <2>3. /\ next'[c] = recorded - Backlog + 1 /\ skipped'[c] /\ got'[c] = got[c] /\ replay'[c] = replay[c]
        /\ printer'[c] = "live" /\ console'[c] = console[c]
    BY <1>1, <1>4 DEF HubIInv, OutputTyped
  <2>4. \A d \in Consoles : d # c => /\ console'[d] = console[d] /\ printer'[d] = printer[d] /\ got'[d] = got[d]
                                    /\ replay'[d] = replay[d] /\ next'[d] = next[d] /\ skipped'[d] = skipped[d]
    BY <1>1, <1>4 DEF HubIInv, OutputTyped
  <2>5. Rises(got[c], next'[c])
    <3>1. Len(got[c]) \in Nat /\ \A i \in 1..Len(got[c]) : got[c][i] \in Nat
      BY <1>2, LenProperties
    <3>2. \A i \in 1..Len(got[c]) : got[c][i] < next'[c]
      BY <1>2, <2>1, <2>3, <3>1 DEF Rises
    <3>. QED BY <1>2, <3>2 DEF Rises
  <2>6. got'[c] \o replay'[c] = got[c] /\ next'[c] <= recorded + 1 /\ next'[c] > 0
    BY <1>2, <2>1, <2>3
  <2>. QED BY <1>1, <1>2, <2>2, <2>3, <2>4, <2>5, <2>6, OutputStep DEF HubIInv
<1>5. CASE /\ recorded - next[c] < Backlog /\ console[c] = "open"
           /\ got' = [got EXCEPT ![c] = Append(@, next[c])] /\ next' = [next EXCEPT ![c] = @ + 1]
           /\ UNCHANGED skipped
  <2>1. Append(got[c], next[c]) \in Seq(Nat) /\ next[c] - 1 \in Nat /\ next[c] = next[c] - 1 + 1 /\ next[c] + 1 \in Nat
    BY <1>2, AppendIsCat
  <2>2. OutputTyped'
    BY <1>1, <1>5, <2>1 DEF HubIInv, OutputTyped
  <2>3. /\ next'[c] = next[c] + 1 /\ skipped'[c] = skipped[c] /\ got'[c] = Append(got[c], next[c]) /\ replay'[c] = <<>>
        /\ printer'[c] = "live" /\ console'[c] = console[c]
    BY <1>1, <1>2, <1>5 DEF HubIInv, OutputTyped
  <2>4. \A d \in Consoles : d # c => /\ console'[d] = console[d] /\ printer'[d] = printer[d] /\ got'[d] = got[d]
                                    /\ replay'[d] = replay[d] /\ next'[d] = next[d] /\ skipped'[d] = skipped[d]
    BY <1>1, <1>5 DEF HubIInv, OutputTyped
  <2>5. Rises(got'[c], next'[c]) /\ (~skipped'[c] => EndsWith(got'[c], next[c]))
    BY <1>2, <2>1, <2>3, AppendEnds
  <2>6. got'[c] \o replay'[c] = got'[c] /\ next'[c] <= recorded + 1 /\ next'[c] > 0 /\ next'[c] - 1 = next[c]
    BY <1>1, <1>2, <2>1, <2>3, ConcatEmptySeq
  <2>. QED BY <1>1, <1>2, <2>2, <2>3, <2>4, <2>5, <2>6, OutputStep DEF HubIInv
<1>. QED BY <1>4, <1>5 DEF Receives

LEMMA PrinterEndsKeeps == ASSUME HubIInv, NEW c \in Consoles, PrinterEnds(c) PROVE OutputTyped' /\ OutputFollows'
<1>1. /\ printer[c] \in {"replay", "live"} /\ printer' = [printer EXCEPT ![c] = "done"]
      /\ replay' = [replay EXCEPT ![c] = <<>>] /\ UNCHANGED <<console, past, recorded, next, got, skipped>>
  BY DEF PrinterEnds
<1>2. OutputTyped'
  BY <1>1 DEF HubIInv, OutputTyped
<1>3. printer'[c] = "done" /\ replay'[c] = <<>> /\ next'[c] = next[c] /\ console'[c] = console[c]
  BY <1>1 DEF HubIInv, OutputTyped
<1>4. \A d \in Consoles : d # c => /\ console'[d] = console[d] /\ printer'[d] = printer[d] /\ got'[d] = got[d]
                                  /\ replay'[d] = replay[d] /\ next'[d] = next[d] /\ skipped'[d] = skipped[d]
  BY <1>1 DEF HubIInv, OutputTyped
<1>5. console[c] # "none" /\ next[c] <= recorded + 1
  BY <1>1 DEF HubIInv, OutputFollows
<1>. QED BY <1>1, <1>2, <1>3, <1>4, <1>5, OutputStep DEF HubIInv

LEMMA DetachKeeps == ASSUME HubIInv, NEW c \in Consoles, Detach(c) PROVE OutputTyped' /\ OutputFollows' /\ OthersTyped'
<1>1. console[c] = "open" /\ console' = [console EXCEPT ![c] = "dropped"] /\ UNCHANGED <<listener, accepted, closing, outputVars>>
  BY DEF Detach
<1>2. OthersTyped'
  BY <1>1 DEF HubIInv, OthersTyped
<1>3. OutputTyped'
  BY <1>1 DEF HubIInv, OutputTyped, outputVars
<1>4. \A d \in Consoles : console'[d] = "none" <=> console[d] = "none"
  BY <1>1 DEF HubIInv, OthersTyped
<1>. QED BY <1>1, <1>2, <1>3, <1>4 DEF HubIInv, OutputFollows, outputVars, EndsWith, Rises

-----------------------------------------------------------------------------
(***************************************************************************)
(* The input                                                               *)
(***************************************************************************)
\* The queue of a connection goes with it.
LEMMA QueueIsGone ==
  ASSUME InputTyped, InputFollows, waiting' = <<>>, UNCHANGED <<typed, pipe, held, delivered>>
  PROVE  InputTyped' /\ InputFollows'
<1>1. InputTyped'
  <2>1. <<>> \in Seq(Chunks) /\ Len(<<>>) = 0 /\ InputChunks \in Nat
    BY SerialHubAssumption, EmptySeq
  <2>. QED BY <2>1 DEF InputTyped
<1>2. InputFollows'
  <2>1. ASSUME NEW c \in Consoles, NEW s, NEW n
        PROVE  InOrder(waiting', c) /\ UpTo(waiting', c, n) /\ Precede(waiting', s, c) /\ Precede(s, waiting', c)
    BY EmptyIsInOrder
  <2>2. ASSUME NEW c \in Consoles
        PROVE  /\ OnlyOf(held[c], c) /\ OnlyOf(pipe[c], c)
               /\ InOrder(delivered, c) /\ InOrder(waiting', c) /\ InOrder(held[c], c) /\ InOrder(pipe[c], c)
               /\ Precede(delivered, waiting', c) /\ Precede(delivered, held[c], c) /\ Precede(delivered, pipe[c], c)
               /\ Precede(waiting', held[c], c) /\ Precede(waiting', pipe[c], c) /\ Precede(held[c], pipe[c], c)
               /\ UpTo(delivered, c, typed[c]) /\ UpTo(waiting', c, typed[c]) /\ UpTo(held[c], c, typed[c])
               /\ UpTo(pipe[c], c, typed[c])
    BY <2>1 DEF InputFollows
  <2>. QED BY <2>2 DEF InputFollows, InOrder, Precede, UpTo, OnlyOf, Elements
<1>. QED BY <1>1, <1>2

LEMMA PassesInputKeeps == ASSUME InputTyped, InputFollows, PassesInput PROVE InputTyped' /\ InputFollows'
<1>. DEFINE h == <<Head(waiting)>>
            t == Tail(waiting)
<1>1. waiting # <<>> /\ waiting' = t /\ delivered' = Append(delivered, Head(waiting)) /\ UNCHANGED <<typed, pipe, held>>
  BY DEF PassesInput
<1>2. /\ waiting \in Seq(Chunks) /\ delivered \in Seq(Chunks) /\ Len(waiting) <= InputChunks /\ Len(waiting) \in Nat
      /\ \A c \in Consoles : held[c] \in Seq(Chunks) /\ pipe[c] \in Seq(Chunks)
  BY LenProperties DEF InputTyped
<1>3. h \in Seq(Chunks) /\ t \in Seq(Chunks) /\ waiting = h \o t /\ Len(waiting) = Len(t) + 1 /\ Head(waiting) \in Chunks
  BY <1>1, <1>2, HeadAndTail, HeadTailProperties
<1>4. delivered' = delivered \o h /\ delivered' \in Seq(Chunks)
  BY <1>1, <1>2, <1>3, AppendIsCat
<1>5. Len(t) \in Nat /\ InputChunks \in Nat
  BY <1>3, LenProperties, SerialHubAssumption
<1>. HIDE DEF h, t
<1>6. InputTyped'
  BY <1>1, <1>2, <1>3, <1>4, <1>5 DEF InputTyped
<1>7. ASSUME NEW c \in Consoles
      PROVE  /\ InOrder(delivered \o h, c) /\ InOrder(t, c) /\ Precede(delivered \o h, t, c)
             /\ Precede(delivered \o h, held[c], c) /\ Precede(delivered \o h, pipe[c], c)
             /\ Precede(t, held[c], c) /\ Precede(t, pipe[c], c)
             /\ UpTo(delivered \o h, c, typed[c]) /\ UpTo(t, c, typed[c])
  <2>1. /\ InOrder(delivered, c) /\ InOrder(h \o t, c) /\ Precede(delivered, h \o t, c)
        /\ Precede(delivered, held[c], c) /\ Precede(delivered, pipe[c], c)
        /\ Precede(h \o t, held[c], c) /\ Precede(h \o t, pipe[c], c)
        /\ UpTo(delivered, c, typed[c]) /\ UpTo(h \o t, c, typed[c])
    BY <1>3 DEF InputFollows
  <2>2. InOrder(h, c) /\ InOrder(t, c) /\ Precede(h, t, c)
    BY <1>3, <2>1, CatIsInOrder
  <2>3. /\ Precede(delivered, h, c) /\ Precede(delivered, t, c) /\ UpTo(h, c, typed[c]) /\ UpTo(t, c, typed[c])
        /\ Precede(h, held[c], c) /\ Precede(t, held[c], c) /\ Precede(h, pipe[c], c) /\ Precede(t, pipe[c], c)
    BY <1>3, <2>1, CatPrecedes
  <2>4. InOrder(delivered \o h, c)
    BY <1>2, <1>3, <2>1, <2>2, <2>3, CatIsInOrder
  <2>5. /\ Precede(delivered \o h, t, c) /\ Precede(delivered \o h, held[c], c) /\ Precede(delivered \o h, pipe[c], c)
        /\ UpTo(delivered \o h, c, typed[c])
    BY <1>2, <1>3, <2>1, <2>2, <2>3, CatPrecedes
  <2>. QED BY <2>2, <2>3, <2>4, <2>5
<1>8. InputFollows'
  <2>1. ASSUME NEW c \in Consoles
        PROVE  /\ OnlyOf(held[c], c) /\ OnlyOf(pipe[c], c)
               /\ InOrder(delivered', c) /\ InOrder(waiting', c) /\ InOrder(held[c], c) /\ InOrder(pipe[c], c)
               /\ Precede(delivered', waiting', c) /\ Precede(delivered', held[c], c) /\ Precede(delivered', pipe[c], c)
               /\ Precede(waiting', held[c], c) /\ Precede(waiting', pipe[c], c) /\ Precede(held[c], pipe[c], c)
               /\ UpTo(delivered', c, typed[c]) /\ UpTo(waiting', c, typed[c]) /\ UpTo(held[c], c, typed[c])
               /\ UpTo(pipe[c], c, typed[c])
    BY <1>1, <1>4, <1>7 DEF InputFollows
  <2>. QED BY <1>1, <2>1 DEF InputFollows, InOrder, Precede, UpTo, OnlyOf, Elements
<1>. QED BY <1>6, <1>8

\* A chunk of console c moves or is new: those of the others stay where they are.
LEMMA TypesKeeps == ASSUME InputTyped, InputFollows, NEW c \in Consoles, Types(c) PROVE InputTyped' /\ InputFollows'
<1>. DEFINE e == <<c, typed[c] + 1>>
            one == <<e>>
<1>1. typed' = [typed EXCEPT ![c] = @ + 1] /\ pipe' = [pipe EXCEPT ![c] = Append(@, e)] /\ UNCHANGED <<held, waiting, delivered>>
  BY DEF Types
<1>2. /\ waiting \in Seq(Chunks) /\ delivered \in Seq(Chunks) /\ held[c] \in Seq(Chunks) /\ pipe[c] \in Seq(Chunks)
      /\ typed[c] \in Nat
  BY DEF InputTyped
<1>2b. typed[c] \in Nat
  BY <1>2
<1>2a. e \in Chunks /\ e[1] = c /\ e[2] = typed[c] + 1
  BY <1>2 DEF Chunks
<1>. HIDE DEF e
<1>3. /\ one \in Seq(Chunks) /\ Append(pipe[c], e) = pipe[c] \o one /\ Append(pipe[c], e) \in Seq(Chunks)
      /\ Elements(one) = {e} /\ InOrder(one, c)
  <2>1. one \in Seq(Chunks) /\ Append(pipe[c], e) = pipe[c] \o one /\ Append(pipe[c], e) \in Seq(Chunks)
    BY <1>2, <1>2a, AppendIsCat, ZenonT(40)
  <2>2. Elements(one) = {e} /\ InOrder(one, c)
    BY <1>2a, OneChunk, Zenon
  <2>. QED BY <2>1, <2>2
<1>. HIDE DEF one
<1>4. InputTyped'
  <2>1. typed' \in [Consoles -> Nat]
    BY <1>1, <1>2 DEF InputTyped
  <2>2. pipe' \in [Consoles -> Seq(Chunks)]
    BY <1>1, <1>3 DEF InputTyped
  <2>. QED BY <1>1, <2>1, <2>2 DEF InputTyped
<1>5. \A s \in Seq(Chunks) : \A x \in Elements(s) : x \in Chunks /\ x[2] \in Nat
  BY DEF Elements, Chunks
<1>6. ASSUME NEW s \in Seq(Chunks), UpTo(s, c, typed[c]) PROVE Precede(s, one, c) /\ UpTo(s, c, typed[c] + 1)
  <2>1. \A x \in Elements(s) : x[2] \in Nat /\ (x[1] = c => x[2] <= typed[c])
    BY <1>5, <1>6 DEF UpTo
  <2>2. ASSUME NEW n \in Nat, NEW m \in Nat, n <= m PROVE n < m + 1 /\ n <= m + 1
    BY <2>2
  <2>3. \A x \in Elements(s) : x[1] = c => x[2] < typed[c] + 1 /\ x[2] <= typed[c] + 1
    BY <1>2b, <2>1, <2>2, Zenon
  <2>. QED BY <1>2a, <1>3, <2>3 DEF Precede, UpTo
<1>7. /\ OnlyOf(pipe[c] \o one, c) /\ InOrder(pipe[c] \o one, c) /\ UpTo(pipe[c] \o one, c, typed[c] + 1)
      /\ Precede(delivered, pipe[c] \o one, c) /\ Precede(waiting, pipe[c] \o one, c) /\ Precede(held[c], pipe[c] \o one, c)
  <2>1. OnlyOf(one, c) /\ UpTo(one, c, typed[c] + 1)
    <3>1. typed[c] + 1 <= typed[c] + 1
      BY <1>2
    <3>. QED BY <1>2a, <1>3, <3>1 DEF OnlyOf, UpTo
  <2>2. /\ OnlyOf(pipe[c], c) /\ InOrder(pipe[c], c) /\ UpTo(pipe[c], c, typed[c])
        /\ Precede(delivered, pipe[c], c) /\ Precede(waiting, pipe[c], c) /\ Precede(held[c], pipe[c], c)
        /\ UpTo(delivered, c, typed[c]) /\ UpTo(waiting, c, typed[c]) /\ UpTo(held[c], c, typed[c])
    BY DEF InputFollows
  <2>3. /\ Precede(pipe[c], one, c) /\ UpTo(pipe[c], c, typed[c] + 1)
        /\ Precede(delivered, one, c) /\ Precede(waiting, one, c) /\ Precede(held[c], one, c)
    BY <1>2, <1>6, <2>2
  <2>4. InOrder(pipe[c] \o one, c)
    BY <1>2, <1>3, <2>2, <2>3, CatIsInOrder, Zenon
  <2>5. OnlyOf(pipe[c] \o one, c) /\ UpTo(pipe[c] \o one, c, typed[c] + 1)
    BY <1>2, <1>3, <2>1, <2>2, <2>3, CatPrecedes
  <2>6. ASSUME NEW u, Precede(u, pipe[c], c), Precede(u, one, c) PROVE Precede(u, pipe[c] \o one, c)
    BY <1>2, <1>3, <2>6, CatPrecedes
  <2>. QED BY <2>2, <2>3, <2>4, <2>5, <2>6
<1>8. UpTo(delivered, c, typed[c] + 1) /\ UpTo(waiting, c, typed[c] + 1) /\ UpTo(held[c], c, typed[c] + 1)
  BY <1>2, <1>6 DEF InputFollows
<1>9. /\ pipe'[c] = pipe[c] \o one /\ typed'[c] = typed[c] + 1
      /\ \A d \in Consoles : d # c => pipe'[d] = pipe[d] /\ typed'[d] = typed[d]
  BY <1>1, <1>3 DEF InputTyped
<1>10. ASSUME NEW d \in Consoles
       PROVE  /\ OnlyOf(held[d], d) /\ OnlyOf(pipe'[d], d)
              /\ InOrder(delivered, d) /\ InOrder(waiting, d) /\ InOrder(held[d], d) /\ InOrder(pipe'[d], d)
              /\ Precede(delivered, waiting, d) /\ Precede(delivered, held[d], d) /\ Precede(delivered, pipe'[d], d)
              /\ Precede(waiting, held[d], d) /\ Precede(waiting, pipe'[d], d) /\ Precede(held[d], pipe'[d], d)
              /\ UpTo(delivered, d, typed'[d]) /\ UpTo(waiting, d, typed'[d]) /\ UpTo(held[d], d, typed'[d])
              /\ UpTo(pipe'[d], d, typed'[d])
  <2>1. CASE d = c
    BY <1>7, <1>8, <1>9, <2>1 DEF InputFollows
  <2>2. CASE d # c
    BY <1>9, <2>2 DEF InputFollows
  <2>. QED BY <2>1, <2>2
<1>11. InputFollows'
  BY <1>1, <1>10 DEF InputFollows, InOrder, Precede, UpTo, OnlyOf, Elements
<1>. QED BY <1>4, <1>11

LEMMA ReadsKeeps == ASSUME InputTyped, InputFollows, NEW c \in Consoles, Reads(c) PROVE InputTyped' /\ InputFollows'
<1>. DEFINE h == <<Head(pipe[c])>>
            t == Tail(pipe[c])
<1>1. /\ pipe[c] # <<>> /\ held' = [held EXCEPT ![c] = h] /\ pipe' = [pipe EXCEPT ![c] = t]
      /\ UNCHANGED <<typed, waiting, delivered>>
  BY DEF Reads
<1>2. pipe[c] \in Seq(Chunks) /\ waiting \in Seq(Chunks) /\ delivered \in Seq(Chunks)
  BY DEF InputTyped
<1>3. h \in Seq(Chunks) /\ t \in Seq(Chunks) /\ pipe[c] = h \o t /\ Len(h) = 1
  BY <1>1, <1>2, HeadAndTail
<1>. HIDE DEF h, t
<1>4. InputTyped'
  <2>1. held' \in [Consoles -> Seq(Chunks)] /\ pipe' \in [Consoles -> Seq(Chunks)]
    BY <1>1, <1>3 DEF InputTyped
  <2>2. ASSUME NEW d \in Consoles PROVE Len(held'[d]) <= 1
    <3>1. held'[d] = (IF d = c THEN h ELSE held[d]) /\ Len(held[d]) <= 1
      BY <1>1 DEF InputTyped
    <3>. QED BY <1>3, <3>1
  <2>. QED BY <1>1, <2>1, <2>2 DEF InputTyped
<1>5. held'[c] = h /\ pipe'[c] = t /\ \A d \in Consoles : d # c => held'[d] = held[d] /\ pipe'[d] = pipe[d]
  BY <1>1 DEF InputTyped
<1>6. /\ OnlyOf(h, c) /\ OnlyOf(t, c) /\ InOrder(h, c) /\ InOrder(t, c) /\ Precede(h, t, c)
      /\ Precede(delivered, h, c) /\ Precede(delivered, t, c) /\ Precede(waiting, h, c) /\ Precede(waiting, t, c)
      /\ UpTo(h, c, typed[c]) /\ UpTo(t, c, typed[c])
  <2>1. /\ OnlyOf(h \o t, c) /\ InOrder(h \o t, c) /\ UpTo(h \o t, c, typed[c])
        /\ Precede(delivered, h \o t, c) /\ Precede(waiting, h \o t, c)
    BY <1>3 DEF InputFollows
  <2>2. InOrder(h, c) /\ InOrder(t, c) /\ Precede(h, t, c)
    BY <1>3, <2>1, CatIsInOrder
  <2>. QED BY <1>3, <2>1, <2>2, CatPrecedes
<1>7. ASSUME NEW d \in Consoles
      PROVE  /\ OnlyOf(held'[d], d) /\ OnlyOf(pipe'[d], d)
             /\ InOrder(delivered, d) /\ InOrder(waiting, d) /\ InOrder(held'[d], d) /\ InOrder(pipe'[d], d)
             /\ Precede(delivered, waiting, d) /\ Precede(delivered, held'[d], d) /\ Precede(delivered, pipe'[d], d)
             /\ Precede(waiting, held'[d], d) /\ Precede(waiting, pipe'[d], d) /\ Precede(held'[d], pipe'[d], d)
             /\ UpTo(delivered, d, typed[d]) /\ UpTo(waiting, d, typed[d]) /\ UpTo(held'[d], d, typed[d])
             /\ UpTo(pipe'[d], d, typed[d])
  <2>1. CASE d = c
    BY <1>5, <1>6, <2>1 DEF InputFollows
  <2>2. CASE d # c
    BY <1>5, <2>2 DEF InputFollows
  <2>. QED BY <2>1, <2>2
<1>8. InputFollows'
  BY <1>1, <1>7 DEF InputFollows, InOrder, Precede, UpTo, OnlyOf, Elements
<1>. QED BY <1>4, <1>8

LEMMA GivesKeeps == ASSUME InputTyped, InputFollows, NEW c \in Consoles, Gives(c) PROVE InputTyped' /\ InputFollows'
<1>. DEFINE h == held[c]
<1>1. /\ Len(waiting) < InputChunks /\ waiting' = waiting \o h /\ held' = [held EXCEPT ![c] = <<>>]
      /\ UNCHANGED <<typed, pipe, delivered>>
  BY DEF Gives
<1>2. /\ waiting \in Seq(Chunks) /\ delivered \in Seq(Chunks) /\ h \in Seq(Chunks) /\ Len(h) <= 1
      /\ \A d \in Consoles : held[d] \in Seq(Chunks) /\ pipe[d] \in Seq(Chunks)
  BY DEF InputTyped
<1>. HIDE DEF h
<1>3. waiting \o h \in Seq(Chunks) /\ Len(waiting \o h) <= InputChunks
  <2>1. waiting \o h \in Seq(Chunks) /\ Len(waiting \o h) = Len(waiting) + Len(h)
    BY <1>2, ConcatProperties
  <2>2. Len(waiting) \in Nat /\ Len(h) \in Nat /\ InputChunks \in Nat
    BY <1>2, LenProperties, SerialHubAssumption
  <2>. QED BY <1>1, <1>2, <2>1, <2>2
<1>4. InputTyped'
  <2>1. held' \in [Consoles -> Seq(Chunks)]
    BY <1>1, EmptySeq DEF InputTyped
  <2>2. \A d \in Consoles : Len(held'[d]) <= 1
    BY <1>1, EmptySeq DEF InputTyped
  <2>. QED BY <1>1, <1>3, <2>1, <2>2 DEF InputTyped
<1>5. held'[c] = <<>> /\ \A d \in Consoles : d # c => held'[d] = held[d]
  BY <1>1 DEF InputTyped
<1>6. /\ InOrder(waiting \o h, c) /\ UpTo(waiting \o h, c, typed[c])
      /\ Precede(delivered, waiting \o h, c) /\ Precede(waiting \o h, pipe[c], c)
  <2>1. /\ InOrder(waiting, c) /\ InOrder(h, c) /\ Precede(waiting, h, c)
        /\ Precede(delivered, waiting, c) /\ Precede(delivered, h, c)
        /\ Precede(waiting, pipe[c], c) /\ Precede(h, pipe[c], c)
        /\ UpTo(waiting, c, typed[c]) /\ UpTo(h, c, typed[c])
    BY DEF InputFollows, h
  <2>2. InOrder(waiting \o h, c)
    BY <1>2, <2>1, CatIsInOrder
  <2>. QED BY <1>2, <2>1, <2>2, CatPrecedes
\* To another console the queue is what it was.
<1>7. ASSUME NEW d \in Consoles, d # c
      PROVE  /\ InOrder(waiting \o h, d) /\ UpTo(waiting \o h, d, typed[d])
             /\ Precede(delivered, waiting \o h, d) /\ Precede(waiting \o h, held[d], d)
             /\ Precede(waiting \o h, pipe[d], d)
  <2>1. /\ InOrder(waiting, d) /\ UpTo(waiting, d, typed[d]) /\ Precede(delivered, waiting, d)
        /\ Precede(waiting, held[d], d) /\ Precede(waiting, pipe[d], d)
    BY DEF InputFollows
  <2>2. OnlyOf(h, c)
    BY DEF InputFollows, h
  <2>3. ASSUME NEW s, NEW n PROVE InOrder(h, d) /\ UpTo(h, d, n) /\ Precede(h, s, d) /\ Precede(s, h, d)
    BY <1>7, <2>2 DEF OnlyOf, InOrder, UpTo, Precede, Elements
  <2>4. InOrder(waiting \o h, d)
    BY <1>2, <2>1, <2>3, CatIsInOrder
  <2>5. UpTo(waiting \o h, d, typed[d]) /\ Precede(delivered, waiting \o h, d)
    BY <1>2, <2>1, <2>3, CatPrecedes
  <2>6. Precede(waiting \o h, held[d], d) /\ Precede(waiting \o h, pipe[d], d)
    BY <1>2, <2>1, <2>3, CatPrecedes
  <2>. QED BY <2>4, <2>5, <2>6
<1>8. ASSUME NEW d \in Consoles
      PROVE  /\ OnlyOf(held'[d], d) /\ OnlyOf(pipe[d], d)
             /\ InOrder(delivered, d) /\ InOrder(waiting', d) /\ InOrder(held'[d], d) /\ InOrder(pipe[d], d)
             /\ Precede(delivered, waiting', d) /\ Precede(delivered, held'[d], d) /\ Precede(delivered, pipe[d], d)
             /\ Precede(waiting', held'[d], d) /\ Precede(waiting', pipe[d], d) /\ Precede(held'[d], pipe[d], d)
             /\ UpTo(delivered, d, typed[d]) /\ UpTo(waiting', d, typed[d]) /\ UpTo(held'[d], d, typed[d])
             /\ UpTo(pipe[d], d, typed[d])
  <2>1. CASE d = c
    <3>1. ASSUME NEW s, NEW n
          PROVE  /\ InOrder(held'[c], c) /\ UpTo(held'[c], c, n) /\ OnlyOf(held'[c], c)
                 /\ Precede(held'[c], s, c) /\ Precede(s, held'[c], c)
      BY <1>5, EmptyIsInOrder
    <3>. QED BY <1>1, <1>6, <2>1, <3>1 DEF InputFollows
  <2>2. CASE d # c
    BY <1>1, <1>5, <1>7, <2>2 DEF InputFollows
  <2>. QED BY <2>1, <2>2
<1>9. InputFollows'
  <2>1. UNCHANGED <<typed, pipe, delivered>>
    BY <1>1
  <2>. QED BY <1>8, <2>1 DEF InputFollows, InOrder, Precede, UpTo, OnlyOf, Elements
<1>. QED BY <1>4, <1>9

-----------------------------------------------------------------------------
(***************************************************************************)
(* The theorem                                                             *)
(***************************************************************************)
LEMMA HubInitSound == HubInit => HubIInv
<1>. SUFFICES ASSUME HubInit PROVE HubIInv
  OBVIOUS
<1>0. <<>> \in Seq(Nat) /\ <<>> \in Seq(Chunks) /\ Len(<<>>) = 0
  BY EmptySeq
<1>1. OutputTyped
  BY <1>0, SerialHubAssumption DEF HubInit, OutputTyped
<1>2. InputTyped
  BY <1>0, SerialHubAssumption DEF HubInit, InputTyped
<1>3. OthersTyped
  BY SerialHubAssumption DEF HubInit, OthersTyped
<1>4. OutputFollows
  <2>1. EndsWith(past, recorded)
    BY <1>0 DEF HubInit, EndsWith
  <2>2. ASSUME NEW c \in Consoles
        PROVE  /\ printer[c] = "none" /\ console[c] = "none" /\ got[c] = <<>> /\ ~skipped[c] /\ replay[c] = <<>>
               /\ next[c] <= recorded + 1
    BY DEF HubInit
  <2>. QED BY <2>1, <2>2 DEF OutputFollows
<1>5. InputFollows
  <2>1. ASSUME NEW c \in Consoles PROVE held[c] = <<>> /\ pipe[c] = <<>> /\ waiting = <<>> /\ delivered = <<>>
    BY DEF HubInit
  <2>2. DOMAIN <<>> = {}
    OBVIOUS
  <2>3. ASSUME NEW c \in Consoles
        PROVE  /\ DOMAIN held[c] = {} /\ DOMAIN pipe[c] = {} /\ DOMAIN waiting = {} /\ DOMAIN delivered = {}
               /\ Elements(held[c]) = {} /\ Elements(pipe[c]) = {} /\ Elements(waiting) = {} /\ Elements(delivered) = {}
    BY <2>1, <2>2 DEF Elements
  <2>. QED BY <2>3 DEF InputFollows, InOrder, Precede, UpTo, OnlyOf
<1>. QED BY <1>1, <1>2, <1>3, <1>4, <1>5 DEF HubIInv

\* Where the output is untouched, or the input.
LEMMA HubNextSound == ASSUME HubIInv, [HubNext]_hubVars PROVE HubIInv'
<1>0. OutputTyped /\ InputTyped /\ OthersTyped /\ OutputFollows /\ InputFollows
  BY DEF HubIInv
<1>1. CASE UNCHANGED hubVars
  <2>1. UNCHANGED <<console, outputVars>> /\ UNCHANGED inputVars
    BY <1>1 DEF hubVars
  <2>2. OthersTyped'
    BY <1>0, <1>1 DEF hubVars, OthersTyped
  <2>. QED BY <1>0, <2>1, <2>2, OutputStays, InputStays DEF HubIInv
<1>2. CASE Accepts \/ Breaks \/ Shutdown
  <2>1. UNCHANGED <<console, outputVars>> /\ waiting' = <<>> /\ UNCHANGED <<typed, pipe, held, delivered>>
    BY <1>2 DEF Accepts, Breaks, Shutdown
  <2>2. OthersTyped'
    BY <1>0, <1>2, SerialHubAssumption DEF Accepts, Breaks, Shutdown, OthersTyped
  <2>. QED BY <1>0, <2>1, <2>2, OutputStays, QueueIsGone DEF HubIInv
<1>3. CASE Disconnects
  <2>1. UNCHANGED <<console, outputVars>> /\ UNCHANGED inputVars
    BY <1>3 DEF Disconnects
  <2>2. OthersTyped'
    BY <1>0, <1>3 DEF Disconnects, OthersTyped
  <2>. QED BY <1>0, <2>1, <2>2, OutputStays, InputStays DEF HubIInv
<1>4. CASE Records
  <2>1. UNCHANGED inputVars /\ UNCHANGED <<listener, accepted, console, closing>>
    BY <1>4 DEF Records
  <2>2. OthersTyped'
    BY <1>0, <2>1 DEF OthersTyped
  <2>. QED BY <1>0, <1>4, <2>1, <2>2, RecordsKeeps, InputStays DEF HubIInv
<1>5. CASE PassesInput
  <2>1. UNCHANGED <<listener, accepted, console, closing>> /\ UNCHANGED <<console, outputVars>>
    BY <1>5 DEF PassesInput
  <2>2. OthersTyped'
    BY <1>0, <2>1 DEF OthersTyped
  <2>. QED BY <1>0, <1>5, <2>1, <2>2, PassesInputKeeps, OutputStays DEF HubIInv
<1>6. ASSUME NEW c \in Consoles, Attach(c) PROVE HubIInv'
  <2>1. UNCHANGED inputVars
    BY <1>6 DEF Attach
  <2>. QED BY <1>0, <1>6, <2>1, AttachKeeps, InputStays DEF HubIInv
<1>7. ASSUME NEW c \in Consoles, Replays(c) \/ Receives(c) \/ PrinterEnds(c) PROVE HubIInv'
  <2>1. UNCHANGED inputVars /\ UNCHANGED <<listener, accepted, console, closing>>
    BY <1>7 DEF Replays, Receives, PrinterEnds
  <2>2. OthersTyped'
    BY <1>0, <2>1 DEF OthersTyped
  <2>3. OutputTyped' /\ OutputFollows'
    BY <1>7, ReplaysKeeps, ReceivesKeeps, PrinterEndsKeeps
  <2>. QED BY <1>0, <2>1, <2>2, <2>3, InputStays DEF HubIInv
<1>8. ASSUME NEW c \in Consoles, Types(c) \/ Reads(c) \/ Gives(c) PROVE HubIInv'
  <2>1. UNCHANGED <<listener, accepted, console, closing>> /\ UNCHANGED <<console, outputVars>>
    BY <1>8 DEF Types, Reads, Gives
  <2>2. OthersTyped'
    BY <1>0, <2>1 DEF OthersTyped
  <2>3. InputTyped' /\ InputFollows'
    BY <1>0, <1>8, TypesKeeps, ReadsKeeps, GivesKeeps
  <2>. QED BY <1>0, <2>1, <2>2, <2>3, OutputStays DEF HubIInv
<1>9. ASSUME NEW c \in Consoles, Detach(c) PROVE HubIInv'
  <2>1. UNCHANGED inputVars
    BY <1>9 DEF Detach
  <2>. QED BY <1>0, <1>9, <2>1, DetachKeeps, InputStays DEF HubIInv
<1>10. ASSUME NEW c \in Consoles, InputEnds(c) PROVE HubIInv'
  <2>1. UNCHANGED <<console, outputVars>> /\ UNCHANGED inputVars
    BY <1>10 DEF InputEnds
  <2>2. OthersTyped'
    BY <1>0, <1>10 DEF InputEnds, OthersTyped
  <2>. QED BY <1>0, <2>1, <2>2, OutputStays, InputStays DEF HubIInv
<1>. QED BY <1>1, <1>2, <1>3, <1>4, <1>5, <1>6, <1>7, <1>8, <1>9, <1>10 DEF HubNext

LEMMA HubIInvIsEnough == ASSUME HubIInv PROVE HubInv
<1>0. OutputTyped /\ InputTyped /\ OthersTyped /\ OutputFollows /\ InputFollows
  BY DEF HubIInv
<1>1. HubTypeOK
  <2>1. ASSUME NEW c \in Consoles PROVE next[c] \in 0..(MaxOutputs + 1)
    BY <1>0, SerialHubAssumption DEF OutputTyped, OutputFollows
  <2>2. next \in [Consoles -> 0..(MaxOutputs + 1)]
    BY <1>0, <2>1 DEF OutputTyped
  <2>. QED BY <1>0, <2>2 DEF HubTypeOK, OutputTyped, InputTyped, OthersTyped
<1>2. OutputIsSeamless
  <2>1. past = FromTo(recorded - Len(past) + 1, recorded)
    BY <1>0, EndsIsFromTo DEF OutputTyped, OutputFollows
  <2>2. ASSUME NEW c \in Consoles, printer[c] \in {"replay", "live"}, NEW seen, seen = got[c] \o replay[c]
        PROVE  IF skipped[c] THEN \A i \in 1..(Len(seen) - 1) : seen[i] < seen[i + 1]
               ELSE seen = FromTo(next[c] - Len(seen), next[c] - 1)
    <3>1. seen \in Seq(Nat) /\ next[c] \in Nat /\ Len(seen) \in Nat
      <4>1. got[c] \in Seq(Nat) /\ replay[c] \in Seq(Nat) /\ next[c] \in Nat
        BY <1>0 DEF OutputTyped
      <4>. QED BY <2>2, <4>1, ConcatProperties, LenProperties
    <3>2. next[c] > 0 /\ Rises(seen, next[c]) /\ (~skipped[c] => EndsWith(seen, next[c] - 1))
      BY <1>0, <2>2 DEF OutputFollows
    <3>3. next[c] - 1 \in Nat /\ next[c] - 1 - Len(seen) + 1 = next[c] - Len(seen)
      BY <3>1, <3>2
    <3>4. CASE skipped[c]
      BY <3>2, <3>4 DEF Rises
    <3>5. CASE ~skipped[c]
      <4>1. seen = FromTo(next[c] - 1 - Len(seen) + 1, next[c] - 1)
        <5>1. seen \in Seq(Nat) /\ EndsWith(seen, next[c] - 1) /\ next[c] - 1 \in Nat
          BY <3>1, <3>2, <3>3, <3>5
        <5>. QED BY <5>1, EndsIsFromTo
      <4>. QED BY <3>3, <3>5, <4>1
    <3>. QED BY <3>4, <3>5
  <2>. QED BY <2>1, <2>2 DEF OutputIsSeamless
<1>3. InputIsInOrder
  <2>. SUFFICES ASSUME NEW c \in Consoles, NEW passed, passed = delivered \o waiting \o held[c] \o pipe[c]
                PROVE  InOrder(passed, c) /\ \A i \in DOMAIN passed : passed[i][1] = c => passed[i][2] <= typed[c]
    BY Zenon DEF InputIsInOrder
  <2>. DEFINE dw == delivered \o waiting
              dwh == dw \o held[c]
  <2>1. delivered \in Seq(Chunks) /\ waiting \in Seq(Chunks) /\ held[c] \in Seq(Chunks) /\ pipe[c] \in Seq(Chunks)
    BY <1>0 DEF InputTyped
  <2>2. dw \in Seq(Chunks)
    BY <2>1, ConcatProperties
  <2>3. /\ InOrder(delivered, c) /\ InOrder(waiting, c) /\ InOrder(held[c], c) /\ InOrder(pipe[c], c)
        /\ Precede(delivered, waiting, c) /\ Precede(delivered, held[c], c) /\ Precede(delivered, pipe[c], c)
        /\ Precede(waiting, held[c], c) /\ Precede(waiting, pipe[c], c) /\ Precede(held[c], pipe[c], c)
        /\ UpTo(delivered, c, typed[c]) /\ UpTo(waiting, c, typed[c]) /\ UpTo(held[c], c, typed[c])
        /\ UpTo(pipe[c], c, typed[c])
    BY <1>0 DEF InputFollows
  <2>4. InOrder(dw, c)
    BY <2>1, <2>3, CatIsInOrder
  <2>5. Precede(dw, held[c], c) /\ Precede(dw, pipe[c], c) /\ UpTo(dw, c, typed[c])
    BY <2>1, <2>3, CatPrecedes
  <2>. HIDE DEF dw
  <2>6. dwh \in Seq(Chunks)
    BY <2>1, <2>2, ConcatProperties
  <2>7. InOrder(dwh, c)
    BY <2>1, <2>2, <2>3, <2>4, <2>5, CatIsInOrder
  <2>8. Precede(dwh, pipe[c], c) /\ UpTo(dwh, c, typed[c])
    BY <2>1, <2>2, <2>3, <2>5, CatPrecedes
  <2>. HIDE DEF dwh
  <2>9. passed = dwh \o pipe[c]
    BY DEF dwh, dw
  <2>10. InOrder(passed, c)
    BY <2>1, <2>3, <2>6, <2>7, <2>8, <2>9, CatIsInOrder
  <2>11. UpTo(passed, c, typed[c])
    BY <2>1, <2>3, <2>6, <2>8, <2>9, CatPrecedes
  <2>. QED BY <2>10, <2>11 DEF UpTo, Elements
<1>. QED BY <1>1, <1>2, <1>3 DEF HubInv

\* attach takes the history and the place in the channel under the lock of record_output, and one task at a time
\* holds a chunk of the console: whatever order the tasks run in, connections break and consoles come and go,
\* nobody sees a byte of QEMU twice or out of order, and QEMU gets the input in the order it was typed.
THEOREM HubIsSound == HubSpec => []HubInv
<1>1. HubIInv /\ [HubNext]_hubVars => HubIInv'
  BY HubNextSound
<1>2. HubIInv => HubInv
  BY HubIInvIsEnough
<1>. QED BY <1>1, <1>2, HubInitSound, PTL DEF HubSpec

-----------------------------------------------------------------------------
(***************************************************************************)
(* SerialConsole: each place, from the line to the client and from the     *)
(* client to the port, goes on where the one after it begins.              *)
(***************************************************************************)
Pieces == Nat \X Nat

LineTyped ==
  /\ sent \in 0..MaxOutput /\ line \in Seq(Nat) /\ cut \in {"ok", "eof", "error"}
  /\ rx \in [bytes : Seq(Nat), closed : BOOLEAN, error : BOOLEAN] /\ Len(rx.bytes) <= RxBytes
  /\ reader \in {"check", "read", "wake", "closing", "last_wake", "done"} /\ line_failed \in BOOLEAN
  /\ taken \in Nat

TakeTyped ==
  /\ waker \in BOOLEAN /\ woken \in BOOLEAN /\ stopped \in BOOLEAN
  /\ take \in {"poll", "look", "wait", "over"} /\ read_outcome \in {"none", "eof", "error"}
  /\ relay \in {"run", "ended", "drained", "join", "drain", "released"}

ShowTyped ==
  /\ output \in Seq(Seq(Nat)) /\ Len(output) <= QueueChunks
  /\ show \in {"opening", "select", "send"} /\ message \in Seq(Nat) /\ shown \in Seq(Nat)
  /\ pongs \in 0..ControlMessages

PutTyped ==
  /\ asked \in Seq(Nat \ {0}) /\ input \in Seq(Pieces) /\ Len(input) <= QueueChunks /\ board_on \in BOOLEAN
  /\ put \in {"wait", "recv", "write"} /\ chunk \in Seq(Pieces) /\ txq \in Seq(Pieces) /\ written \in Seq(Pieces)

\* A place holds the bytes after byte n.
RunsFrom(s, n) == \A i \in 1..Len(s) : s[i] = n + i

\* The chunks of a queue follow each other from byte n to byte m.
EndIn(queue, n, k) == IF k = 0 THEN n ELSE queue[k][Len(queue[k])]
Chained(queue, n, m) ==
  /\ \A k \in 1..Len(queue) : queue[k] # <<>> /\ RunsFrom(queue[k], EndIn(queue, n, k - 1))
  /\ EndIn(queue, n, Len(queue)) = m

\* The thread, and what it has still to read: after an overflow it reads nothing any more.
LineFollows ==
  /\ rx.closed <=> reader \in {"last_wake", "done"}
  /\ RunsFrom(rx.bytes, taken)
  /\ reader \in {"check", "read", "wake"} =>
       RunsFrom(line, taken + Len(rx.bytes)) /\ taken + Len(rx.bytes) + Len(line) = sent

TakeFollows ==
  /\ relay = "run" /\ take = "over" => rx.closed /\ rx.bytes = <<>>
  /\ relay = "run" /\ take \in {"look", "wait"} => waker \/ woken

ShowFollows ==
  /\ RunsFrom(shown, 0)
  /\ relay = "run" =>
       /\ show # "send" => message = <<>>
       /\ RunsFrom(message, Len(shown)) /\ Chained(output, Len(shown) + Len(message), taken)

\* The chunks of a command and those of the next one: see After.
NextPiece(x, counts) == IF x[2] < counts[x[1]] THEN <<x[1], x[2] + 1>> ELSE <<x[1] + 1, 1>>
Whole(all, counts) ==
  /\ \A i \in 1..Len(all) : all[i][1] \in 1..Len(counts)
  /\ \A i \in 1..(Len(all) - 1) : all[i + 1] = NextPiece(all[i], counts)
  /\ IF Len(counts) = 0 THEN Len(all) = 0
     ELSE Len(all) > 0 /\ all[1] = <<1, 1>> /\ all[Len(all)] = <<Len(counts), counts[Len(counts)]>>

PutFollows ==
  /\ relay = "run" => (put # "write" => chunk = <<>>) /\ Whole(written \o chunk \o input, asked)
  /\ ~board_on => written = <<>> /\ put = "wait"

EndFollows ==
  /\ relay \in {"drain", "released"} => reader = "done"
  /\ relay = "released" => txq = <<>>

LinkIInv ==
  /\ LineTyped /\ TakeTyped /\ ShowTyped /\ PutTyped
  /\ LineFollows /\ TakeFollows /\ ShowFollows /\ PutFollows /\ EndFollows /\ DrainedIsAll /\ NothingSleeps

-----------------------------------------------------------------------------
(***************************************************************************)
(* Bytes in a row                                                          *)
(***************************************************************************)
LEMMA CatRuns ==
  ASSUME NEW s \in Seq(Nat), NEW t \in Seq(Nat), NEW n \in Nat, RunsFrom(s, n), RunsFrom(t, n + Len(s))
  PROVE  s \o t \in Seq(Nat) /\ Len(s \o t) = Len(s) + Len(t) /\ RunsFrom(s \o t, n)
<1>1. /\ s \o t \in Seq(Nat) /\ Len(s \o t) = Len(s) + Len(t) /\ Len(s) \in Nat /\ Len(t) \in Nat
      /\ \A i \in 1..Len(s) + Len(t) : (s \o t)[i] = IF i <= Len(s) THEN s[i] ELSE t[i - Len(s)]
  BY ConcatProperties, LenProperties
<1>. DEFINE u == s \o t
<1>2. Len(u) = Len(s) + Len(t) /\ \A i \in 1..Len(s) + Len(t) : u[i] = IF i <= Len(s) THEN s[i] ELSE t[i - Len(s)]
  BY <1>1
<1>. HIDE DEF u
<1>3. RunsFrom(u, n)
  <2>. SUFFICES ASSUME NEW i \in 1..Len(s) + Len(t) PROVE u[i] = n + i
    BY <1>1, <1>2 DEF RunsFrom
  <2>1. CASE i <= Len(s)
    <3>1. i \in 1..Len(s) /\ u[i] = s[i]
      BY <1>1, <1>2, <2>1
    <3>. QED BY <3>1 DEF RunsFrom
  <2>2. CASE i > Len(s)
    <3>1. i - Len(s) \in 1..Len(t) /\ u[i] = t[i - Len(s)]
      BY <1>1, <1>2, <2>2
    <3>. QED BY <1>1, <3>1 DEF RunsFrom
  <2>. QED BY <1>1, <2>1, <2>2
<1>. QED BY <1>1, <1>3 DEF u

LEMMA SplitRuns ==
  ASSUME NEW s \in Seq(Nat), NEW n \in Nat, NEW k \in 0..Len(s), RunsFrom(s, n)
  PROVE  /\ SubSeq(s, 1, k) \in Seq(Nat) /\ Len(SubSeq(s, 1, k)) = k /\ RunsFrom(SubSeq(s, 1, k), n)
         /\ SubSeq(s, k + 1, Len(s)) \in Seq(Nat) /\ Len(SubSeq(s, k + 1, Len(s))) = Len(s) - k
         /\ RunsFrom(SubSeq(s, k + 1, Len(s)), n + k)
<1>1. Len(s) \in Nat /\ k \in Nat /\ k <= Len(s) /\ \A i \in 1..Len(s) : s[i] \in Nat /\ s[i] = n + i
  BY LenProperties DEF RunsFrom
<1>. DEFINE u == SubSeq(s, 1, k)
            w == SubSeq(s, k + 1, Len(s))
<1>2. u \in Seq(Nat) /\ Len(u) = k /\ \A i \in 1..k : u[i] = s[i]
  <2>1. 1 \in Int /\ k \in Int /\ \A i \in 1..k : s[i] \in Nat
    BY <1>1
  <2>2. /\ u \in Seq(Nat) /\ Len(u) = (IF 1 <= k THEN k - 1 + 1 ELSE 0)
        /\ \A i \in 1..(k - 1 + 1) : u[i] = s[1 + i - 1]
    BY <2>1, SubSeqProperties
  <2>. HIDE DEF u
  <2>. QED BY <1>1, <2>2
<1>3. w \in Seq(Nat) /\ Len(w) = Len(s) - k /\ \A i \in 1..(Len(s) - k) : w[i] = s[k + i]
  <2>1. k + 1 \in Int /\ Len(s) \in Int /\ \A i \in (k + 1)..Len(s) : s[i] \in Nat
    BY <1>1
  <2>2. /\ w \in Seq(Nat) /\ Len(w) = (IF k + 1 <= Len(s) THEN Len(s) - (k + 1) + 1 ELSE 0)
        /\ \A i \in 1..(Len(s) - (k + 1) + 1) : w[i] = s[k + 1 + i - 1]
    BY <2>1, SubSeqProperties
  <2>. HIDE DEF w
  <2>. QED BY <1>1, <2>2
<1>. HIDE DEF u, w
<1>4. RunsFrom(u, n)
  <2>. SUFFICES ASSUME NEW i \in 1..k PROVE u[i] = n + i
    BY <1>2 DEF RunsFrom
  <2>1. i \in 1..Len(s)
    BY <1>1
  <2>. QED BY <1>1, <1>2, <2>1
<1>5. RunsFrom(w, n + k)
  <2>. SUFFICES ASSUME NEW i \in 1..(Len(s) - k) PROVE w[i] = n + k + i
    BY <1>3 DEF RunsFrom
  <2>. QED BY <1>1, <1>3
<1>. QED BY <1>2, <1>3, <1>4, <1>5 DEF u, w

LEMMA RunsIsNumbered ==
  ASSUME NEW s \in Seq(Nat), NEW n \in Nat, RunsFrom(s, n)
  PROVE  s = Numbered(n + 1, n + Len(s))
<1>1. Len(s) \in Nat /\ s = [i \in 1..Len(s) |-> s[i]]
  BY LenProperties
<1>2. n + Len(s) - (n + 1) + 1 = Len(s)
  BY <1>1
<1>3. Numbered(n + 1, n + Len(s)) = [i \in 1..Len(s) |-> n + 1 + i - 1]
  BY <1>2 DEF Numbered
<1>4. \A i \in 1..Len(s) : s[i] = n + 1 + i - 1
  BY <1>1 DEF RunsFrom
<1>. QED BY <1>1, <1>3, <1>4

LEMMA PiecesAssociate ==
  ASSUME NEW s \in Seq(Pieces), NEW t \in Seq(Pieces), NEW u \in Seq(Pieces)
  PROVE  (s \o t) \o u = s \o (t \o u)
  BY ConcatAssociative

\* The last byte of a piece that is not empty.
LEMMA EndOfRun ==
  ASSUME NEW s \in Seq(Nat), NEW n \in Nat, RunsFrom(s, n), s # <<>>
  PROVE  Len(s) \in Nat \ {0} /\ s[Len(s)] = n + Len(s)
<1>1. Len(s) \in Nat \ {0}
  BY LenProperties, EmptySeq
<1>. QED BY <1>1 DEF RunsFrom

-----------------------------------------------------------------------------
(***************************************************************************)
(* Chunks in a row                                                         *)
(***************************************************************************)
LEMMA EmptyIsChained == ASSUME NEW n PROVE Chained(<<>>, n, n)
  BY DEF Chained, EndIn

LEMMA AppendIsChained ==
  ASSUME NEW queue \in Seq(Seq(Nat)), NEW n \in Nat, NEW m \in Nat, Chained(queue, n, m),
         NEW s \in Seq(Nat), s # <<>>, RunsFrom(s, m)
  PROVE  Append(queue, s) \in Seq(Seq(Nat)) /\ Len(Append(queue, s)) = Len(queue) + 1
         /\ Chained(Append(queue, s), n, m + Len(s))
<1>1. /\ Len(queue) \in Nat /\ Append(queue, s) \in Seq(Seq(Nat)) /\ Len(Append(queue, s)) = Len(queue) + 1
      /\ \A k \in 1..Len(queue) + 1 : Append(queue, s)[k] = IF k <= Len(queue) THEN queue[k] ELSE s
  <2>1. Len(queue) \in Nat
    BY LenProperties
  <2>2. queue \in Seq(Seq(Nat)) /\ s \in Seq(Nat)
    OBVIOUS
  <2>. QED BY <2>1, <2>2, AppendIsCat, ZenonT(40)
<1>. DEFINE q == Append(queue, s)
<1>2. Len(q) = Len(queue) + 1 /\ \A k \in 1..Len(queue) + 1 : q[k] = IF k <= Len(queue) THEN queue[k] ELSE s
  BY <1>1
<1>. HIDE DEF q
<1>3. \A k \in 0..Len(queue) : EndIn(q, n, k) = EndIn(queue, n, k)
  <2>. SUFFICES ASSUME NEW k \in 0..Len(queue), k # 0 PROVE q[k] = queue[k]
    BY DEF EndIn
  <2>1. k \in 1..Len(queue) + 1 /\ k <= Len(queue)
    BY <1>1
  <2>. QED BY <1>2, <2>1
<1>4. EndIn(q, n, Len(queue)) = m
  BY <1>1, <1>3 DEF Chained
<1>5. ASSUME NEW k \in 1..Len(q) PROVE q[k] # <<>> /\ RunsFrom(q[k], EndIn(q, n, k - 1))
  <2>1. CASE k <= Len(queue)
    <3>0. k \in 1..Len(queue) + 1 /\ k \in 1..Len(queue) /\ k - 1 \in 0..Len(queue)
      BY <1>1, <1>2, <2>1
    <3>1. k \in 1..Len(queue) /\ k - 1 \in 0..Len(queue) /\ q[k] = queue[k]
      BY <1>2, <2>1, <3>0
    <3>. QED BY <1>3, <3>1 DEF Chained
  <2>2. CASE k = Len(queue) + 1
    <3>0. k \in 1..Len(queue) + 1 /\ ~(k <= Len(queue)) /\ k - 1 = Len(queue)
      BY <1>1, <2>2
    <3>1. q[k] = s /\ k - 1 = Len(queue)
      BY <1>2, <3>0
    <3>. QED BY <1>4, <3>1
  <2>. QED BY <1>1, <1>2, <2>1, <2>2
<1>6. EndIn(q, n, Len(q)) = m + Len(s)
  <2>0. Len(queue) + 1 \in 1..Len(queue) + 1 /\ ~(Len(queue) + 1 <= Len(queue)) /\ Len(queue) + 1 # 0
    BY <1>1
  <2>1. Len(q) # 0 /\ q[Len(q)] = s
    BY <1>2, <2>0
  <2>. QED BY <2>1, EndOfRun DEF EndIn
<1>. QED BY <1>1, <1>5, <1>6 DEF Chained, q

LEMMA TailIsChained ==
  ASSUME NEW queue \in Seq(Seq(Nat)), NEW n \in Nat, NEW m, Chained(queue, n, m), queue # <<>>
  PROVE  /\ Head(queue) \in Seq(Nat) /\ Head(queue) # <<>> /\ RunsFrom(Head(queue), n)
         /\ Tail(queue) \in Seq(Seq(Nat)) /\ Len(Tail(queue)) = Len(queue) - 1
         /\ Chained(Tail(queue), n + Len(Head(queue)), m)
<1>1. /\ Head(queue) \in Seq(Nat) /\ Tail(queue) \in Seq(Seq(Nat)) /\ Len(Tail(queue)) = Len(queue) - 1
      /\ \A i \in 1..Len(Tail(queue)) : Tail(queue)[i] = queue[i + 1]
  BY HeadTailProperties
<1>2. Len(queue) \in Nat \ {0} /\ Head(queue) = queue[1]
  BY EmptySeq
<1>. DEFINE q == Tail(queue)
            h == Head(queue)
<1>3. Len(q) = Len(queue) - 1 /\ (\A i \in 1..Len(q) : q[i] = queue[i + 1]) /\ h = queue[1] /\ h \in Seq(Nat)
  BY <1>1, <1>2
<1>. HIDE DEF q, h
<1>4. h # <<>> /\ RunsFrom(h, n)
  <2>1. 1 \in 1..Len(queue)
    BY <1>2
  <2>2. queue[1] # <<>> /\ RunsFrom(queue[1], EndIn(queue, n, 1 - 1))
    BY <2>1 DEF Chained
  <2>. QED BY <1>3, <2>2 DEF EndIn
<1>5. h[Len(h)] = n + Len(h)
  BY <1>3, <1>4, EndOfRun
<1>6. ASSUME NEW k \in 0..Len(q) PROVE EndIn(q, n + Len(h), k) = EndIn(queue, n, k + 1)
  <2>1. CASE k = 0
    BY <1>2, <1>3, <1>5, <2>1 DEF EndIn
  <2>2. CASE k # 0
    <3>1. k \in 1..Len(q) /\ k + 1 # 0
      BY <1>2, <1>3, <2>2
    <3>. QED BY <1>3, <2>2, <3>1 DEF EndIn
  <2>. QED BY <2>1, <2>2
<1>7. ASSUME NEW k \in 1..Len(q) PROVE q[k] # <<>> /\ RunsFrom(q[k], EndIn(q, n + Len(h), k - 1))
  <2>1. k + 1 \in 1..Len(queue) /\ k - 1 \in 0..Len(q) /\ (k + 1) - 1 = k /\ k - 1 + 1 = k /\ q[k] = queue[k + 1]
    BY <1>2, <1>3
  <2>2. queue[k + 1] # <<>> /\ RunsFrom(queue[k + 1], EndIn(queue, n, (k + 1) - 1))
    BY <2>1 DEF Chained
  <2>. QED BY <1>6, <2>1, <2>2
<1>8. EndIn(q, n + Len(h), Len(q)) = m
  <2>1. Len(q) \in 0..Len(q) /\ Len(q) + 1 = Len(queue)
    BY <1>2, <1>3
  <2>. QED BY <1>6, <2>1 DEF Chained
<1>. QED BY <1>1, <1>4, <1>7, <1>8 DEF Chained, q, h

-----------------------------------------------------------------------------
(***************************************************************************)
(* Commands in a row                                                       *)
(***************************************************************************)
LEMMA ChunksOfIs ==
  ASSUME NEW c \in Nat, NEW n \in Nat
  PROVE  ChunksOf(c, n) \in Seq(Pieces) /\ Len(ChunksOf(c, n)) = n /\ \A i \in 1..n : ChunksOf(c, n)[i] = <<c, i>>
  BY DEF ChunksOf, Pieces

LEMMA AppendIsWhole ==
  ASSUME NEW all \in Seq(Pieces), NEW counts \in Seq(Nat \ {0}), Whole(all, counts), NEW n \in Nat \ {0}
  PROVE  Whole(all \o ChunksOf(Len(counts) + 1, n), Append(counts, n))
<1>. DEFINE c == Len(counts) + 1
            p == ChunksOf(c, n)
            u == all \o p
            cs == Append(counts, n)
            m == Len(all)
<1>1. Len(counts) \in Nat /\ m \in Nat /\ c \in Nat \ {0} /\ n \in Nat \ {0} /\ Len(counts) = c - 1
  BY LenProperties
<1>2. p \in Seq(Pieces) /\ Len(p) = n /\ \A i \in 1..n : p[i] = <<c, i>>
  BY <1>1, ChunksOfIs
<1>3. Len(cs) = c /\ cs[c] = n /\ \A i \in 1..(c - 1) : cs[i] = counts[i]
  BY <1>1, AppendProperties
<1>. HIDE DEF p
<1>4. Len(u) = m + n /\ \A i \in 1..m + n : (i <= m => u[i] = all[i]) /\ (~(i <= m) => u[i] = p[i - m])
  BY <1>2, ConcatProperties
<1>5. /\ \A i \in 1..m : all[i][1] \in 1..(c - 1)
      /\ \A i \in 1..(m - 1) : all[i + 1] = NextPiece(all[i], counts)
      /\ IF c - 1 = 0 THEN m = 0 ELSE m > 0 /\ all[1] = <<1, 1>> /\ all[m] = <<c - 1, counts[c - 1]>>
  BY <1>1 DEF Whole
<1>. HIDE DEF u, cs, m, c
<1>6. /\ \A i \in 1..m : u[i] = all[i]
      /\ \A i \in 1..n : u[m + i] = <<c, i>>
  <2>1. ASSUME NEW i \in 1..m PROVE u[i] = all[i]
    <3>1. i \in 1..m + n /\ i <= m
      BY <1>1
    <3>. QED BY <1>4, <3>1
  <2>2. ASSUME NEW i \in 1..n, NEW k, k = m + i PROVE u[k] = <<c, i>>
    <3>1. k \in 1..m + n /\ ~(k <= m) /\ k - m = i
      BY <1>1, <2>2
    <3>2. u[k] = p[k - m]
      BY <1>4, <3>1
    <3>. QED BY <1>2, <3>1, <3>2
  <2>. QED BY <2>1, <2>2
<1>7. ASSUME NEW i \in 1..m + n PROVE u[i][1] \in 1..c
  <2>1. CASE i <= m
    <3>1. i \in 1..m
      BY <1>1, <2>1
    <3>2. u[i][1] \in 1..(c - 1)
      BY <1>5, <1>6, <3>1
    <3>. QED BY <1>1, <3>2
  <2>2. CASE i > m
    <3>1. i - m \in 1..n /\ m + (i - m) = i /\ c \in 1..c
      BY <1>1, <2>2
    <3>2. u[i] = <<c, i - m>>
      BY <1>6, <3>1
    <3>. QED BY <3>1, <3>2
  <2>. QED BY <1>1, <2>1, <2>2
<1>8. ASSUME NEW i \in 1..(m + n - 1) PROVE u[i + 1] = NextPiece(u[i], cs)
  <2>1. CASE i < m
    <3>1. i \in 1..m /\ i + 1 \in 1..m /\ i \in 1..(m - 1)
      BY <1>1, <2>1
    <3>2. u[i] = all[i] /\ u[i + 1] = all[i + 1] /\ all[i + 1] = NextPiece(all[i], counts) /\ all[i][1] \in 1..(c - 1)
      BY <1>5, <1>6, <3>1
    <3>3. cs[all[i][1]] = counts[all[i][1]]
      BY <1>3, <3>2
    <3>. QED BY <3>2, <3>3 DEF NextPiece
  <2>2. CASE i = m
    <3>1. m > 0 /\ i \in 1..m /\ 1 \in 1..n /\ m + 1 = i + 1
      BY <1>1, <2>2
    <3>2. c - 1 # 0 /\ all[m] = <<c - 1, counts[c - 1]>>
      BY <1>5, <3>1
    <3>3. c - 1 \in 1..(c - 1) /\ c - 1 + 1 = c
      BY <1>1, <3>2
    <3>4. u[i] = <<c - 1, counts[c - 1]>> /\ u[i + 1] = <<c, 1>>
      BY <1>6, <2>2, <3>1, <3>2
    <3>5. cs[c - 1] = counts[c - 1] /\ counts[c - 1] \in Nat
      BY <1>1, <1>3, <3>3
    <3>6. u[i][1] = c - 1 /\ u[i][2] = counts[c - 1]
      BY <3>4
    <3>7. ~(u[i][2] < cs[u[i][1]])
      BY <3>5, <3>6
    <3>. QED BY <3>3, <3>4, <3>6, <3>7 DEF NextPiece
  <2>3. CASE i > m
    <3>1. i - m \in 1..n /\ m + (i - m) = i /\ i - m + 1 \in 1..n /\ m + (i - m + 1) = i + 1 /\ i - m < n
      BY <1>1, <2>3
    <3>2. u[i] = <<c, i - m>> /\ u[i + 1] = <<c, i - m + 1>>
      BY <1>6, <3>1
    <3>. QED BY <1>3, <3>1, <3>2 DEF NextPiece
  <2>. QED BY <1>1, <2>1, <2>2, <2>3
<1>9. m + n > 0 /\ u[1] = <<1, 1>>
  <2>1. CASE c - 1 = 0
    <3>1. m = 0 /\ c = 1 /\ 1 \in 1..n /\ m + 1 = 1
      BY <1>1, <1>5, <2>1
    <3>. QED BY <1>1, <1>6, <3>1
  <2>2. CASE c - 1 # 0
    <3>0. m > 0 /\ all[1] = <<1, 1>>
      BY <1>5, <2>2, Zenon
    <3>1. 1 \in 1..m /\ all[1] = <<1, 1>>
      BY <1>1, <3>0
    <3>. QED BY <1>1, <1>6, <3>1
  <2>. QED BY <2>1, <2>2
<1>10. u[m + n] = <<c, cs[c]>>
  <2>1. n \in 1..n
    BY <1>1
  <2>. QED BY <1>3, <1>6, <2>1
<1>11. Whole(u, cs)
  BY <1>1, <1>3, <1>4, <1>7, <1>8, <1>9, <1>10 DEF Whole
<1>. QED BY <1>11 DEF u, cs, p, c

LEMMA WholeIsEnough ==
  ASSUME NEW all \in Seq(Pieces), Whole(all, asked), asked \in Seq(Nat \ {0})
  PROVE  IF asked = <<>> THEN all = <<>>
         ELSE /\ all # <<>> /\ all[1] = <<1, 1>> /\ all[Len(all)] = <<Len(asked), asked[Len(asked)]>>
              /\ \A i \in 1..(Len(all) - 1) : all[i + 1] = After(all[i])
<1>1. (asked = <<>> <=> Len(asked) = 0) /\ (all = <<>> <=> Len(all) = 0)
  BY EmptySeq
<1>2. \A x : After(x) = NextPiece(x, asked)
  BY DEF After, NextPiece
<1>. QED BY <1>1, <1>2 DEF Whole

-----------------------------------------------------------------------------
(***************************************************************************)
(* The line and the thread                                                 *)
(***************************************************************************)
LEMMA LineStays == ASSUME LineTyped, LineFollows, UNCHANGED <<rxVars, taken>> PROVE LineTyped' /\ LineFollows'
  BY DEF LineTyped, LineFollows, rxVars, RunsFrom

\* The task takes the first bytes of the buffer.
LEMMA TookKeeps ==
  ASSUME LineTyped, LineFollows, NEW n \in 0..Len(rx.bytes), Took(n), UNCHANGED <<sent, line, cut, reader, line_failed>>
  PROVE  LineTyped' /\ LineFollows' /\ rx'.closed = rx.closed
<1>. DEFINE more == SubSeq(rx.bytes, n + 1, Len(rx.bytes))
<1>1. rx.bytes \in Seq(Nat) /\ taken \in Nat /\ RunsFrom(rx.bytes, taken) /\ Len(rx.bytes) \in Nat /\ Len(rx.bytes) <= RxBytes
      /\ RxBytes \in Nat
  BY LenProperties, SerialConsoleAssumption DEF LineTyped, LineFollows
<1>2. more \in Seq(Nat) /\ Len(more) = Len(rx.bytes) - n /\ RunsFrom(more, taken + n)
  BY <1>1, SplitRuns
<1>. HIDE DEF more
<1>3. rx' = [rx EXCEPT !.bytes = more] /\ taken' = taken + n
  BY DEF Took, more
<1>4. /\ rx' \in [bytes : Seq(Nat), closed : BOOLEAN, error : BOOLEAN]
      /\ rx'.bytes = more /\ rx'.closed = rx.closed
  BY <1>2, <1>3 DEF LineTyped
<1>5. taken' \in Nat /\ taken' + Len(rx'.bytes) = taken + Len(rx.bytes) /\ Len(rx'.bytes) <= RxBytes
  BY <1>1, <1>2, <1>3, <1>4
<1>6. LineTyped'
  BY <1>4, <1>5 DEF LineTyped
<1>7. LineFollows'
  <2>1. rx'.closed <=> reader' \in {"last_wake", "done"}
    BY <1>4 DEF LineFollows
  <2>2. RunsFrom(rx'.bytes, taken')
    BY <1>2, <1>3, <1>4
  <2>3. reader \in {"check", "read", "wake"} =>
          RunsFrom(line, taken' + Len(rx'.bytes)) /\ taken' + Len(rx'.bytes) + Len(line) = sent
    BY <1>5 DEF LineFollows
  <2>. QED BY <2>1, <2>2, <2>3 DEF LineFollows, RunsFrom
<1>. QED BY <1>4, <1>6, <1>7

LEMMA BoardSendsKeeps == ASSUME LineTyped, LineFollows, BoardSends PROVE LineTyped' /\ LineFollows'
<1>1. sent < MaxOutput /\ sent' = sent + 1 /\ line' = Append(line, sent + 1) /\ UNCHANGED <<cut, rx, reader, line_failed, taken>>
  BY DEF BoardSends, takeVars
<1>2. sent \in 0..MaxOutput /\ line \in Seq(Nat) /\ Len(line) \in Nat /\ taken + Len(rx.bytes) \in Nat /\ MaxOutput \in Nat
  BY LenProperties, SerialConsoleAssumption DEF LineTyped
<1>3. line' \in Seq(Nat) /\ Len(line') = Len(line) + 1
      /\ \A i \in 1..Len(line) + 1 : line'[i] = IF i <= Len(line) THEN line[i] ELSE sent + 1
  BY <1>1, <1>2, AppendIsCat
<1>4. sent' \in 0..MaxOutput
  BY <1>1, <1>2
<1>5. LineTyped'
  BY <1>1, <1>3, <1>4 DEF LineTyped
<1>6. ASSUME reader \in {"check", "read", "wake"}
      PROVE  RunsFrom(line', taken + Len(rx.bytes)) /\ taken + Len(rx.bytes) + Len(line') = sent'
  <2>1. RunsFrom(line, taken + Len(rx.bytes)) /\ taken + Len(rx.bytes) + Len(line) = sent
    BY <1>6 DEF LineFollows
  <2>2. taken + Len(rx.bytes) + Len(line') = sent'
    BY <1>1, <1>2, <1>3, <2>1
  <2>3. ASSUME NEW i \in 1..Len(line) + 1 PROVE line'[i] = taken + Len(rx.bytes) + i
    <3>1. CASE i <= Len(line)
      <4>1. i \in 1..Len(line) /\ line'[i] = line[i]
        BY <1>2, <1>3, <3>1
      <4>. QED BY <2>1, <4>1 DEF RunsFrom
    <3>2. CASE ~(i <= Len(line))
      <4>1. i = Len(line) + 1 /\ line'[i] = sent + 1
        BY <1>2, <1>3, <3>2
      <4>2. taken + Len(rx.bytes) \in Nat /\ Len(line) \in Nat /\ taken + Len(rx.bytes) + Len(line) = sent
        BY <1>2, <2>1
      <4>. QED BY <4>1, <4>2
    <3>. QED BY <3>1, <3>2
  <2>. QED BY <1>3, <2>2, <2>3 DEF RunsFrom
<1>7. LineFollows'
  BY <1>1, <1>6 DEF LineFollows, RunsFrom
<1>. QED BY <1>5, <1>7

\* What is read is what comes next; a chunk that does not fit ends the reading.
LEMMA ReaderReadsKeeps == ASSUME LineTyped, LineFollows, ReaderReads PROVE LineTyped' /\ LineFollows'
<1>1. line \in Seq(Nat) /\ Len(line) \in Nat /\ rx.bytes \in Seq(Nat) /\ Len(rx.bytes) \in Nat /\ taken \in Nat
      /\ RxBytes \in Nat /\ ChunkBytes \in Nat /\ sent \in Nat
  BY LenProperties, SerialConsoleAssumption DEF LineTyped
<1>2. PICK n \in 1..(IF Len(line) < ChunkBytes THEN Len(line) ELSE ChunkBytes) :
        /\ line' = SubSeq(line, n + 1, Len(line))
        /\ IF n > RxBytes - Len(rx.bytes)
           THEN reader' = "closing" /\ line_failed' = TRUE /\ UNCHANGED rx
           ELSE rx' = [rx EXCEPT !.bytes = @ \o SubSeq(line, 1, n)] /\ reader' = "wake" /\ UNCHANGED line_failed
  BY DEF ReaderReads
<1>3. n \in 0..Len(line) /\ n \in Nat
  BY <1>1
<1>4. reader = "read" /\ UNCHANGED <<sent, cut, taken>>
  BY DEF ReaderReads, takeVars
<1>5. /\ RunsFrom(rx.bytes, taken) /\ RunsFrom(line, taken + Len(rx.bytes)) /\ taken + Len(rx.bytes) + Len(line) = sent
      /\ ~rx.closed /\ taken + Len(rx.bytes) \in Nat
  BY <1>1, <1>4 DEF LineFollows, LineTyped
<1>. DEFINE front == SubSeq(line, 1, n)
            rest == SubSeq(line, n + 1, Len(line))
<1>6. /\ front \in Seq(Nat) /\ Len(front) = n /\ RunsFrom(front, taken + Len(rx.bytes))
      /\ rest \in Seq(Nat) /\ Len(rest) = Len(line) - n /\ RunsFrom(rest, taken + Len(rx.bytes) + n)
  BY <1>1, <1>3, <1>5, SplitRuns
<1>7. line' = rest
  BY <1>2
<1>8. CASE n > RxBytes - Len(rx.bytes)
  <2>1. reader' = "closing" /\ line_failed' = TRUE /\ UNCHANGED rx
    BY <1>2, <1>8
  <2>. HIDE DEF front, rest
  <2>2. LineTyped'
    BY <1>4, <1>6, <1>7, <2>1 DEF LineTyped
  <2>3. LineFollows'
    BY <1>4, <1>5, <2>1 DEF LineFollows, RunsFrom
  <2>. QED BY <2>2, <2>3
<1>9. CASE ~(n > RxBytes - Len(rx.bytes))
  <2>1. rx' = [rx EXCEPT !.bytes = @ \o front] /\ reader' = "wake" /\ UNCHANGED line_failed
    BY <1>2, <1>9
  <2>. HIDE DEF front, rest
  <2>. DEFINE full == rx.bytes \o front
  <2>2. full \in Seq(Nat) /\ Len(full) = Len(rx.bytes) + n /\ RunsFrom(full, taken)
    BY <1>1, <1>5, <1>6, CatRuns
  <2>3. rx' = [rx EXCEPT !.bytes = full]
    BY <2>1
  <2>. HIDE DEF full
  <2>4. /\ rx' \in [bytes : Seq(Nat), closed : BOOLEAN, error : BOOLEAN]
        /\ rx'.bytes = full /\ rx'.closed = rx.closed
    BY <2>2, <2>3 DEF LineTyped
  <2>5. /\ Len(full) <= RxBytes /\ taken + Len(full) = taken + Len(rx.bytes) + n
        /\ taken + Len(full) + Len(rest) = sent
    <3>1. Len(full) = Len(rx.bytes) + n /\ Len(rest) = Len(line) - n
      BY <1>6, <2>2
    <3>2. Len(rx.bytes) \in Nat /\ Len(line) \in Nat /\ taken \in Nat /\ n \in Nat /\ RxBytes \in Nat
      BY <1>1, <1>3
    <3>3. taken + Len(rx.bytes) + Len(line) = sent
      BY <1>5
    <3>. QED BY <1>9, <3>1, <3>2, <3>3
  <2>6. LineTyped'
    BY <1>4, <1>6, <1>7, <2>1, <2>4, <2>5 DEF LineTyped
  <2>7. RunsFrom(line', taken' + Len(rx'.bytes)) /\ taken' + Len(rx'.bytes) + Len(line') = sent' /\ RunsFrom(rx'.bytes, taken')
    BY <1>4, <1>6, <1>7, <2>2, <2>4, <2>5
  <2>8. LineFollows'
    BY <1>5, <2>1, <2>4, <2>7 DEF LineFollows, RunsFrom
  <2>. QED BY <2>6, <2>8
<1>. QED BY <1>8, <1>9

LEMMA LineKeeps == ASSUME LinkIInv, [LinkNext]_linkVars PROVE LineTyped' /\ LineFollows'
<1>0. LineTyped /\ LineFollows /\ EndFollows
  BY DEF LinkIInv
<1>1. CASE BoardSends
  BY <1>0, <1>1, BoardSendsKeeps
<1>2. CASE ReaderReads
  BY <1>0, <1>2, ReaderReadsKeeps
<1>3. CASE LineIsCut
  BY <1>0, <1>3 DEF LineIsCut, takeVars, LineTyped, LineFollows, RunsFrom
<1>4. CASE ReaderChecks
  BY <1>0, <1>4 DEF ReaderChecks, takeVars, LineTyped, LineFollows, RunsFrom
<1>5. CASE ReaderEnds
  BY <1>0, <1>5 DEF ReaderEnds, takeVars, LineTyped, LineFollows, RunsFrom
<1>6. CASE ReaderCloses
  <2>1. /\ reader = "closing" /\ rx' = [rx EXCEPT !.closed = TRUE, !.error = line_failed] /\ reader' = "last_wake"
        /\ UNCHANGED <<sent, line, cut, line_failed, taken>>
    BY <1>6 DEF ReaderCloses, takeVars
  <2>2. /\ rx' \in [bytes : Seq(Nat), closed : BOOLEAN, error : BOOLEAN]
        /\ rx'.bytes = rx.bytes /\ rx'.closed
    BY <1>0, <2>1 DEF LineTyped
  <2>3. LineTyped'
    BY <1>0, <2>1, <2>2 DEF LineTyped
  <2>. QED BY <1>0, <2>1, <2>2, <2>3 DEF LineFollows, RunsFrom
<1>7. CASE ReaderWakes
  BY <1>0, <1>7 DEF ReaderWakes, takeVars, LineTyped, LineFollows, RunsFrom
<1>8. CASE Looks
  <2>0. Len(rx.bytes) \in Nat /\ ChunkBytes \in Nat
    BY <1>0, LenProperties, SerialConsoleAssumption DEF LineTyped
  <2>1. UNCHANGED <<sent, line, cut, reader, line_failed, stopped>>
    BY <1>8 DEF Looks
  <2>2. PICK n : /\ n = IF Len(rx.bytes) < ChunkBytes THEN Len(rx.bytes) ELSE ChunkBytes
                 /\ \/ Took(n)
                    \/ rx' = [rx EXCEPT !.error = FALSE] /\ UNCHANGED taken
                    \/ UNCHANGED <<rx, taken>>
    BY <1>8 DEF Looks
  <2>3. n \in 0..Len(rx.bytes)
    BY <2>0, <2>2
  <2>4. CASE Took(n)
    BY <1>0, <2>1, <2>3, <2>4, TookKeeps
  <2>5. CASE rx' = [rx EXCEPT !.error = FALSE] /\ UNCHANGED taken
    <3>1. /\ rx' \in [bytes : Seq(Nat), closed : BOOLEAN, error : BOOLEAN]
          /\ rx'.bytes = rx.bytes /\ rx'.closed = rx.closed
      BY <1>0, <2>5 DEF LineTyped
    <3>2. LineTyped'
      BY <1>0, <2>1, <2>5, <3>1 DEF LineTyped
    <3>. QED BY <1>0, <2>1, <2>5, <3>1, <3>2 DEF LineFollows, RunsFrom
  <2>6. CASE UNCHANGED <<rx, taken>>
    BY <1>0, <2>1, <2>6, LineStays DEF rxVars
  <2>. QED BY <2>2, <2>4, <2>5, <2>6
<1>9. CASE OutputOverflows
  <2>0. Len(rx.bytes) \in Nat /\ ChunkBytes \in Nat
    BY <1>0, LenProperties, SerialConsoleAssumption DEF LineTyped
  <2>1. UNCHANGED <<sent, line, cut, reader, line_failed>>
    BY <1>9 DEF OutputOverflows
  <2>2. PICK n : n = (IF Len(rx.bytes) < ChunkBytes THEN Len(rx.bytes) ELSE ChunkBytes) /\ Took(n)
    BY <1>9 DEF OutputOverflows
  <2>3. n \in 0..Len(rx.bytes)
    BY <2>0, <2>2
  <2>. QED BY <1>0, <2>1, <2>2, <2>3, TookKeeps
<1>10. CASE Releases
  <2>1. reader = "done" /\ line' = <<>> /\ UNCHANGED <<sent, cut, rx, reader, line_failed, taken>>
    BY <1>0, <1>10 DEF Releases, takeVars, EndFollows
  <2>2. LineTyped'
    BY <1>0, <2>1, EmptySeq DEF LineTyped
  <2>. QED BY <1>0, <2>1, <2>2 DEF LineFollows, RunsFrom
<1>11. CASE StopsReader
  BY <1>0, <1>11 DEF StopsReader, takeVars, LineTyped, LineFollows, RunsFrom
<1>12. CASE \/ Registers \/ SocketOpens \/ SelectsOutput \/ SelectsPong \/ SelectsResult \/ Sends \/ SendFails
            \/ (\E n \in 1..QueueChunks : ControlArrives(n)) \/ Ping \/ ClientEnds
            \/ PowerIsOn \/ PowerOnFails \/ StartsWriting \/ ReceivesInput \/ WritesInput \/ WriteFails \/ Transmits
            \/ ReaderJoined \/ UNCHANGED linkVars
  <2>1. UNCHANGED <<rxVars, taken>>
    BY <1>12 DEF Registers, SocketOpens, SelectsOutput, SelectsPong, SelectsResult, Sends, SendFails, ControlArrives, Ping,
         ClientEnds, PowerIsOn, PowerOnFails, StartsWriting, ReceivesInput, WritesInput, WriteFails, Transmits, ReaderJoined,
         linkVars, portVars, takeVars
  <2>. QED BY <1>0, <2>1, LineStays
<1>. QED BY <1>1, <1>2, <1>3, <1>4, <1>5, <1>6, <1>7, <1>8, <1>9, <1>10, <1>11, <1>12 DEF LinkNext

-----------------------------------------------------------------------------
(***************************************************************************)
(* The wake-ups                                                            *)
(***************************************************************************)
LEMMA TakeStays ==
  ASSUME TakeTyped, TakeFollows, NothingSleeps, UNCHANGED <<waker, woken, stopped, take, read_outcome, rx, reader>>,
         relay' \in {"run", "ended", "drained", "join", "drain", "released"}, relay' = "run" => relay = "run"
  PROVE  TakeTyped' /\ TakeFollows' /\ NothingSleeps'
  BY DEF TakeTyped, TakeFollows, NothingSleeps

LEMMA TakeEnds ==
  ASSUME TakeTyped, NEW how \in {"ended", "drained"}, WorkersEnd(how), UNCHANGED <<waker, stopped, read_outcome>>
  PROVE  TakeTyped' /\ TakeFollows' /\ NothingSleeps'
  BY DEF TakeTyped, TakeFollows, NothingSleeps, WorkersEnd

LEMMA TakeKeeps == ASSUME LinkIInv, [LinkNext]_linkVars PROVE TakeTyped' /\ TakeFollows' /\ NothingSleeps'
<1>0. TakeTyped /\ TakeFollows /\ NothingSleeps /\ LineTyped /\ LineFollows
  BY DEF LinkIInv
\* A task that may miss the bytes has its waker registered, or is awake.
<1>1. CASE ReaderChecks \/ ReaderEnds
  <2>1. /\ reader \in {"check", "read"} /\ UNCHANGED <<waker, woken, stopped, take, read_outcome, rx, relay>>
    BY <1>1 DEF ReaderChecks, ReaderEnds, takeVars
  <2>. QED BY <1>0, <2>1 DEF TakeTyped, TakeFollows, NothingSleeps
<1>2. CASE ReaderReads
  <2>1. /\ reader = "read" /\ UNCHANGED <<waker, woken, stopped, take, read_outcome, relay>>
        /\ UNCHANGED rx \/ reader' = "wake"
    BY <1>2 DEF ReaderReads, takeVars
  <2>2. ~rx.closed
    BY <1>0, <2>1 DEF LineFollows
  <2>. QED BY <1>0, <2>1, <2>2 DEF TakeTyped, TakeFollows, NothingSleeps
<1>3. CASE ReaderCloses
  <2>1. /\ reader = "closing" /\ UNCHANGED <<waker, woken, stopped, take, read_outcome, relay>> /\ reader' = "last_wake"
    BY <1>3 DEF ReaderCloses, takeVars
  <2>2. ~rx.closed
    BY <1>0, <2>1 DEF LineFollows
  <2>. QED BY <1>0, <2>1, <2>2 DEF TakeTyped, TakeFollows, NothingSleeps
<1>4. CASE ReaderWakes
  <2>1. waker' = FALSE /\ woken' = (woken \/ waker) /\ UNCHANGED <<stopped, take, read_outcome, rx, relay>>
    BY <1>4 DEF ReaderWakes, takeVars
  <2>2. waker \in BOOLEAN /\ woken \in BOOLEAN
    BY <1>0 DEF TakeTyped
  <2>3. woken' \in BOOLEAN
    BY <2>1, <2>2
  <2>4. relay = "run" /\ take \in {"look", "wait"} => woken'
    BY <1>0, <2>1 DEF TakeFollows
  <2>. QED BY <1>0, <2>1, <2>3, <2>4 DEF TakeTyped, TakeFollows, NothingSleeps
<1>5. CASE Registers
  <2>1. waker' = TRUE /\ woken' = FALSE /\ take' = "look" /\ UNCHANGED <<stopped, read_outcome, relay>>
    BY <1>5 DEF Registers, rxVars
  <2>. QED BY <1>0, <2>1 DEF TakeTyped, TakeFollows, NothingSleeps
<1>6. CASE Looks
  <2>1. relay = "run" /\ take = "look" /\ UNCHANGED <<reader, stopped, waker, woken, relay>>
    BY <1>6 DEF Looks
  <2>2. waker \/ woken
    BY <1>0, <2>1 DEF TakeFollows
  <2>3. PICK n :
          /\ n = IF Len(rx.bytes) < ChunkBytes THEN Len(rx.bytes) ELSE ChunkBytes
          /\ \/ take' = "poll" /\ UNCHANGED read_outcome
             \/ n = 0 /\ rx.closed /\ take' = "over" /\ read_outcome' = (IF rx.error THEN "error" ELSE "eof")
                /\ rx' = [rx EXCEPT !.error = FALSE]
             \/ n = 0 /\ ~rx.closed /\ take' = "wait" /\ UNCHANGED <<rx, read_outcome>>
    BY <1>6 DEF Looks
  <2>4. n = 0 => rx.bytes = <<>>
    <3>1. rx.bytes \in Seq(Nat) /\ Len(rx.bytes) \in Nat /\ ChunkBytes \in Nat \ {0}
      BY <1>0, LenProperties, SerialConsoleAssumption DEF LineTyped
    <3>2. n = 0 => Len(rx.bytes) = 0
      BY <2>3, <3>1
    <3>. QED BY <3>1, <3>2, EmptySeq
  <2>5. CASE take' = "poll" /\ UNCHANGED read_outcome
    BY <1>0, <2>1, <2>5 DEF TakeTyped, TakeFollows, NothingSleeps
  <2>6. CASE n = 0 /\ rx.closed /\ take' = "over" /\ read_outcome' = (IF rx.error THEN "error" ELSE "eof")
             /\ rx' = [rx EXCEPT !.error = FALSE]
    <3>1. rx'.bytes = rx.bytes /\ rx'.closed = rx.closed
      BY <1>0, <2>6 DEF LineTyped
    <3>. QED BY <1>0, <2>1, <2>4, <2>6, <3>1 DEF TakeTyped, TakeFollows, NothingSleeps
  <2>7. CASE n = 0 /\ ~rx.closed /\ take' = "wait" /\ UNCHANGED <<rx, read_outcome>>
    BY <1>0, <2>1, <2>2, <2>4, <2>7 DEF TakeTyped, TakeFollows, NothingSleeps
  <2>. QED BY <2>3, <2>5, <2>6, <2>7
<1>7. CASE OutputOverflows \/ SelectsResult \/ SendFails \/ ClientEnds \/ PowerOnFails \/ WriteFails
  <2>1. (WorkersEnd("ended") \/ WorkersEnd("drained")) /\ UNCHANGED <<waker, stopped, read_outcome>>
    BY <1>7 DEF OutputOverflows, SelectsResult, SendFails, ClientEnds, PowerOnFails, WriteFails, portVars, rxVars
  <2>. QED BY <1>0, <2>1, TakeEnds
<1>8. CASE StopsReader
  BY <1>0, <1>8 DEF StopsReader, takeVars, TakeTyped, TakeFollows, NothingSleeps
<1>9. CASE \/ BoardSends \/ LineIsCut \/ SocketOpens \/ SelectsOutput \/ SelectsPong \/ Sends
           \/ (\E n \in 1..QueueChunks : ControlArrives(n)) \/ Ping
           \/ PowerIsOn \/ StartsWriting \/ ReceivesInput \/ WritesInput \/ Transmits
           \/ ReaderJoined \/ Releases \/ UNCHANGED linkVars
  <2>1. UNCHANGED <<waker, woken, stopped, take, read_outcome, rx, reader>> /\ relay' \in {relay, "drain", "released"}
    BY <1>9 DEF BoardSends, LineIsCut, SocketOpens, SelectsOutput, SelectsPong, Sends, ControlArrives, Ping, PowerIsOn,
         StartsWriting, ReceivesInput, WritesInput, Transmits, ReaderJoined, Releases, linkVars, rxVars, takeVars
  <2>2. relay' \in {"run", "ended", "drained", "join", "drain", "released"} /\ (relay' = "run" => relay = "run")
    BY <1>0, <2>1 DEF TakeTyped
  <2>. QED BY <1>0, <2>1, <2>2, TakeStays
<1>. QED BY <1>1, <1>2, <1>3, <1>4, <1>5, <1>6, <1>7, <1>8, <1>9 DEF LinkNext

-----------------------------------------------------------------------------
(***************************************************************************)
(* The output                                                              *)
(***************************************************************************)
LEMMA ShowStays ==
  ASSUME ShowTyped, ShowFollows, UNCHANGED <<showVars, output, taken>>, relay' = "run" => relay = "run"
  PROVE  ShowTyped' /\ ShowFollows'
  BY DEF ShowTyped, ShowFollows, showVars, RunsFrom, Chained, EndIn

LEMMA ShowEnds ==
  ASSUME ShowTyped, ShowFollows, NEW how \in {"ended", "drained"}, WorkersEnd(how), UNCHANGED shown
  PROVE  ShowTyped' /\ ShowFollows'
<1>1. <<>> \in Seq(Nat) /\ <<>> \in Seq(Seq(Nat)) /\ Len(<<>>) = 0 /\ QueueChunks \in Nat /\ ControlMessages \in Nat
  BY EmptySeq, SerialConsoleAssumption
<1>2. relay' # "run" /\ output' = <<>> /\ show' = "opening" /\ message' = <<>> /\ pongs' = 0
  BY DEF WorkersEnd
<1>. QED BY <1>1, <1>2 DEF ShowTyped, ShowFollows, RunsFrom

LEMMA ShowKeeps == ASSUME LinkIInv, [LinkNext]_linkVars PROVE ShowTyped' /\ ShowFollows'
<1>0. ShowTyped /\ ShowFollows /\ LineTyped /\ LineFollows
  BY DEF LinkIInv
<1>a. /\ output \in Seq(Seq(Nat)) /\ message \in Seq(Nat) /\ shown \in Seq(Nat) /\ Len(output) \in Nat
      /\ Len(message) \in Nat /\ Len(shown) \in Nat /\ taken \in Nat /\ RunsFrom(shown, 0)
  BY <1>0, LenProperties DEF ShowTyped, ShowFollows, LineTyped
<1>1. CASE Looks
  <2>1. relay = "run" /\ UNCHANGED <<showVars, relay>>
    BY <1>1 DEF Looks
  <2>2. PICK n :
          /\ n = IF Len(rx.bytes) < ChunkBytes THEN Len(rx.bytes) ELSE ChunkBytes
          /\ \/ /\ n > 0 /\ Len(output) < QueueChunks /\ output' = Append(output, SubSeq(rx.bytes, 1, n))
                /\ taken' = taken + n
             \/ UNCHANGED <<output, taken>>
    BY <1>1 DEF Looks, Took
  <2>3. CASE UNCHANGED <<output, taken>>
    BY <1>0, <2>1, <2>3, ShowStays
  <2>4. CASE /\ n > 0 /\ Len(output) < QueueChunks /\ output' = Append(output, SubSeq(rx.bytes, 1, n))
             /\ taken' = taken + n
    <3>. DEFINE piece == SubSeq(rx.bytes, 1, n)
    <3>1. rx.bytes \in Seq(Nat) /\ Len(rx.bytes) \in Nat /\ ChunkBytes \in Nat /\ RunsFrom(rx.bytes, taken) /\ QueueChunks \in Nat
      BY <1>0, LenProperties, SerialConsoleAssumption DEF LineTyped, LineFollows
    <3>2. n \in 0..Len(rx.bytes)
      BY <2>2, <3>1
    <3>3. piece \in Seq(Nat) /\ Len(piece) = n /\ RunsFrom(piece, taken)
      BY <1>a, <3>1, <3>2, SplitRuns
    <3>. HIDE DEF piece
    <3>4. piece # <<>>
      BY <2>4, <3>3, EmptySeq
    <3>5. Chained(output, Len(shown) + Len(message), taken) /\ Len(shown) + Len(message) \in Nat
      BY <1>0, <1>a, <2>1 DEF ShowFollows
    <3>6. output' = Append(output, piece) /\ taken' = taken + Len(piece)
      BY <2>4, <3>3 DEF piece
    <3>7. output' \in Seq(Seq(Nat)) /\ Len(output') = Len(output) + 1 /\ Chained(output', Len(shown) + Len(message), taken')
      BY <1>a, <3>3, <3>4, <3>5, <3>6, AppendIsChained
    <3>8. ShowTyped'
      <4>1. Len(output') <= QueueChunks
        BY <1>a, <2>4, <3>1, <3>7
      <4>. QED BY <1>0, <2>1, <3>7, <4>1 DEF ShowTyped, showVars
    <3>9. ShowFollows'
      BY <1>0, <2>1, <3>7 DEF ShowFollows, showVars, RunsFrom, Chained, EndIn
    <3>. QED BY <3>8, <3>9
  <2>. QED BY <2>2, <2>3, <2>4
<1>2. CASE SocketOpens
  <2>1. relay = "run" /\ show = "opening" /\ show' = "select" /\ UNCHANGED <<output, taken, message, shown, pongs, relay>>
    BY <1>2 DEF SocketOpens, takeVars
  <2>. QED BY <1>0, <2>1 DEF ShowTyped, ShowFollows, RunsFrom, Chained, EndIn
<1>3. CASE SelectsOutput
  <2>1. /\ relay = "run" /\ show = "select" /\ output # <<>> /\ message' = Head(output) /\ output' = Tail(output)
        /\ show' = "send" /\ UNCHANGED <<taken, shown, pongs, relay>>
    BY <1>3 DEF SelectsOutput
  <2>2. message = <<>> /\ Chained(output, Len(shown) + Len(message), taken)
    BY <1>0, <2>1 DEF ShowFollows
  <2>3. Len(shown) + Len(message) = Len(shown)
    BY <1>a, <2>2, EmptySeq
  <2>4. Chained(output, Len(shown), taken)
    BY <2>2, <2>3
  <2>5. /\ message' \in Seq(Nat) /\ RunsFrom(message', Len(shown)) /\ output' \in Seq(Seq(Nat))
        /\ Len(output') = Len(output) - 1 /\ Chained(output', Len(shown) + Len(message'), taken)
    BY <1>a, <2>1, <2>4, TailIsChained
  <2>6. ShowTyped'
    <3>1. Len(output') <= QueueChunks
      BY <1>0, <1>a, <2>5, SerialConsoleAssumption DEF ShowTyped
    <3>. QED BY <1>0, <2>1, <2>5, <3>1 DEF ShowTyped
  <2>7. ShowFollows'
    BY <1>a, <2>1, <2>5 DEF ShowFollows, RunsFrom, Chained, EndIn
  <2>. QED BY <2>6, <2>7
<1>4. CASE SelectsPong
  <2>1. /\ relay = "run" /\ show = "select" /\ pongs > 0 /\ pongs' = pongs - 1 /\ message' = <<>> /\ show' = "send"
        /\ UNCHANGED <<output, taken, shown, relay>>
    BY <1>4 DEF SelectsPong, takeVars
  <2>2. message = <<>>
    BY <1>0, <2>1 DEF ShowFollows
  <2>3. pongs' \in 0..ControlMessages
    BY <1>0, <2>1, SerialConsoleAssumption DEF ShowTyped
  <2>. QED BY <1>0, <2>1, <2>2, <2>3 DEF ShowTyped, ShowFollows, RunsFrom, Chained, EndIn
<1>5. CASE Sends
  <2>1. /\ relay = "run" /\ shown' = shown \o message /\ message' = <<>> /\ show' = "select"
        /\ UNCHANGED <<output, taken, pongs, relay>>
    BY <1>5 DEF Sends, takeVars
  <2>2. RunsFrom(message, Len(shown)) /\ Chained(output, Len(shown) + Len(message), taken) /\ 0 + Len(shown) = Len(shown)
    BY <1>0, <1>a, <2>1 DEF ShowFollows
  <2>3. shown' \in Seq(Nat) /\ Len(shown') = Len(shown) + Len(message) /\ RunsFrom(shown', 0)
    BY <1>a, <2>1, <2>2, CatRuns
  <2>4. message' \in Seq(Nat) /\ Len(message') = 0
    BY <2>1, EmptySeq
  <2>5. Len(shown') + Len(message') = Len(shown) + Len(message)
    BY <1>a, <2>3, <2>4
  <2>6. ShowTyped'
    BY <1>0, <2>1, <2>3, <2>4 DEF ShowTyped
  <2>7. Chained(output', Len(shown') + Len(message'), taken')
    BY <2>1, <2>2, <2>5
  <2>8. ShowFollows'
    BY <2>1, <2>3, <2>4, <2>7 DEF ShowFollows, RunsFrom, Chained, EndIn
  <2>. QED BY <2>6, <2>8
<1>6. CASE Ping
  <2>1. pongs < ControlMessages /\ pongs' = pongs + 1 /\ UNCHANGED <<output, taken, show, message, shown, relay>>
    BY <1>6 DEF Ping, takeVars
  <2>2. pongs' \in 0..ControlMessages
    BY <1>0, <2>1, SerialConsoleAssumption DEF ShowTyped
  <2>. QED BY <1>0, <2>1, <2>2 DEF ShowTyped, ShowFollows, RunsFrom, Chained, EndIn
<1>7. CASE OutputOverflows \/ SelectsResult \/ SendFails \/ ClientEnds \/ PowerOnFails \/ WriteFails
  <2>1. (WorkersEnd("ended") \/ WorkersEnd("drained")) /\ UNCHANGED shown
    BY <1>7 DEF OutputOverflows, SelectsResult, SendFails, ClientEnds, PowerOnFails, WriteFails
  <2>. QED BY <1>0, <2>1, ShowEnds
<1>8. CASE \/ BoardSends \/ LineIsCut \/ ReaderChecks \/ ReaderReads \/ ReaderEnds \/ ReaderCloses \/ ReaderWakes \/ Registers
           \/ (\E n \in 1..QueueChunks : ControlArrives(n))
           \/ PowerIsOn \/ StartsWriting \/ ReceivesInput \/ WritesInput \/ Transmits
           \/ StopsReader \/ ReaderJoined \/ Releases \/ UNCHANGED linkVars
  <2>1. UNCHANGED <<showVars, output, taken>> /\ relay' \in {relay, "join", "drain", "released"}
    BY <1>8 DEF BoardSends, LineIsCut, ReaderChecks, ReaderReads, ReaderEnds, ReaderCloses, ReaderWakes, Registers,
         ControlArrives, PowerIsOn, StartsWriting, ReceivesInput, WritesInput, Transmits, StopsReader, ReaderJoined, Releases,
         linkVars, takeVars
  <2>. QED BY <1>0, <2>1, ShowStays
<1>. QED BY <1>1, <1>2, <1>3, <1>4, <1>5, <1>6, <1>7, <1>8 DEF LinkNext

-----------------------------------------------------------------------------
(***************************************************************************)
(* The commands                                                            *)
(***************************************************************************)
LEMMA PutStays ==
  ASSUME PutTyped, PutFollows, UNCHANGED putVars, relay' = "run" => relay = "run"
  PROVE  PutTyped' /\ PutFollows'
  BY DEF PutTyped, PutFollows, putVars, Whole, NextPiece

LEMMA PutEnds ==
  ASSUME PutTyped, PutFollows, NEW how \in {"ended", "drained"}, WorkersEnd(how), UNCHANGED <<asked, board_on, txq, written>>
  PROVE  PutTyped' /\ PutFollows'
<1>1. <<>> \in Seq(Pieces) /\ Len(<<>>) = 0 /\ QueueChunks \in Nat
  BY EmptySeq, SerialConsoleAssumption
<1>2. relay' # "run" /\ input' = <<>> /\ put' = "wait" /\ chunk' = <<>>
  BY DEF WorkersEnd
<1>. QED BY <1>1, <1>2 DEF PutTyped, PutFollows

LEMMA PutKeeps == ASSUME LinkIInv, [LinkNext]_linkVars PROVE PutTyped' /\ PutFollows'
<1>0. PutTyped /\ PutFollows
  BY DEF LinkIInv
<1>a. /\ asked \in Seq(Nat \ {0}) /\ input \in Seq(Pieces) /\ chunk \in Seq(Pieces) /\ written \in Seq(Pieces)
      /\ txq \in Seq(Pieces) /\ Len(input) \in Nat /\ Len(asked) \in Nat /\ Len(input) <= QueueChunks /\ QueueChunks \in Nat
  BY <1>0, LenProperties, SerialConsoleAssumption DEF PutTyped
<1>1. ASSUME NEW n \in 1..QueueChunks, ControlArrives(n) PROVE PutTyped' /\ PutFollows'
  <2>. DEFINE news == ChunksOf(Len(asked) + 1, n)
              all == written \o chunk \o input
  <2>1. /\ relay = "run" /\ n <= QueueChunks - Len(input) /\ asked' = Append(asked, n) /\ input' = input \o news
        /\ UNCHANGED <<board_on, put, chunk, txq, written, relay>>
    BY <1>1 DEF ControlArrives
  <2>2. n \in Nat \ {0} /\ Len(asked) + 1 \in Nat
    BY <1>a
  <2>3. news \in Seq(Pieces) /\ Len(news) = n
    BY <2>2, ChunksOfIs
  <2>4. written \o chunk \in Seq(Pieces) /\ all \in Seq(Pieces)
    BY <1>a, ConcatProperties
  <2>5. Whole(all, asked)
    BY <1>0, <2>1 DEF PutFollows
  <2>6. Whole(all \o news, Append(asked, n))
    BY <1>a, <2>2, <2>4, <2>5, AppendIsWhole
  <2>. HIDE DEF news
  <2>7. all \o news = written \o chunk \o (input \o news)
    <3>. DEFINE wc == written \o chunk
    <3>1. wc \in Seq(Pieces) /\ input \in Seq(Pieces) /\ news \in Seq(Pieces) /\ all = wc \o input
      BY <1>a, <2>3, <2>4
    <3>. HIDE DEF wc, all
    <3>2. (wc \o input) \o news = wc \o (input \o news)
      BY <3>1, PiecesAssociate
    <3>. QED BY <3>1, <3>2 DEF wc
  <2>8. Whole(written \o chunk \o input', asked')
    BY <2>1, <2>6, <2>7
  <2>9. asked' \in Seq(Nat \ {0})
    BY <1>a, <2>1, <2>2, AppendProperties
  <2>10. input' \in Seq(Pieces) /\ Len(input') <= QueueChunks
    <3>1. input' \in Seq(Pieces) /\ Len(input') = Len(input) + n
      BY <1>a, <2>1, <2>3, ConcatProperties
    <3>. QED BY <1>a, <2>1, <2>2, <3>1
  <2>11. PutTyped'
    BY <1>0, <2>1, <2>9, <2>10 DEF PutTyped
  <2>. HIDE DEF all
  <2>12. PutFollows'
    BY <1>0, <2>1, <2>8 DEF PutFollows, Whole, NextPiece
  <2>. QED BY <2>11, <2>12
<1>2. CASE ReceivesInput
  <2>. DEFINE h == <<Head(input)>>
              t == Tail(input)
  <2>1. /\ relay = "run" /\ put = "recv" /\ input # <<>> /\ chunk' = h /\ input' = t /\ put' = "write"
        /\ UNCHANGED <<asked, board_on, txq, written, relay>>
    BY <1>2 DEF ReceivesInput
  <2>2. h \in Seq(Pieces) /\ t \in Seq(Pieces) /\ input = h \o t /\ Len(input) = Len(t) + 1
    BY <1>a, <2>1, HeadAndTail
  <2>. HIDE DEF h, t
  <2>3. chunk = <<>> /\ Whole(written \o chunk \o input, asked)
    BY <1>0, <2>1 DEF PutFollows
  <2>4. written \o chunk = written
    BY <1>a, <2>3, ConcatEmptySeq
  <2>5. written \o input = written \o h \o t
    <3>0. written \in Seq(Pieces) /\ h \in Seq(Pieces) /\ t \in Seq(Pieces)
      BY <1>a, <2>2
    <3>1. (written \o h) \o t = written \o (h \o t)
      BY <3>0, PiecesAssociate, SMTT(30)
    <3>. QED BY <2>2, <3>1, Zenon
  <2>6. Whole(written \o chunk' \o input', asked)
    BY <2>1, <2>3, <2>4, <2>5
  <2>7. PutTyped'
    <3>1. Len(t) <= QueueChunks
      BY <1>a, <2>2, LenProperties
    <3>. QED BY <1>0, <2>1, <2>2, <3>1 DEF PutTyped
  <2>8. PutFollows'
    BY <1>0, <2>1, <2>6 DEF PutFollows, Whole, NextPiece
  <2>. QED BY <2>7, <2>8
<1>3. CASE WritesInput
  <2>1. /\ relay = "run" /\ put = "write" /\ txq' = txq \o chunk /\ written' = written \o chunk /\ chunk' = <<>>
        /\ put' = "recv" /\ UNCHANGED <<asked, input, board_on, relay>>
    BY <1>3 DEF WritesInput
  <2>2. Whole(written \o chunk \o input, asked) /\ board_on
    BY <1>0, <2>1 DEF PutFollows, PutTyped
  <2>3. written' \in Seq(Pieces) /\ txq' \in Seq(Pieces)
    BY <1>a, <2>1, ConcatProperties
  <2>4. written' \o chunk' = written'
    BY <2>1, <2>3, ConcatEmptySeq
  <2>5. Whole(written' \o chunk' \o input, asked)
    BY <2>1, <2>2, <2>4
  <2>6. chunk' \in Seq(Pieces)
    BY <2>1, EmptySeq
  <2>7. PutTyped'
    BY <1>0, <2>1, <2>3, <2>6 DEF PutTyped
  <2>8. PutFollows'
    BY <2>1, <2>2, <2>5 DEF PutFollows, Whole, NextPiece
  <2>. QED BY <2>7, <2>8
<1>4. CASE PowerIsOn
  <2>1. board_on' = TRUE /\ UNCHANGED <<asked, input, put, chunk, txq, written, relay>>
    BY <1>4 DEF PowerIsOn
  <2>. QED BY <1>0, <2>1 DEF PutTyped, PutFollows, Whole, NextPiece
<1>5. CASE StartsWriting
  <2>1. put = "wait" /\ board_on /\ put' = "recv" /\ UNCHANGED <<asked, input, board_on, chunk, txq, written, relay>>
    BY <1>5 DEF StartsWriting
  <2>. QED BY <1>0, <2>1 DEF PutTyped, PutFollows, Whole, NextPiece
<1>6. CASE Transmits
  <2>1. txq # <<>> /\ txq' = Tail(txq) /\ UNCHANGED <<asked, input, board_on, put, chunk, written, relay>>
    BY <1>6 DEF Transmits
  <2>2. txq' \in Seq(Pieces)
    BY <1>a, <2>1, HeadTailProperties
  <2>. QED BY <1>0, <2>1, <2>2 DEF PutTyped, PutFollows, Whole, NextPiece
<1>7. CASE Releases
  <2>1. relay = "drain" /\ relay' = "released" /\ txq' = <<>> /\ UNCHANGED <<asked, input, board_on, put, chunk, written>>
    BY <1>7 DEF Releases
  <2>2. txq' \in Seq(Pieces)
    BY <2>1, EmptySeq
  <2>. QED BY <1>0, <2>1, <2>2 DEF PutTyped, PutFollows
<1>8. CASE OutputOverflows \/ SelectsResult \/ SendFails \/ ClientEnds \/ PowerOnFails \/ WriteFails
  <2>1. (WorkersEnd("ended") \/ WorkersEnd("drained")) /\ UNCHANGED <<asked, board_on, txq, written>>
    BY <1>8 DEF OutputOverflows, SelectsResult, SendFails, ClientEnds, PowerOnFails, WriteFails, portVars
  <2>. QED BY <1>0, <2>1, PutEnds
<1>9. CASE \/ BoardSends \/ LineIsCut \/ ReaderChecks \/ ReaderReads \/ ReaderEnds \/ ReaderCloses \/ ReaderWakes
           \/ Registers \/ Looks \/ SocketOpens \/ SelectsOutput \/ SelectsPong \/ Sends \/ Ping
           \/ StopsReader \/ ReaderJoined \/ UNCHANGED linkVars
  <2>1. UNCHANGED putVars /\ relay' \in {relay, "join", "drain"}
    BY <1>9 DEF BoardSends, LineIsCut, ReaderChecks, ReaderReads, ReaderEnds, ReaderCloses, ReaderWakes, Registers, Looks,
         SocketOpens, SelectsOutput, SelectsPong, Sends, Ping, StopsReader, ReaderJoined, linkVars
  <2>. QED BY <1>0, <2>1, PutStays
<1>. QED BY <1>1, <1>2, <1>3, <1>4, <1>5, <1>6, <1>7, <1>8, <1>9 DEF LinkNext

-----------------------------------------------------------------------------
(***************************************************************************)
(* The end                                                                 *)
(***************************************************************************)
LEMMA EndKeeps == ASSUME LinkIInv, [LinkNext]_linkVars PROVE EndFollows' /\ DrainedIsAll'
<1>0. EndFollows /\ DrainedIsAll /\ TakeFollows /\ ShowFollows /\ LineFollows /\ ShowTyped
  BY DEF LinkIInv
\* The thread that has ended stays so, and what it has left is not read any more.
<1>1. CASE ReaderChecks \/ ReaderReads \/ ReaderEnds \/ ReaderCloses
  <2>1. reader \in {"check", "read", "closing"} /\ UNCHANGED <<relay, txq>>
    BY <1>1 DEF ReaderChecks, ReaderReads, ReaderEnds, ReaderCloses, putVars
  <2>. QED BY <1>0, <2>1 DEF EndFollows, DrainedIsAll
<1>2. CASE ReaderWakes
  <2>1. reader \in {"wake", "last_wake"} /\ (reader = "last_wake" => reader' = "done") /\ UNCHANGED <<relay, txq, rx, shown, taken>>
    BY <1>2 DEF ReaderWakes, putVars, showVars, takeVars
  <2>. QED BY <1>0, <2>1 DEF EndFollows, DrainedIsAll
<1>3. CASE SelectsResult
  <2>1. /\ relay = "run" /\ show = "select" /\ output = <<>> /\ take = "over" /\ relay' = "drained"
        /\ UNCHANGED <<rx, reader, shown, taken>>
    BY <1>3 DEF SelectsResult, WorkersEnd, portVars, rxVars
  <2>2. rx.closed /\ rx.bytes = <<>> /\ message = <<>> /\ Chained(output, Len(shown) + Len(message), taken)
    BY <1>0, <2>1 DEF TakeFollows, ShowFollows
  <2>3. taken = Len(shown) + Len(message)
    BY <2>1, <2>2, EmptySeq DEF Chained, EndIn
  <2>4. taken = Len(shown)
    BY <1>0, <2>2, <2>3, LenProperties, EmptySeq DEF ShowTyped
  <2>5. reader \in {"last_wake", "done"}
    BY <1>0, <2>2 DEF LineFollows
  <2>. QED BY <2>1, <2>2, <2>4, <2>5 DEF EndFollows, DrainedIsAll
<1>4. CASE OutputOverflows \/ SendFails \/ ClientEnds \/ PowerOnFails \/ WriteFails
  <2>1. relay' = "ended"
    BY <1>4 DEF OutputOverflows, SendFails, ClientEnds, PowerOnFails, WriteFails, WorkersEnd
  <2>. QED BY <2>1 DEF EndFollows, DrainedIsAll
<1>5. CASE StopsReader
  BY <1>5 DEF StopsReader, EndFollows, DrainedIsAll
<1>6. CASE ReaderJoined
  BY <1>6 DEF ReaderJoined, rxVars, EndFollows, DrainedIsAll
<1>7. CASE Releases
  BY <1>0, <1>7 DEF Releases, EndFollows, DrainedIsAll
<1>8. CASE Transmits
  <2>1. relay # "released" /\ UNCHANGED <<relay, reader, rx, shown, taken>>
    BY <1>8 DEF Transmits, rxVars, showVars, takeVars
  <2>. QED BY <1>0, <2>1 DEF EndFollows, DrainedIsAll
<1>9. CASE \/ Registers \/ Looks \/ SocketOpens \/ SelectsOutput \/ SelectsPong \/ Sends
           \/ (\E n \in 1..QueueChunks : ControlArrives(n)) \/ Ping \/ PowerIsOn \/ StartsWriting \/ ReceivesInput \/ WritesInput
  <2>1. relay = "run" /\ relay' = "run"
    BY <1>9 DEF Registers, Looks, SocketOpens, SelectsOutput, SelectsPong, Sends, ControlArrives, Ping, PowerIsOn,
         StartsWriting, ReceivesInput, WritesInput
  <2>. QED BY <2>1 DEF EndFollows, DrainedIsAll
<1>10. CASE BoardSends \/ LineIsCut \/ UNCHANGED linkVars
  <2>1. UNCHANGED <<relay, reader, rx, shown, taken, txq>>
    BY <1>10 DEF BoardSends, LineIsCut, linkVars, rxVars, showVars, takeVars, putVars
  <2>. QED BY <1>0, <2>1 DEF EndFollows, DrainedIsAll
<1>. QED BY <1>1, <1>2, <1>3, <1>4, <1>5, <1>6, <1>7, <1>8, <1>9, <1>10 DEF LinkNext

-----------------------------------------------------------------------------
(***************************************************************************)
(* The theorem                                                             *)
(***************************************************************************)
LEMMA LinkInitSound == LinkInit => LinkIInv
<1>. SUFFICES ASSUME LinkInit PROVE LinkIInv
  OBVIOUS
<1>0. /\ <<>> \in Seq(Nat) /\ <<>> \in Seq(Pieces) /\ <<>> \in Seq(Seq(Nat)) /\ <<>> \in Seq(Nat \ {0}) /\ Len(<<>>) = 0
  BY EmptySeq
<1>1. LineTyped /\ LineFollows
  <2>1. /\ rx \in [bytes : Seq(Nat), closed : BOOLEAN, error : BOOLEAN] /\ Len(rx.bytes) = 0 /\ ~rx.closed
        /\ rx.bytes = <<>>
    BY <1>0 DEF LinkInit
  <2>a. sent \in 0..MaxOutput /\ Len(rx.bytes) <= RxBytes /\ taken \in Nat
    BY <2>1, SerialConsoleAssumption DEF LinkInit
  <2>b. line \in Seq(Nat) /\ cut = "ok" /\ reader = "check" /\ line_failed = FALSE
    BY <1>0 DEF LinkInit
  <2>2. LineTyped
    BY <2>1, <2>a, <2>b DEF LineTyped
  <2>3. sent = 0 /\ line = <<>> /\ Len(line) = 0 /\ taken = 0 /\ reader = "check"
    BY <1>0 DEF LinkInit
  <2>4. RunsFrom(rx.bytes, taken) /\ RunsFrom(line, taken + Len(rx.bytes))
    BY <2>1, <2>3 DEF RunsFrom
  <2>. QED BY <2>1, <2>2, <2>3, <2>4 DEF LineFollows
<1>2. TakeTyped /\ TakeFollows /\ NothingSleeps
  BY DEF LinkInit, TakeTyped, TakeFollows, NothingSleeps
<1>3. ShowTyped
  BY <1>0, SerialConsoleAssumption DEF LinkInit, ShowTyped
<1>4. ShowFollows
  BY <1>0 DEF LinkInit, ShowFollows, RunsFrom, Chained, EndIn
<1>5. PutTyped
  <2>1. asked = <<>> /\ input = <<>> /\ chunk = <<>> /\ txq = <<>> /\ written = <<>> /\ board_on = FALSE /\ put = "wait"
    BY DEF LinkInit
  <2>2. Len(input) <= QueueChunks
    BY <1>0, <2>1, SerialConsoleAssumption
  <2>. QED BY <1>0, <2>1, <2>2, Zenon DEF PutTyped
<1>6. PutFollows
  <2>1. asked = <<>> /\ put = "wait" /\ written = <<>> /\ chunk = <<>> /\ input = <<>>
    BY DEF LinkInit
  <2>2. written \o chunk = <<>> /\ written \o chunk \o input = <<>>
    BY <1>0, <2>1, ConcatEmptySeq
  <2>. QED BY <1>0, <2>1, <2>2 DEF PutFollows, Whole
<1>7. EndFollows /\ DrainedIsAll
  BY DEF LinkInit, EndFollows, DrainedIsAll
<1>. QED BY <1>1, <1>2, <1>3, <1>4, <1>5, <1>6, <1>7 DEF LinkIInv

LEMMA LinkIInvIsEnough == ASSUME LinkIInv PROVE SerialLinkInv
<1>0. /\ LineTyped /\ TakeTyped /\ ShowTyped /\ PutTyped
      /\ LineFollows /\ TakeFollows /\ ShowFollows /\ PutFollows /\ EndFollows /\ DrainedIsAll /\ NothingSleeps
  BY DEF LinkIInv
<1>1. LinkTypeOK
  BY <1>0 DEF LinkTypeOK, LineTyped, TakeTyped, ShowTyped, PutTyped
<1>2. OutputIsWhole
  <2>1. /\ shown \in Seq(Nat) /\ message \in Seq(Nat) /\ output \in Seq(Seq(Nat)) /\ rx.bytes \in Seq(Nat) /\ taken \in Nat
        /\ Len(shown) \in Nat /\ Len(message) \in Nat /\ Len(output) \in Nat /\ DOMAIN output = 1..Len(output)
    BY <1>0, LenProperties DEF ShowTyped, LineTyped
  <2>2. shown = Numbered(1, Len(shown))
    <3>1. shown = Numbered(0 + 1, 0 + Len(shown))
      BY <1>0, <2>1, RunsIsNumbered DEF ShowFollows
    <3>2. 0 + 1 = 1 /\ 0 + Len(shown) = Len(shown)
      BY <2>1
    <3>. QED BY <3>1, <3>2
  <2>3. rx.bytes = Numbered(taken + 1, taken + Len(rx.bytes))
    BY <1>0, <2>1, RunsIsNumbered DEF LineFollows
  <2>4. ASSUME relay = "run"
        PROVE  /\ message = Numbered(Len(shown) + 1, Len(shown) + Len(message))
               /\ \A k \in DOMAIN output :
                    output[k] # <<>> /\ output[k] = Numbered(EndOf(k - 1) + 1, EndOf(k - 1) + Len(output[k]))
               /\ taken = EndOf(Len(output))
    <3>1. RunsFrom(message, Len(shown)) /\ Chained(output, Len(shown) + Len(message), taken)
      BY <1>0, <2>4 DEF ShowFollows
    <3>2. message = Numbered(Len(shown) + 1, Len(shown) + Len(message))
      BY <2>1, <3>1, RunsIsNumbered
    <3>3. \A k : EndOf(k) = EndIn(output, Len(shown) + Len(message), k)
      BY DEF EndOf, EndIn
    <3>4. taken = EndOf(Len(output))
      BY <3>1, <3>3 DEF Chained
    <3>5. ASSUME NEW k \in 1..Len(output)
          PROVE  output[k] # <<>> /\ output[k] = Numbered(EndOf(k - 1) + 1, EndOf(k - 1) + Len(output[k]))
      <4>1. output[k] \in Seq(Nat) /\ output[k] # <<>> /\ RunsFrom(output[k], EndOf(k - 1))
        BY <2>1, <3>1, <3>3, <3>5, ElementOfSeq DEF Chained
      <4>2. EndOf(k - 1) \in Nat
        <5>1. CASE k = 1
          BY <2>1, <5>1 DEF EndOf
        <5>2. CASE k # 1
          <6>1. k - 1 \in 1..Len(output) /\ k - 1 # 0
            BY <2>1, <5>2
          <6>2. output[k - 1] \in Seq(Nat) /\ output[k - 1] # <<>>
            BY <2>1, <3>1, <6>1, ElementOfSeq DEF Chained
          <6>3. Len(output[k - 1]) \in 1..Len(output[k - 1])
            BY <6>2, LenProperties, EmptySeq
          <6>4. output[k - 1][Len(output[k - 1])] \in Nat
            BY <6>2, <6>3, ElementOfSeq
          <6>. QED BY <6>1, <6>4 DEF EndOf
        <5>. QED BY <5>1, <5>2
      <4>. QED BY <4>1, <4>2, RunsIsNumbered
    <3>. QED BY <2>1, <3>2, <3>4, <3>5
  <2>. QED BY <2>2, <2>3, <2>4 DEF OutputIsWhole
<1>3. CommandsAreWhole
  <2>1. ASSUME relay = "run", NEW all, all = written \o chunk \o input
        PROVE  IF asked = <<>> THEN all = <<>>
               ELSE /\ all # <<>> /\ all[1] = <<1, 1>> /\ all[Len(all)] = <<Len(asked), asked[Len(asked)]>>
                    /\ \A i \in 1..(Len(all) - 1) : all[i + 1] = After(all[i])
    <3>1. written \o chunk \in Seq(Pieces) /\ input \in Seq(Pieces) /\ asked \in Seq(Nat \ {0})
      BY <1>0, ConcatProperties DEF PutTyped
    <3>2. all \in Seq(Pieces)
      BY <2>1, <3>1, ConcatProperties
    <3>3. Whole(all, asked)
      BY <1>0, <2>1 DEF PutFollows
    <3>. QED BY <3>1, <3>2, <3>3, WholeIsEnough
  <2>2. ~board_on => written = <<>> /\ put = "wait"
    BY <1>0 DEF PutFollows
  <2>. QED BY <2>1, <2>2, Zenon DEF CommandsAreWhole
<1>4. ReleasedIsClean
  BY <1>0 DEF EndFollows, ReleasedIsClean
<1>. QED BY <1>0, <1>1, <1>2, <1>3, <1>4 DEF SerialLinkInv

\* Whatever order the thread and the four workers run in, and whenever one of them returns: no byte of the board is
\* lost, doubled or out of order while the console runs, the end of the line is told after the last one, a command
\* reaches the port whole and not before the board is on, and the port that is given back is clean.
THEOREM LinkIsSound == LinkSpec => []SerialLinkInv
<1>1. LinkIInv /\ [LinkNext]_linkVars => LinkIInv'
  BY LineKeeps, TakeKeeps, ShowKeeps, PutKeeps, EndKeeps DEF LinkIInv
<1>2. LinkIInv => SerialLinkInv
  BY LinkIInvIsEnough
<1>. QED BY <1>1, <1>2, LinkInitSound, PTL DEF LinkSpec
=============================================================================
