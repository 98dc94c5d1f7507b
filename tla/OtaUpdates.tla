----------------------------- MODULE OtaUpdates -----------------------------
(***************************************************************************)
(* Loader updates of one board: OtaStore (ota.rs) with its two files and   *)
(* its image directory, the reconciliation that delivers and confirms an   *)
(* update (device.rs), the discovery loop that starts and aborts it        *)
(* (loader.rs), and the device, which is external.                         *)
(*                                                                         *)
(* Update ids are numbers in the order of their creation; a boot epoch is  *)
(* the number of the boot.  A deadline is a flag, because it may be due at *)
(* any later decision.  The id of a direct upload stands for its source:   *)
(* a job's id only ever reaches the device from the server.                *)
(***************************************************************************)
EXTENDS Integers, FiniteSets

CONSTANTS
  Images,        \* image digests
  Base,          \* the image the device is delivered with
  Uploads,       \* bound: images that are put into the library
  DirectImages,  \* bound: images that are uploaded to the device directly
  MaxJobs,       \* bound: assignments created
  MaxBoots,      \* bound: boots of the device
  MaxFaults,     \* bound: failed writes and restarts of the server
  MaxAttempts    \* MAX_DELIVERY_ATTEMPTS

ASSUME OtaAssumption ==
  /\ Base \in Images /\ Uploads \subseteq Images /\ DirectImages \subseteq Images
  /\ MaxJobs \in Nat \ {0} /\ MaxBoots \in Nat \ {0} /\ MaxFaults \in Nat /\ MaxAttempts \in Nat \ {0}

VARIABLES
  job, job_disk,          \* the assignment of the board, in memory and in jobs.json
  obs, obs_disk,          \* its last observation, in memory and in devices.json
  catalog, meta, efi,     \* image_catalog; metadata and image files on disk
  ids,                    \* the assignments created so far are 1..ids
  dev, slot,              \* the device's status, and the image in its pending slot
  tpc, tepoch, tseen,     \* the reconciliation: its place, its announcement, what it observed
  tjob, tfail,            \* the job it delivers or confirms, the failure it will record
  puts, confirms,         \* requests on their way to the device
  faults,
  committed,              \* history: updates the device committed
  waited,                 \* history: the observation a waiting job was parked on
  torn,                   \* history: a write failed, or a decision stopped between its two writes
  unacked                 \* history: assignments whose creation was answered with an error

storeVars == <<job, job_disk, obs, obs_disk, ids, waited, torn, unacked>>
imageVars == <<catalog, meta, efi>>
deviceVars == <<dev, slot, committed>>
taskVars == <<tpc, tepoch, tseen, tjob, tfail>>
netVars == <<puts, confirms>>
vars == <<storeVars, imageVars, deviceVars, taskVars, netVars, faults>>

-----------------------------------------------------------------------------
Direct == MaxJobs + 1                       \* the id of a direct upload
UpdateIds == 0..Direct                      \* 0 is no update
OpenPhases == {"Queued", "Downloading", "Staged", "Confirming"}
TerminalPhases == {"Succeeded", "RolledBack", "Failed", "Cancelled"}
Outcomes == {"None", "Confirmed", "RolledBack", "Failed"}
Failures == {"None", "Rejected", "Conflict", "Unavailable", "Retryable"}

Job == [id : 0..MaxJobs, image : Images, phase : OpenPhases \cup TerminalPhases \cup {"None"},
        attempts : 0..MaxAttempts, delayed : BOOLEAN, waiting : BOOLEAN]
Status == [epoch : 0..MaxBoots, ota : BOOLEAN, active : Images, running : Images,
           pending : UpdateIds, trial : BOOLEAN, last : UpdateIds, outcome : Outcomes]
Put == [id : 1..MaxJobs, image : Images, epoch : 1..MaxBoots]
Confirmation == [id : 1..MaxJobs, epoch : 1..MaxBoots]

NoJob == [id |-> 0, image |-> Base, phase |-> "None", attempts |-> 0, delayed |-> FALSE, waiting |-> FALSE]
NoStatus == [epoch |-> 0, ota |-> FALSE, active |-> Base, running |-> Base,
             pending |-> 0, trial |-> FALSE, last |-> 0, outcome |-> "None"]

is_terminal(j) == j.phase \in TerminalPhases
is_open(j) == j.phase \in OpenPhases
Unsettled(s) == s.trial \/ s.pending # 0

\* What the device reports: a boot that cannot use its OTA storage reports no OTA state.
Reported == IF dev.ota THEN dev ELSE [NoStatus EXCEPT !.epoch = dev.epoch]

StoreTypes ==
  /\ job \in Job /\ job_disk \in Job
  /\ obs \in Status /\ obs_disk \in Status
  /\ ids \in 0..MaxJobs
  /\ waited \in Status /\ torn \in BOOLEAN /\ unacked \in SUBSET (1..MaxJobs)
ImageTypes == catalog \in SUBSET Images /\ meta \in SUBSET Images /\ efi \in SUBSET Images
DeviceTypes == dev \in Status /\ dev.epoch > 0 /\ slot \in Images /\ committed \in SUBSET UpdateIds
TaskTypes ==
  /\ tpc \in {"none", "announced", "observed", "update", "putting", "accepted", "recover", "found",
              "redecide", "failed", "confirm", "confirming", "confirmed", "verified"}
  /\ tepoch \in 0..MaxBoots /\ tseen \in Status
  /\ tjob \in [id : 0..MaxJobs, image : Images] /\ tfail \in Failures
NetTypes == puts \in SUBSET Put /\ confirms \in SUBSET Confirmation

\* Job, observation, device and task keep their types; the attempts of a job stay below the limit.
TypeOK ==
  /\ StoreTypes /\ ImageTypes /\ DeviceTypes /\ TaskTypes /\ NetTypes
  /\ faults \in 0..MaxFaults

Init ==
  /\ job = NoJob /\ job_disk = NoJob
  /\ obs = NoStatus /\ obs_disk = NoStatus
  /\ catalog = {} /\ meta = {} /\ efi = {}
  /\ ids = 0
  /\ dev = [NoStatus EXCEPT !.epoch = 1, !.ota = TRUE] /\ slot = Base
  /\ tpc = "none" /\ tepoch = 0 /\ tseen = NoStatus
  /\ tjob = [id |-> 0, image |-> Base] /\ tfail = "None"
  /\ puts = {} /\ confirms = {}
  /\ faults = 0
  /\ committed = {} /\ waited = NoStatus /\ torn = FALSE /\ unacked = {}

Fault == faults < MaxFaults /\ faults' = faults + 1

-----------------------------------------------------------------------------
(***************************************************************************)
(* Writing jobs.json.  atomic_write either changes nothing, or renames and *)
(* then fails to sync the directory: the error is the same, the file is    *)
(* not.  Memory is only changed after a write that succeeded.              *)
(***************************************************************************)
\* Mutant: the job is changed in memory and jobs.json is not written.
Mutant_memory_only(j) == job' = j /\ job_disk' = job_disk /\ torn' = torn

Saved(j) == job' = j /\ job_disk' = j /\ torn' = torn
SaveFails(j) == Fault /\ job' = job /\ job_disk' \in {job_disk, j} /\ torn' = TRUE

\* A write that is only made if something changed; a new error text counts, and is not modelled.
SavedIfChanged(j) ==
  /\ job' = j
  /\ job_disk' \in IF j = job THEN {job_disk, j} ELSE {j}
  /\ torn' = torn

-----------------------------------------------------------------------------
(***************************************************************************)
(* The image library.                                                      *)
(***************************************************************************)
\* put_image: the image file, then its metadata, then the catalog.
PutImage(i) ==
  /\ efi' = efi \cup {i}
  /\ meta' = meta \cup {i}
  /\ catalog' = catalog \cup {i}
  /\ UNCHANGED <<storeVars, deviceVars, taskVars, netVars, faults>>

\* One of the two writes fails: the catalog keeps what it had.
PutImageFails(i) ==
  /\ Fault
  /\ efi' \in {efi, efi \cup {i}}
  /\ meta' \in {meta, meta \cup {i}}
  /\ i \in meta' => i \in efi'
  /\ UNCHANGED <<catalog, storeVars, deviceVars, taskVars, netVars>>

InUse(i) == is_open(job) /\ job.image = i

\* delete_image: refused while an open assignment names the image; metadata first.
DeleteImage(i) ==
  /\ ~InUse(i)
  /\ i \in meta \cup efi
  /\ meta' = meta \ {i}
  /\ efi' = efi \ {i}
  /\ catalog' = catalog \ {i}
  /\ UNCHANGED <<storeVars, deviceVars, taskVars, netVars, faults>>

\* A removal fails; the catalog drops the image unless it can still be read.
DeleteImageFails(i) ==
  /\ ~InUse(i)
  /\ i \in meta \cup efi
  /\ Fault
  /\ meta' \in {meta, meta \ {i}}
  /\ efi' \in {efi, efi \ {i}}
  /\ i \in meta' => efi' = efi
  /\ catalog' = IF i \in meta' \cap efi' THEN catalog ELSE catalog \ {i}
  /\ UNCHANGED <<storeVars, deviceVars, taskVars, netVars>>

-----------------------------------------------------------------------------
(***************************************************************************)
(* Assignments.                                                            *)
(***************************************************************************)
Queueable(i) ==
  /\ i \in catalog
  /\ ~is_open(job)
  /\ obs.ota => ~Unsettled(obs) /\ obs.active # i

NewJob(i) ==
  [id |-> ids + 1, image |-> i, phase |-> "Queued", attempts |-> 0, delayed |-> FALSE, waiting |-> FALSE]

Queue(i) ==
  /\ ids < MaxJobs
  /\ Queueable(i)
  /\ ids' = ids + 1
  /\ Saved(NewJob(i))
  /\ UNCHANGED <<obs, obs_disk, waited, unacked, imageVars, deviceVars, taskVars, netVars, faults>>

QueueFails(i) ==
  /\ ids < MaxJobs
  /\ Queueable(i)
  /\ ids' = ids + 1
  /\ SaveFails(NewJob(i))
  /\ unacked' = unacked \cup {ids + 1}
  /\ UNCHANGED <<obs, obs_disk, waited, imageVars, deviceVars, taskVars, netVars>>

Moved(j, phase) == [j EXCEPT !.phase = phase, !.delayed = FALSE, !.waiting = FALSE]

\* cancel: devices.json first, then jobs.json, then both in memory.
Cancel ==
  /\ is_open(job)
  /\ obs' = NoStatus /\ obs_disk' = NoStatus
  /\ Saved(Moved(job, "Cancelled"))
  /\ UNCHANGED <<ids, waited, unacked, imageVars, deviceVars, taskVars, netVars, faults>>

\* The first write fails (jobs.json is not touched), or the second one does.
CancelFails ==
  /\ is_open(job)
  /\ obs' = obs
  /\ \/ Fault /\ obs_disk' \in {obs_disk, NoStatus} /\ UNCHANGED <<job, job_disk, torn>>
     \/ obs_disk' = NoStatus /\ SaveFails(Moved(job, "Cancelled"))
  /\ UNCHANGED <<ids, waited, unacked, imageVars, deviceVars, taskVars, netVars>>

-----------------------------------------------------------------------------
(***************************************************************************)
(* decide: what the reported status s means for job j.                     *)
(***************************************************************************)
\* The outcome the device recorded for this very assignment ends it.
OutcomePhase(j, s) ==
  CASE s.last = j.id /\ s.outcome = "Confirmed" /\ j.phase = "Confirming" /\ s.active = j.image -> "Succeeded"
    [] s.last = j.id /\ s.outcome \in {"RolledBack", "Failed"} -> s.outcome
    [] OTHER -> j.phase

OwnTrial(j, s) == s.trial /\ s.pending = j.id /\ s.running = j.image
OwnPending(j, s) == ~s.trial /\ s.pending = j.id
HeldBack(j, changed, due) == (j.waiting /\ ~changed) \/ (j.delayed /\ ~due)

\* Mutant: an image that is already active counts as this assignment's success.
Mutant_active_is_success(j, s, changed, idle, due) ==
  CASE OwnTrial(j, s) -> Moved(j, "Confirming")
    [] OwnPending(j, s) -> Moved(j, "Staged")
    [] ~Unsettled(s) /\ idle /\ s.active = j.image -> Moved(j, "Succeeded")
    [] ~Unsettled(s) /\ idle /\ s.active # j.image /\ ~HeldBack(j, changed, due)
         /\ j.phase \in {"Queued", "Downloading"} -> Moved(j, "Downloading")
    [] OTHER -> [j EXCEPT !.waiting = j.waiting /\ ~changed]

\* The job after an observation without a verdict: idle says whether the board is free, due
\* whether next_delivery_at has passed.
Progress(j, s, changed, idle, due) ==
  CASE OwnTrial(j, s) -> Moved(j, "Confirming")
    [] OwnPending(j, s) -> Moved(j, "Staged")
    [] ~Unsettled(s) /\ idle /\ s.active = j.image -> Moved(j, "Failed")
    [] ~Unsettled(s) /\ idle /\ s.active # j.image /\ ~HeldBack(j, changed, due)
         /\ j.phase \in {"Queued", "Downloading"} -> Moved(j, "Downloading")
    [] OTHER -> [j EXCEPT !.waiting = j.waiting /\ ~changed]

\* Mutant: a terminal assignment is looked at again.
Mutant_revive(j, s, changed, idle, due) ==
  CASE j.id = 0 -> j
    [] j.id # 0 /\ ~s.ota -> [j EXCEPT !.waiting = TRUE, !.delayed = FALSE]
    [] j.id # 0 /\ s.ota /\ OutcomePhase(j, s) # j.phase -> Moved(j, OutcomePhase(j, s))
    [] OTHER -> Progress(j, s, changed, idle, due)

DecidedJob(j, s, changed, idle, due) ==
  CASE ~is_open(j) -> j
    [] is_open(j) /\ ~s.ota -> [j EXCEPT !.waiting = TRUE, !.delayed = FALSE]
    [] is_open(j) /\ s.ota /\ OutcomePhase(j, s) # j.phase -> Moved(j, OutcomePhase(j, s))
    [] OTHER -> Progress(j, s, changed, idle, due)

Decision(j, s, changed, idle, due) ==
  LET n == DecidedJob(j, s, changed, idle, due)
  IN CASE is_open(n) /\ s.ota /\ OwnTrial(j, s) -> "Confirm"
       [] is_open(n) /\ s.ota /\ ~Unsettled(s) /\ idle /\ ~HeldBack(j, changed, due)
            /\ n.phase = "Downloading" -> "Update"
       [] Unsettled(s) \/ (is_open(n) /\ s.ota /\ idle) -> "Wait"
       [] OTHER -> "Idle"

Changed == obs # tseen

\* decide saves the observation, then the job, each if it changed.
Decided(n) ==
  /\ obs' = tseen
  /\ obs_disk' = IF Changed THEN tseen ELSE obs_disk
  /\ SavedIfChanged(n)
  /\ waited' = CASE is_open(job) /\ ~tseen.ota -> tseen
                 [] n.waiting /\ tseen.ota -> waited
                 [] OTHER -> NoStatus
  /\ UNCHANGED <<ids, unacked, faults>>

\* The first write fails; or the second one does, or the task is aborted while it waits for the
\* lock of the jobs: then the observation is stored and the job has not seen it.
DecideStops(n) ==
  /\ \/ /\ Changed /\ Fault
        /\ obs' = obs /\ obs_disk' \in {obs_disk, tseen}
        /\ torn' = TRUE
        /\ UNCHANGED <<job, job_disk>>
     \/ /\ obs' = tseen /\ obs_disk' = IF Changed THEN tseen ELSE obs_disk
        /\ n # job
        /\ SaveFails(n)
     \/ /\ Changed
        /\ obs' = tseen /\ obs_disk' = tseen
        /\ torn' = TRUE
        /\ UNCHANGED <<job, job_disk, faults>>
  /\ UNCHANGED <<ids, unacked, waited>>

-----------------------------------------------------------------------------
(***************************************************************************)
(* The discovery loop and the reconciliation it starts.                    *)
(***************************************************************************)
\* serve_udp_discovery: an announcement of the running epoch is dropped, one of another epoch,
\* late ones included, aborts the reconciliation and starts its own.
Announce(e) ==
  /\ tpc = "none" \/ e # tepoch
  /\ tpc' = "announced" /\ tepoch' = e
  /\ tseen' = NoStatus /\ tjob' = [id |-> 0, image |-> Base] /\ tfail' = "None"
  /\ UNCHANGED <<storeVars, imageVars, deviceVars, netVars, faults>>

\* The task goes on with its locals, or ends and they are gone.
At(here, next) == tpc = here /\ tpc' = next
Ends ==
  /\ tpc' = "none" /\ tepoch' = 0 /\ tseen' = NoStatus
  /\ tjob' = [id |-> 0, image |-> Base] /\ tfail' = "None"
TaskOnly == UNCHANGED <<storeVars, imageVars, deviceVars, netVars, faults>>

\* The status of the device is read; accept_announcement refuses another epoch.
Observe ==
  /\ tpc = "announced"
  /\ \/ dev.epoch = tepoch /\ tpc' = "observed" /\ tseen' = Reported /\ UNCHANGED <<tepoch, tjob, tfail>>
     \/ Ends
  /\ TaskOnly

\* The answer Update or Confirm carries the job; Wait and Idle end the part that is about updates.
Decide(idle, due) ==
  LET n == DecidedJob(job, tseen, Changed, idle, due)
      decision == Decision(job, tseen, Changed, idle, due)
      Carries(next) ==
        /\ tpc' = next
        /\ tjob' = [id |-> job.id, image |-> job.image]
        /\ tseen' = NoStatus
        /\ UNCHANGED <<tepoch, tfail>>
  IN /\ tpc = "observed"
     /\ \/ Decided(n) /\ decision = "Update" /\ Carries("update")
        \/ Decided(n) /\ decision = "Confirm" /\ Carries("confirm")
        \/ Decided(n) /\ decision \in {"Wait", "Idle"} /\ Ends
        \/ DecideStops(n) /\ Ends
     /\ UNCHANGED <<imageVars, deviceVars, netVars>>

\* push_ota_image: the file is read and checked, then sent.
PushImage ==
  /\ tjob.image \in efi
  /\ At("update", "putting")
  /\ puts' = puts \cup {[id |-> tjob.id, image |-> tjob.image, epoch |-> tepoch]}
  /\ UNCHANGED <<tepoch, tseen, tjob, tfail, confirms, storeVars, imageVars, deviceVars, faults>>

PushImageMissing ==
  /\ tjob.image \notin efi
  /\ At("update", "failed")
  /\ tfail' = "Rejected"
  /\ UNCHANGED <<tepoch, tseen, tjob>> /\ TaskOnly

\* The connection breaks or times out; the device may still get the image.
PushTimesOut ==
  /\ At("putting", "recover")
  /\ tfail' = "Retryable"
  /\ UNCHANGED <<tepoch, tseen, tjob>> /\ TaskOnly

\* recover_ota_delivery reads the status again.
Accepted(s) == s.pending = tjob.id /\ (s.trial => s.running = tjob.image)

Recover ==
  /\ tpc = "recover"
  /\ \/ /\ tpc' = "failed"
        /\ UNCHANGED <<tseen, tfail>>
     \/ /\ dev.epoch # tepoch /\ Accepted(Reported)
        /\ tpc' = "failed" /\ tfail' = "Conflict" /\ tseen' = tseen
     \/ /\ dev.epoch = tepoch
        /\ tpc' = "found" /\ tseen' = Reported /\ tfail' = tfail
  /\ UNCHANGED <<tepoch, tjob>> /\ TaskOnly

RecoverFound ==
  /\ tpc = "found"
  /\ IF job.id = tjob.id /\ is_open(job)
     THEN tpc' = "redecide" /\ UNCHANGED <<tepoch, tseen, tjob, tfail>>
     ELSE Ends
  /\ TaskOnly

RecoverDecide(idle, due) ==
  LET n == DecidedJob(job, tseen, Changed, idle, due)
  IN /\ tpc = "redecide"
     /\ \/ Decided(n) /\ Accepted(tseen) /\ Ends
        \/ Decided(n) /\ ~Accepted(tseen) /\ tpc' = "failed" /\ UNCHANGED <<tepoch, tseen, tjob, tfail>>
        \/ DecideStops(n) /\ Ends
     /\ UNCHANGED <<imageVars, deviceVars, netVars>>

\* record_delivery_failure
FailedJob(j, failure) ==
  CASE failure = "Rejected" -> Moved(j, "Failed")
    [] failure = "Conflict" -> [Moved(j, "Downloading") EXCEPT !.delayed = TRUE]
    [] failure = "Unavailable" -> [Moved(j, "Downloading") EXCEPT !.waiting = TRUE]
    [] failure = "Retryable" /\ j.attempts + 1 >= MaxAttempts -> [Moved(j, "Failed") EXCEPT !.attempts = j.attempts + 1]
    [] OTHER -> [Moved(j, "Downloading") EXCEPT !.attempts = j.attempts + 1, !.delayed = TRUE]

FailureApplies ==
  obs.epoch = tepoch /\ job.id = tjob.id /\ job.phase \in {"Queued", "Downloading"}

RecordFailure ==
  /\ tpc = "failed" /\ Ends
  /\ \/ ~FailureApplies /\ UNCHANGED <<job, job_disk, waited, torn, faults>>
     \/ FailureApplies /\ SaveFails(FailedJob(job, tfail)) /\ waited' = waited
     \/ /\ FailureApplies
        /\ Saved(FailedJob(job, tfail))
        /\ waited' = IF tfail = "Unavailable" THEN obs ELSE waited
        /\ faults' = faults
  /\ UNCHANGED <<obs, obs_disk, ids, unacked, imageVars, deviceVars, netVars>>

\* report: refused for another assignment, boot or phase order; a repetition is written again if
\* its error text is another one.
MayFollow ==
  ({"Queued", "Downloading"} \X {"Downloading", "Failed"}) \cup {<<"Downloading", "Staged">>}
    \cup ({"Staged", "Confirming"} \X {"Failed"}) \cup {<<"Confirming", "Succeeded">>}

Reportable(phase, active) ==
  /\ job.id = tjob.id /\ obs.epoch = tepoch /\ obs.ota
  /\ <<job.phase, phase>> \in MayFollow
  /\ phase = "Succeeded" => OwnTrial(job, obs) /\ active = job.image

Report(phase, active) ==
  /\ \/ Reportable(phase, active) /\ Saved(Moved(job, phase)) /\ faults' = faults
     \/ Reportable(phase, active) /\ SaveFails(Moved(job, phase))
     \/ /\ ~Reportable(phase, active)
        /\ job_disk' \in IF job.id = tjob.id /\ is_open(job) /\ job.phase = phase THEN {job_disk, job} ELSE {job_disk}
        /\ UNCHANGED <<job, torn, faults>>
  /\ UNCHANGED <<obs, obs_disk, waited, ids, unacked>>

ReportStaged ==
  /\ tpc = "accepted" /\ Ends
  /\ Report("Staged", job.image)
  /\ UNCHANGED <<imageVars, deviceVars, netVars>>

SendConfirm ==
  /\ At("confirm", "confirming")
  /\ confirms' = confirms \cup {[id |-> tjob.id, epoch |-> tepoch]}
  /\ UNCHANGED <<tepoch, tseen, tjob, tfail, puts, storeVars, imageVars, deviceVars, faults>>

ConfirmFails ==
  /\ tpc = "confirming" /\ Ends
  /\ TaskOnly

\* The status is read again after the answer 200; job_digest compares it with the job of that time.
CommittedStatus(s) ==
  /\ s.epoch = tepoch /\ s.ota /\ ~Unsettled(s)
  /\ s.last = tjob.id /\ s.outcome = "Confirmed"
  /\ s.active = s.running /\ s.active = job.image

VerifyConfirm ==
  /\ tpc = "confirmed"
  /\ \/ CommittedStatus(Reported) /\ tpc' = "verified" /\ tseen' = Reported /\ UNCHANGED <<tepoch, tjob, tfail>>
     \/ Ends
  /\ TaskOnly

ReportSucceeded ==
  /\ tpc = "verified" /\ Ends
  /\ Report("Succeeded", tseen.active)
  /\ UNCHANGED <<imageVars, deviceVars, netVars>>

-----------------------------------------------------------------------------
(***************************************************************************)
(* The server stops at any time, between two writes too, and reads its     *)
(* files again; requests it sent are still on their way.                   *)
(***************************************************************************)
Restart ==
  /\ Fault
  /\ job' = job_disk /\ obs' = obs_disk
  /\ catalog' = meta \cap efi
  /\ Ends
  /\ UNCHANGED <<job_disk, obs_disk, ids, waited, torn, unacked, meta, efi, deviceVars, netVars>>

-----------------------------------------------------------------------------
(***************************************************************************)
(* The device (external): it stages an image of its own boot, tries it on  *)
(* the next boot, commits it when confirmed in that boot and rolls back    *)
(* when it boots again unconfirmed.                                        *)
(***************************************************************************)
\* The reconciliation that sent request m may be gone.
Waits(here, m) == tpc = here /\ tjob.id = m.id /\ tepoch = m.epoch

\* A boot tries, rolls back or fails to load what is pending, and takes the connections nobody
\* waits on with it; o says whether the OTA storage can be used.
Boot(o) ==
  /\ dev.epoch < MaxBoots
  /\ \/ /\ dev.pending # 0 /\ ~dev.trial
        /\ dev' = [dev EXCEPT !.epoch = @ + 1, !.ota = o, !.trial = TRUE, !.running = slot]
     \/ /\ dev.pending # 0
        /\ dev' = [dev EXCEPT !.epoch = @ + 1, !.ota = o, !.trial = FALSE, !.running = dev.active,
                              !.pending = 0, !.last = dev.pending,
                              !.outcome = IF dev.trial THEN "RolledBack" ELSE "Failed"]
     \/ /\ dev.pending = 0
        /\ dev' = [dev EXCEPT !.epoch = @ + 1, !.ota = o]
  /\ puts' = {m \in puts : Waits("putting", m)}
  /\ confirms' = {m \in confirms : Waits("confirming", m)}
  /\ UNCHANGED <<slot, committed, storeVars, imageVars, taskVars, faults>>

Staged(id, i) == dev' = [dev EXCEPT !.pending = id] /\ slot' = i

DirectUpload(i) ==
  /\ dev.ota /\ ~Unsettled(dev)
  /\ Staged(Direct, i)
  /\ UNCHANGED <<committed, storeVars, imageVars, taskVars, netVars, faults>>

DirectConfirm ==
  /\ dev.trial /\ dev.pending = Direct
  /\ dev' = [dev EXCEPT !.active = dev.running, !.pending = 0, !.trial = FALSE,
                        !.last = Direct, !.outcome = "Confirmed"]
  /\ UNCHANGED <<slot, committed, storeVars, imageVars, taskVars, netVars, faults>>

\* The answer to a request.
Answered(here, m, next, failure) ==
  /\ tpc' = IF Waits(here, m) THEN next ELSE tpc
  /\ tfail' = IF Waits(here, m) THEN failure ELSE tfail
  /\ UNCHANGED <<tepoch, tseen, tjob>>
Refused(m) == IF Waits("confirming", m) THEN Ends ELSE UNCHANGED taskVars

DeviceStages(m) ==
  /\ m \in puts
  /\ puts' = puts \ {m}
  /\ m.epoch = dev.epoch /\ dev.ota /\ ~Unsettled(dev)
  /\ Staged(m.id, m.image)
  /\ \/ Answered("putting", m, "accepted", "None")
     \/ Answered("putting", m, "recover", "Retryable")
  /\ UNCHANGED <<committed, confirms, storeVars, imageVars, faults>>

\* 409, 503, a rejection of the image, another server error, or no answer at all.
DeviceRefuses(m) ==
  /\ m \in puts
  /\ puts' = puts \ {m}
  /\ \/ Answered("putting", m, "recover", "Conflict")
     \/ ~dev.ota /\ Answered("putting", m, "failed", "Unavailable")
     \/ m.epoch = dev.epoch /\ dev.ota /\ Answered("putting", m, "failed", "Rejected")
     \/ Answered("putting", m, "recover", "Retryable")
  /\ UNCHANGED <<confirms, deviceVars, storeVars, imageVars, faults>>

DeviceCommits(m) ==
  /\ m \in confirms
  /\ confirms' = confirms \ {m}
  /\ m.epoch = dev.epoch /\ dev.trial /\ dev.pending = m.id
  /\ dev' = [dev EXCEPT !.active = dev.running, !.pending = 0, !.trial = FALSE,
                        !.last = m.id, !.outcome = "Confirmed"]
  /\ committed' = committed \cup {m.id}
  /\ \/ Answered("confirming", m, "confirmed", "None")
     \/ Refused(m)
  /\ UNCHANGED <<slot, puts, storeVars, imageVars, faults>>

DeviceRejectsConfirm(m) ==
  /\ m \in confirms
  /\ confirms' = confirms \ {m}
  /\ Refused(m)
  /\ UNCHANGED <<puts, deviceVars, storeVars, imageVars, faults>>

-----------------------------------------------------------------------------
Store ==
  \/ \E i \in Uploads : PutImage(i) \/ PutImageFails(i) \/ DeleteImage(i) \/ DeleteImageFails(i)
  \/ \E i \in Uploads : Queue(i) \/ QueueFails(i)
  \/ Cancel \/ CancelFails
  \/ Restart

Task ==
  \/ \E e \in 1..dev.epoch : Announce(e)
  \/ Observe
  \/ \E idle, due \in BOOLEAN : Decide(idle, due) \/ RecoverDecide(idle, due)
  \/ PushImage \/ PushImageMissing \/ PushTimesOut
  \/ Recover \/ RecoverFound \/ RecordFailure
  \/ ReportStaged
  \/ SendConfirm \/ ConfirmFails \/ VerifyConfirm \/ ReportSucceeded

Device ==
  \/ \E o \in BOOLEAN : Boot(o)
  \/ \E i \in DirectImages : DirectUpload(i)
  \/ DirectConfirm
  \/ \E m \in puts : DeviceStages(m) \/ DeviceRefuses(m)
  \/ \E m \in confirms : DeviceCommits(m) \/ DeviceRejectsConfirm(m)

Next == Store \/ Task \/ Device

Spec == Init /\ [][Next]_vars

-----------------------------------------------------------------------------
(***************************************************************************)
(* Properties.                                                             *)
(***************************************************************************)
\* decide, "must never revive a terminal assignment": an assignment that has ended keeps its
\* phase until another is created, whatever is reported late, retried or read back after a restart.
TerminalStays ==
  [][is_terminal(job) => job' = job \/ job'.id > job.id]_vars

\* An update is recorded as succeeded only if the device committed it, and as long as every write
\* got through, one the device has committed is not recorded as failed or rolled back: at worst its
\* cancellation came too late, or a direct upload replaced the outcome before the server read it.
\* After torn writes the file may hold an earlier phase, and a restart then ends it as failed.
RecordsCommit(j) == j.phase \in {"Confirming", "Succeeded", "Cancelled"}
SucceededIsCommitted(j) == j.phase = "Succeeded" => j.id \in committed
ConfirmationIsExact ==
  /\ SucceededIsCommitted(job)
  /\ ~torn /\ job.id \in committed /\ dev.last = job.id => RecordsCommit(job)

\* The device never gets an image for an update whose outcome it has recorded: timeouts, lost
\* answers and late images of an earlier boot do not start a second trial.
NoSecondTrial == dev.pending # 0 => dev.pending # dev.last \/ dev.pending = Direct

\* delete_image and queue exclude each other: the image of an open assignment can be read. Only an
\* assignment whose creation failed after its rename, and came back with a restart, may miss it.
AssignedImageIsKept ==
  is_open(job) /\ job.id \notin unacked => job.image \in meta \cap efi

(***************************************************************************)
(* The inductive invariant of the store.                                   *)
(***************************************************************************)
\* Only an assignment that was never created has no phase; an open one has attempts left.
JobIsSound(j) ==
  /\ j.phase = "None" <=> j.id = 0
  /\ is_open(j) => j.attempts < MaxAttempts
  /\ j.id <= ids

\* jobs.json holds the assignment of memory, with its verdict if there is one; or a later one whose
\* creation was answered with an error.
DiskIsNotBehind ==
  \/ job_disk.id = job.id /\ job_disk.image = job.image /\ (is_terminal(job) => job_disk = job)
  \/ job_disk.id > job.id /\ job_disk.id \in unacked

CatalogIsReadable == catalog \subseteq meta \cap efi

\* A task that delivers or confirms does so for an assignment and for an announced boot; one that
\* recovers has a failure to record.
TaskIsBound ==
  /\ tpc # "none" => tepoch > 0
  /\ tpc \notin {"none", "announced", "observed"} => tjob.id > 0
  /\ tpc \in {"recover", "found", "redecide", "failed"} => tfail # "None"

\* What memory, files and task owe each other after any failed write and any restart.
StoreInv ==
  /\ TypeOK
  /\ JobIsSound(job) /\ JobIsSound(job_disk)
  /\ DiskIsNotBehind
  /\ CatalogIsReadable
  /\ TaskIsBound
  /\ AssignedImageIsKept

\* A job that waits for the device to change waits on what was last observed: no change is
\* overlooked, except when the write that should have followed the observation did not happen.
DeviceChangeIsSeen ==
  ~torn /\ job.waiting => obs \in {waited, NoStatus}

(***************************************************************************)
(* The inductive invariant of server and device: what the device, the      *)
(* requests on their way, the reconciliation and the record know of each   *)
(* other's boot and assignment.                                            *)
(***************************************************************************)
Engaged == tpc \notin {"none", "announced"}
Observing == tpc \in {"observed", "found", "redecide"}

\* An image for update id may still be accepted: it is on its way in this boot, or about to be sent.
Deliverable(id) ==
  \/ \E m \in puts : m.epoch = dev.epoch /\ m.id = id
  \/ tpc = "update" /\ tepoch = dev.epoch /\ tjob.id = id

\* A reconciliation that has read the status is the last one that has: nothing was sent in a later boot.
EpochsInOrder ==
  /\ tepoch <= dev.epoch
  /\ \A m \in puts : m.epoch <= dev.epoch /\ (Engaged => m.epoch <= tepoch)
  /\ \A m \in confirms : m.epoch <= dev.epoch /\ (Engaged => m.epoch <= tepoch)
  /\ Observing => tseen.epoch = tepoch

\* A trial runs what was staged; an outcome belongs to an update; only created updates are known.
DeviceIsSound ==
  /\ dev.trial => dev.pending # 0 /\ dev.running = slot
  /\ tseen.trial => tseen.pending # 0
  /\ dev.last # 0 => dev.outcome # "None"
  /\ dev.pending \in 0..ids \cup {Direct} /\ dev.last \in 0..ids \cup {Direct}
  /\ tjob.id <= ids
  /\ \A m \in puts : m.id <= ids

\* An assignment has one image, wherever it has got to.
HasOneImage(j) ==
  j.id > 0 =>
    /\ tjob.id = j.id => tjob.image = j.image
    /\ \A m \in puts : m.id = j.id => m.image = j.image
    /\ dev.pending = j.id => slot = j.image
    /\ dev.last = j.id /\ dev.outcome = "Confirmed" => dev.active = j.image

\* What may still be accepted is neither on trial in this boot nor already decided.
DeliveriesAreFresh ==
  \A id \in 1..ids : Deliverable(id) => id # dev.last /\ ~(dev.trial /\ dev.pending = id)

\* In the boot it was read in, a status without an update still holds but for what was staged since,
\* and a trial was on from the start.
SeenInThisBoot ==
  Observing /\ tepoch = dev.epoch /\ tseen.ota =>
    /\ ~Unsettled(tseen) => /\ ~dev.trial /\ dev.last = tseen.last
                            /\ dev.outcome = tseen.outcome /\ dev.active = tseen.active
    /\ dev.trial => /\ tseen.trial /\ tseen.pending = dev.pending
                    /\ tseen.running = dev.running /\ tseen.last = dev.last
    /\ tseen.trial => dev.trial \/ dev.last = tseen.pending

\* An update seen on trial in an earlier boot is not pending again.
SeenInEarlierBoot ==
  Observing /\ tepoch < dev.epoch /\ tseen.ota /\ tseen.trial =>
    dev.pending # tseen.pending \/ tseen.pending = Direct

\* What is reported as confirmed was committed, and what is recorded as succeeded too.
CommitsAreTrue ==
  /\ committed \subseteq 1..ids
  /\ dev.outcome = "Confirmed" => dev.last \in committed \cup {Direct}
  /\ tseen.outcome = "Confirmed" => tseen.last \in committed \cup {Direct}
  /\ tpc = "verified" => tseen.last = tjob.id /\ tseen.outcome = "Confirmed"

\* Without torn writes the files hold what memory holds.
FilesAreInStep ==
  /\ job_disk = job
  /\ obs_disk \in {obs, NoStatus}
  /\ job.waiting => is_open(job)

\* The device has committed the update last, or may do so on a confirmation in this boot.
Attested ==
  \/ job.id \in committed /\ dev.last = job.id
  \/ /\ dev.trial /\ dev.pending = job.id
     /\ \/ \E m \in confirms : m.id = job.id /\ m.epoch = dev.epoch
        \/ tpc = "confirm" /\ tepoch = dev.epoch /\ tjob.id = job.id

\* Without torn writes an update is committed once, and only when its record says so.
CommitIsRecorded ==
  /\ job.phase = "Confirming" => (dev.pending = job.id => dev.trial) /\ ~Deliverable(job.id)
  /\ \A id \in committed : dev.pending # id /\ ~Deliverable(id)
  /\ job.id \in committed => job.phase \notin {"Queued", "Downloading"}
  /\ dev.last \in committed => dev.outcome = "Confirmed"
  /\ Attested => RecordsCommit(job)

\* A decision that is still to be made on a committed update saw it on trial or confirmed.
CommitIsSeen ==
  Observing /\ tseen.ota /\ job.id \in committed /\ dev.last = job.id =>
    \/ tseen.trial /\ tseen.pending = job.id /\ tseen.running = job.image /\ tseen.last # job.id
    \/ tseen.last = job.id /\ tseen.outcome = "Confirmed" /\ tseen.active = job.image

\* What the server records and what the device did are one story.
TrialInv ==
  /\ ConfirmationIsExact /\ NoSecondTrial /\ DeviceChangeIsSeen
  /\ EpochsInOrder /\ DeviceIsSound
  /\ HasOneImage(job) /\ HasOneImage(job_disk)
  /\ DeliveriesAreFresh
  /\ SeenInThisBoot /\ SeenInEarlierBoot
  /\ CommitsAreTrue /\ SucceededIsCommitted(job_disk)
  /\ ~torn => FilesAreInStep /\ CommitIsRecorded /\ CommitIsSeen
=============================================================================
