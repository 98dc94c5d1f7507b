------------------------------ MODULE QemuBoot ------------------------------
(***************************************************************************)
(* What ostool prepares before it starts QEMU: the configuration file, the *)
(* OVMF firmware in the cache of the user, and the directory that QEMU     *)
(* shows to the firmware as a disk.  One ostool at a time; it may be       *)
(* killed between any two steps, and replaced by a newer or an older one   *)
(* that wants another firmware.  The guest may write what QEMU shows it.   *)
(***************************************************************************)
EXTENDS Integers, Sequences, SequencesExt

CONSTANTS
  Mirrors,     \* the servers with the archive, in the order of OVMF_MIRRORS
  Direct,      \* architectures where QEMU itself loads an initramfs
  Others,      \* the other ones that OVMF is built for
  NoArch,      \* the architecture is not known
  MaxReleases, \* bound: releases of the firmware
  MaxRuns      \* bound: runs, each with a BIN of its own

ASSUME QemuBootAssumption == MaxReleases \in Nat \ {0} /\ MaxRuns \in Nat /\ NoArch \notin Direct \cup Others

VARIABLES
  release,  \* Source::LATEST of the ostool that is installed
  files,    \* content of every file: the cache, the disk of the firmware, its variables
  configs,  \* the configuration files that exist
  used,     \* the configuration file that was last used, of every architecture
  job,      \* what the run is configured with
  step,     \* what ostool is about to do
  mirrors,  \* mirrors that are still to be tried
  runs,     \* runs so far
  loader,   \* what QEMU was told to load itself
  downgraded \* an older ostool has taken the place of a newer one (history)

qemuVars == <<release, files, configs, used, job, step, mirrors, runs, loader, downgraded>>

Absent == 0
Half == -1 \* truncated and not yet written

CacheFiles == {"code", "vars"}
GuestFiles == {"boot", "initramfs", "cmdline", "nvram"} \* what a guest can write: the disk, the variables
BootFiles == CacheFiles \cup {"sha256", "boot", "initramfs", "cmdline", "nvram"}
Archs == Direct \cup Others
Named(arch) == <<<<"qemu", arch>>, <<".qemu", arch>>>>
GuestWrote(n) == 100 + n \* whatever the guest of a run made of a file, nothing at all included

\* The initramfs 9 is an empty file.
Jobs == [uefi : BOOLEAN, arch : Archs, initramfs : {Absent, 1, 9}, cmdline : {Absent, 1}]
NoJob == [uefi |-> FALSE, arch |-> NoArch, initramfs |-> Absent, cmdline |-> Absent]
NoLoader == [kernel |-> Absent, initramfs |-> Absent, cmdline |-> Absent]

QemuInit ==
  /\ release = 1 /\ files = [f \in BootFiles |-> Absent]
  /\ configs \in SUBSET {Named(a)[1] : a \in Archs \cup {NoArch}} \* what the user wrote
  /\ used = [a \in Archs \cup {NoArch} |-> <<>>]
  /\ job = NoJob /\ step = "idle" /\ mirrors = <<>> /\ runs = 0 /\ loader = NoLoader
  /\ downgraded = FALSE

-----------------------------------------------------------------------------
(***************************************************************************)
(* The configuration file: .qemu-<arch>.toml and its relatives.            *)
(***************************************************************************)
candidates(arch) == IF arch = NoArch THEN Named(NoArch) ELSE Named(arch) \o Named(NoArch)

\* The first that is present, else the hidden one of the architecture.
resolve_qemu_config_path(arch, present) ==
  LET found == {i \in DOMAIN candidates(arch) : candidates(arch)[i] \in present}
  IN IF found # {} THEN candidates(arch)[CHOOSE i \in found : \A j \in found : i <= j] ELSE Named(arch)[2]

\* A configuration that is not there is written with the defaults.
EnsureConfig ==
  /\ step = "idle" /\ runs < MaxRuns /\ runs' = runs + 1
  /\ \E j \in Jobs, arch \in Archs \cup {NoArch} :
       /\ arch \in {j.arch, NoArch} /\ job' = j
       /\ LET path == resolve_qemu_config_path(arch, configs)
          IN configs' = configs \cup {path} /\ used' = [used EXCEPT ![arch] = path]
  /\ step' = "firmware" /\ loader' = NoLoader
  /\ UNCHANGED <<release, files, mirrors, downgraded>>

-----------------------------------------------------------------------------
(***************************************************************************)
(* update_cache: the file sha256 says which archive was unpacked.          *)
(***************************************************************************)
Write(f, content, next) ==
  \/ files[f] # Half /\ files' = [files EXCEPT ![f] = Half] /\ UNCHANGED step
  \/ files' = [files EXCEPT ![f] = content] /\ step' = next
Keep == UNCHANGED <<release, configs, used, job, runs, downgraded>>

CacheIsCurrent ==
  /\ step = "firmware" /\ job.uefi /\ files["sha256"] = release /\ step' = "esp"
  /\ Keep /\ UNCHANGED <<files, mirrors, loader>>

\* The mirror that answers a small request best comes first, one that does not answer comes last.
ranked_mirrors_by_probe(score) ==
  SortSeq([i \in DOMAIN Mirrors |-> i], LAMBDA i, j : score[i] > score[j] \/ (score[i] = score[j] /\ i < j))

ProbeMirrors ==
  /\ step = "firmware" /\ job.uefi /\ files["sha256"] # release /\ step' = "download"
  /\ \E score \in [DOMAIN Mirrors -> 0..2] : mirrors' = ranked_mirrors_by_probe(score)
  /\ Keep /\ UNCHANGED <<files, loader>>

\* A download with the right digest that can be decompressed is taken.
Download ==
  /\ step = "download" /\ mirrors # <<>> /\ step' = "clear" /\ mirrors' = <<>>
  /\ Keep /\ UNCHANGED <<files, loader>>
DownloadFails ==
  /\ step = "download" /\ mirrors # <<>> /\ mirrors' = Tail(mirrors)
  /\ step' = IF Len(mirrors) = 1 THEN "idle" ELSE "download"
  /\ Keep /\ UNCHANGED <<files, loader>>

\* remove_dir_all
ClearCache ==
  /\ step = "clear"
  /\ \/ \E f \in CacheFiles \cup {"sha256"} : files[f] # Absent /\ files' = [files EXCEPT ![f] = Absent] /\ UNCHANGED step
     \/ (\A f \in CacheFiles \cup {"sha256"} : files[f] = Absent) /\ step' = "extract" /\ UNCHANGED files
  /\ Keep /\ UNCHANGED <<mirrors, loader>>

\* Mutant: the digest is written before the files.
Mutant_hash_first ==
  /\ step = "extract"
  /\ \/ files["sha256"] # release /\ Write("sha256", release, "extract")
     \/ files["sha256"] = release /\ \E f \in CacheFiles : files[f] # release /\ Write(f, release, "extract")
     \/ (\A f \in CacheFiles : files[f] = release) /\ step' = "sha256" /\ UNCHANGED files
  /\ Keep /\ UNCHANGED <<mirrors, loader>>

Extract ==
  /\ step = "extract"
  /\ \/ \E f \in CacheFiles : files[f] # release /\ Write(f, release, "extract")
     \/ (\A f \in CacheFiles : files[f] = release) /\ step' = "sha256" /\ UNCHANGED files
  /\ Keep /\ UNCHANGED <<mirrors, loader>>

WriteHash ==
  /\ step = "sha256" /\ Write("sha256", release, "esp")
  /\ Keep /\ UNCHANGED <<mirrors, loader>>

-----------------------------------------------------------------------------
(***************************************************************************)
(* prepare_uefi_esp and prepare_uefi_vars, beside the BIN: the directory   *)
(* is used again by the next run of the same program, which writes these   *)
(* files anew; other files that a guest left in it stay.                   *)
(***************************************************************************)
CopyBin ==
  /\ step = "esp" /\ Write("boot", runs, "initramfs")
  /\ Keep /\ UNCHANGED <<mirrors, loader>>

\* What is not configured is removed; an empty initramfs is refused.
StageInitramfs ==
  /\ step = "initramfs"
  /\ IF job.initramfs = Absent THEN files' = [files EXCEPT !["initramfs"] = Absent] /\ step' = "cmdline"
     ELSE job.initramfs # 9 /\ Write("initramfs", job.initramfs, "cmdline")
  /\ Keep /\ UNCHANGED <<mirrors, loader>>

StageCmdline ==
  /\ step = "cmdline"
  /\ IF job.cmdline = Absent THEN files' = [files EXCEPT !["cmdline"] = Absent] /\ step' = "vars"
     ELSE Write("cmdline", job.cmdline, "vars")
  /\ Keep /\ UNCHANGED <<mirrors, loader>>

\* Every run starts with the variables as they are in the archive; without them it fails.
CopyVars ==
  /\ step = "vars" /\ files["vars"] # Absent /\ Write("nvram", files["vars"], "running")
  /\ Keep /\ UNCHANGED <<mirrors, loader>>

\* Without UEFI QEMU loads the kernel, the initramfs and the command line itself, where it can.
DirectBoot ==
  /\ step = "firmware" /\ ~job.uefi
  /\ job.initramfs # Absent \/ job.cmdline # Absent => job.arch \in Direct
  /\ loader' = [kernel |-> runs, initramfs |-> job.initramfs, cmdline |-> job.cmdline]
  /\ step' = "running" /\ Keep /\ UNCHANGED <<files, mirrors>>

-----------------------------------------------------------------------------
\* The disk of the firmware is fat:rw.  Without the firmware QEMU ends before there is a guest.
GuestWrites ==
  /\ step = "running" /\ job.uefi /\ files["code"] # Absent
  /\ \E f \in GuestFiles : files' = [files EXCEPT ![f] = GuestWrote(runs)]
  /\ Keep /\ UNCHANGED <<step, mirrors, loader>>

\* QEMU ends, a step fails, or ostool is killed.
QemuStops ==
  /\ step # "idle" /\ step' = "idle" /\ mirrors' = <<>> /\ job' = NoJob /\ loader' = NoLoader
  /\ UNCHANGED <<release, files, configs, used, runs, downgraded>>

ReplaceOstool ==
  /\ step = "idle" /\ release' \in (1..MaxReleases) \ {release}
  /\ downgraded' = (downgraded \/ release' < release)
  /\ UNCHANGED <<files, configs, used, job, step, mirrors, runs, loader>>

QemuNext ==
  \/ EnsureConfig
  \/ CacheIsCurrent \/ ProbeMirrors \/ Download \/ DownloadFails \/ ClearCache \/ Extract \/ WriteHash
  \/ CopyBin \/ StageInitramfs \/ StageCmdline \/ CopyVars \/ DirectBoot
  \/ GuestWrites \/ QemuStops \/ ReplaceOstool

QemuSpec == QemuInit /\ [][QemuNext]_qemuVars

-----------------------------------------------------------------------------
\* The digest in the cache is a promise, wherever an update was interrupted: no file beside it is of
\* another archive or cut short, and a run that finds the digest it wants finds every file of that
\* archive.  Only an older ostool that comes back may find a file gone: what the newer one was killed
\* removing, when remove_dir_all had left the digest.
FirmwareIsWhole ==
  /\ files["sha256"] \in 1..MaxReleases => \A f \in CacheFiles : files[f] \in {files["sha256"], Absent}
  /\ files["sha256"] = release /\ ~downgraded => \A f \in CacheFiles : files[f] = release

\* Of the kernel, the initramfs, the command line and the variables, the guest sees those of this run or
\* what it wrote over them itself in this run, nothing that an earlier guest or an earlier or an
\* interrupted run left in their place, beside the firmware of the same release or, after a return to
\* an older ostool, none.  A run reads the configuration file that an earlier one for the same
\* architecture read or wrote.
BootFilesAreOfThisRun ==
  /\ step = "running" =>
       IF job.uefi
       THEN /\ files["boot"] \in {runs, GuestWrote(runs)}
            /\ files["initramfs"] \in {job.initramfs, GuestWrote(runs)}
            /\ files["cmdline"] \in {job.cmdline, GuestWrote(runs)}
            /\ files["nvram"] \in {release, GuestWrote(runs)}
            /\ files["code"] = release \/ (downgraded /\ files["code"] = Absent)
       ELSE loader = [kernel |-> runs, initramfs |-> job.initramfs, cmdline |-> job.cmdline]
  /\ \A a \in DOMAIN used : used[a] # <<>> => used[a] = resolve_qemu_config_path(a, configs)

\* Whatever was interrupted before, and whatever earlier guests wrote, a guest runs what this run is about.
GuestSeesThisRun == FirmwareIsWhole /\ BootFilesAreOfThisRun
=============================================================================
