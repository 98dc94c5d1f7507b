----------------------------- MODULE VirtualLab -----------------------------
(***************************************************************************)
(* The virtual lab: a network namespace with a bridge, TAP devices and a   *)
(* dnsmasq, and a veth pair that joins it to the host.  The commands up,   *)
(* status and down of `ostool-server virtual-lab` make it and remove it    *)
(* with one external command after another, any of which may fail or be    *)
(* the last before the program is killed; LabLock lets one command at a    *)
(* time work.  The kernel frees a namespace, and the end of the pair that  *)
(* is in it, some time after its name is deleted and the last process has  *)
(* left it.                                                                *)
(***************************************************************************)
EXTENDS Naturals

CONSTANT MaxMishaps \* bound: commands that fail, programs and daemons that are killed

ASSUME VirtualLabAssumption == MaxMishaps \in Nat

VARIABLES
  space,    \* the namespace has its name
  devices,  \* what is in it: the bridge, the TAPs
  pair,     \* "none", or where the inner end of the pair is: "host", "space", "lost"
  daemon,   \* the dnsmasq in the namespace: "none", "starts" (no pid file yet), "runs"
  stray,    \* the same, of the last whose namespace has lost its name
  pidFile,  \* "none", or whom dnsmasq.pid names: "daemon", "other" (gone, or stray)
  job,      \* the command that holds the lock
  outcome,  \* of the last command, until anything else happens: "none", "up", "down"
  failedUps, \* history: how many `up` in a row failed though nothing went wrong
  mishap,   \* history: something went wrong since the command began
  mishaps

labVars == <<space, devices, pair, daemon, stray, pidFile, job, outcome, failedUps, mishap, mishaps>>
network == <<space, devices, pair, daemon, stray, pidFile>>
labHistory == <<outcome, failedUps, mishap, mishaps>>

NoJob == [does |-> "nothing", at |-> "nothing", then |-> "end"]
AllDevices == {"bridge", "taps"}

LabInit ==
  /\ space = FALSE /\ devices = {} /\ pair = "none" /\ daemon = "none" /\ stray = "none" /\ pidFile = "none"
  /\ job = NoJob /\ outcome = "none" /\ failedUps = 0 /\ mishap = FALSE /\ mishaps = 0

To(at) == job' = [job EXCEPT !.at = at]

\* dnsmasq_process: the file names a dnsmasq that runs in the namespace.
DaemonIsFound == space /\ pidFile = "daemon" /\ daemon = "runs"

LabIsWhole == space /\ devices = AllDevices /\ pair = "space" /\ DaemonIsFound

\* run_virtual_lab: once the lock is taken.
BeginLab(what) ==
  /\ job = NoJob
  /\ job' = [does |-> what, then |-> "end",
             at |-> CASE what = "up" -> "find" [] what = "status" -> "check" [] what = "down" -> "stop"]
  /\ mishap' = FALSE /\ outcome' = "none"
  /\ UNCHANGED <<network, failedUps, mishaps>>

EndLab(ok) ==
  /\ job' = NoJob
  /\ outcome' = IF ~ok THEN "none" ELSE IF job.does = "down" THEN "down" ELSE "up"
  /\ failedUps' = IF job.does # "up" \/ mishap THEN failedUps ELSE IF ok THEN 0 ELSE failedUps + 1
  /\ UNCHANGED <<mishap, mishaps>>

-----------------------------------------------------------------------------
(***************************************************************************)
(* up and create_lab                                                       *)
(***************************************************************************)
FindsSpace ==
  /\ job.at = "find" /\ To(IF space THEN "check" ELSE "space")
  /\ UNCHANGED <<network, labHistory>>

\* create_lab fails: down removes what there is, and its own result does not matter.
CleanUp == job' = [job EXCEPT !.at = "stop", !.then = "fail"]

\* `ip netns add` and `ip link add` fail when the name is taken.
AddsSpace ==
  /\ job.at = "space"
  /\ IF space THEN CleanUp /\ UNCHANGED space ELSE space' = TRUE /\ To("pair")
  /\ UNCHANGED <<devices, pair, daemon, stray, pidFile, labHistory>>

AddsPair ==
  /\ job.at = "pair"
  /\ IF pair # "none" THEN CleanUp /\ UNCHANGED pair ELSE pair' = "host" /\ To("move")
  /\ UNCHANGED <<space, devices, daemon, stray, pidFile, labHistory>>

MovesPair ==
  /\ job.at = "move" /\ pair' = "space" /\ To("bridge")
  /\ UNCHANGED <<space, devices, daemon, stray, pidFile, labHistory>>

AddsDevices ==
  /\ job.at \in {"bridge", "taps"}
  /\ devices' = devices \cup {job.at} /\ To(IF job.at = "bridge" THEN "taps" ELSE "serve")
  /\ UNCHANGED <<space, pair, daemon, stray, pidFile, labHistory>>

StartsDaemon ==
  /\ job.at = "serve" /\ daemon' = "starts" /\ To("wait")
  /\ UNCHANGED <<space, devices, pair, stray, pidFile, labHistory>>

\* dnsmasq writes its file in its own time, also when nobody waits for it any more.
WritesPid ==
  \/ /\ daemon = "starts" /\ daemon' = "runs" /\ pidFile' = "daemon"
     /\ UNCHANGED <<space, devices, pair, stray, job, outcome, failedUps, mishap, mishaps>>
  \/ /\ stray = "starts" /\ stray' = "runs" /\ pidFile' = "other"
     /\ failedUps' = 0 /\ mishap' = TRUE /\ outcome' = "none"
     /\ UNCHANGED <<space, devices, pair, daemon, job, mishaps>>

\* Twenty looks at the file; the last of them may be too early.
SeesDaemon ==
  /\ job.at = "wait" /\ DaemonIsFound /\ To("confirm")
  /\ UNCHANGED <<network, labHistory>>

\* A lab that up has found and that is not whole is removed and made anew.
MakesAnew == job' = [job EXCEPT !.at = "stop", !.then = "create"]
FoundByUp == job.at = "check" /\ job.does = "up"

\* status, for itself, of the lab that up has found, and of the lab it has made.
ChecksLab ==
  /\ job.at \in {"check", "confirm"}
  /\ LET whole == space /\ pair # "none" /\ devices = AllDevices /\ DaemonIsFound
     IN IF ~whole /\ FoundByUp THEN MakesAnew /\ UNCHANGED labHistory ELSE EndLab(whole)
  /\ UNCHANGED network

-----------------------------------------------------------------------------
(***************************************************************************)
(* down: for itself, before a lab is made anew, or after one was not made  *)
(***************************************************************************)
StopsDaemon ==
  /\ job.at = "stop" /\ To("files")
  /\ daemon' = IF DaemonIsFound THEN "none" ELSE daemon
  /\ UNCHANGED <<space, devices, pair, stray, pidFile, labHistory>>

RemovesFiles ==
  /\ job.at = "files" /\ pidFile' = "none" /\ To("unname")
  /\ UNCHANGED <<space, devices, pair, daemon, stray, labHistory>>

\* The devices stay out of sight as long as a process keeps the namespace; the pair can still be seen.
DeletesSpace ==
  /\ job.at = "unname" /\ To("unlink")
  /\ IF ~space THEN UNCHANGED network
     ELSE /\ space' = FALSE /\ devices' = {}
          /\ pair' = IF pair = "space" THEN "lost" ELSE pair
          /\ stray' = IF daemon # "none" THEN daemon ELSE stray
          /\ daemon' = "none" /\ pidFile' = IF pidFile = "daemon" THEN "other" ELSE pidFile
  /\ UNCHANGED labHistory

\* What follows when down is done.
Down(ok) ==
  CASE job.then = "end" -> EndLab(ok)
    [] job.then = "fail" -> EndLab(FALSE)
    [] job.then = "create" -> IF ok THEN /\ job' = [job EXCEPT !.at = "space", !.then = "end"]
                                         /\ UNCHANGED labHistory
                              ELSE EndLab(FALSE)

\* Mutant: the pair is left to the kernel, which frees it with the namespace.
Mutant_LeavesPair ==
  /\ job.at = "unlink"
  /\ Down(TRUE) /\ UNCHANGED network

\* link_exists, then `ip link delete`: the kernel may have freed it in between.
Unlinks ==
  /\ job.at = "unlink"
  /\ IF pair = "none" THEN Down(TRUE) ELSE To("delete") /\ UNCHANGED labHistory
  /\ UNCHANGED network

DeletesPair ==
  /\ job.at = "delete"
  /\ Down(pair # "none") /\ pair' = "none"
  /\ UNCHANGED <<space, devices, daemon, stray, pidFile>>

-----------------------------------------------------------------------------
(***************************************************************************)
(* What happens by itself                                                  *)
(***************************************************************************)
\* The kernel frees a namespace without a name and without processes.
FreesPair ==
  /\ pair = "lost" /\ stray = "none" /\ pair' = "none"
  /\ UNCHANGED <<space, devices, daemon, stray, pidFile, job, labHistory>>

Mishap ==
  /\ mishaps < MaxMishaps /\ mishaps' = mishaps + 1
  /\ failedUps' = 0 /\ mishap' = TRUE /\ outcome' = "none"

CommandFails ==
  /\ job.at \in {"space", "pair", "move", "bridge", "taps", "serve", "wait"}
  /\ Mishap /\ CleanUp
  /\ UNCHANGED network

\* A command of down fails, or one that only looks; `kill` may fail without being noticed.
OtherFails ==
  /\ Mishap
  /\ \/ job.at = "stop" /\ To("files")
     \/ FoundByUp /\ MakesAnew
     \/ ~FoundByUp /\ job.at \in {"find", "check", "confirm"} /\ job' = NoJob
     \/ job.at \in {"files", "unname", "unlink", "delete"} /\ job' = NoJob
  /\ UNCHANGED network

Killed ==
  /\ job # NoJob /\ Mishap /\ job' = NoJob
  /\ UNCHANGED network

DaemonEnds ==
  \/ /\ daemon # "none" /\ Mishap /\ daemon' = "none"
     /\ pidFile' = IF pidFile = "daemon" THEN "other" ELSE pidFile
     /\ UNCHANGED <<space, devices, pair, stray, job>>
  \/ /\ stray # "none" /\ Mishap /\ stray' = "none"
     /\ UNCHANGED <<space, devices, pair, daemon, pidFile, job>>

LabNext ==
  \/ \E what \in {"up", "status", "down"} : BeginLab(what)
  \/ FindsSpace \/ AddsSpace \/ AddsPair \/ MovesPair \/ AddsDevices \/ StartsDaemon \/ WritesPid \/ SeesDaemon
  \/ ChecksLab \/ StopsDaemon \/ RemovesFiles \/ DeletesSpace \/ Unlinks \/ DeletesPair
  \/ FreesPair \/ CommandFails \/ OtherFails \/ Killed \/ DaemonEnds

LabSpec == LabInit /\ [][LabNext]_labVars

-----------------------------------------------------------------------------
LabTypeOK ==
  /\ space \in BOOLEAN /\ devices \subseteq AllDevices /\ pair \in {"none", "host", "space", "lost"}
  /\ daemon \in {"none", "starts", "runs"} /\ stray \in {"none", "starts", "runs"}
  /\ pidFile \in {"none", "daemon", "other"}
  /\ job \in [does : {"nothing", "up", "status", "down"}, then : {"end", "create", "fail"},
              at : {"nothing", "find", "check", "confirm", "space", "pair", "move", "bridge", "taps", "serve", "wait",
                    "stop", "files", "unname", "unlink", "delete"}]
  /\ outcome \in {"none", "up", "down"} /\ failedUps \in Nat /\ mishap \in BOOLEAN /\ mishaps \in 0..MaxMishaps

\* What is in the namespace is there only with it, in the order it was made in, unless a daemon has died.
MadeInOrder ==
  /\ ~space => devices = {} /\ daemon = "none" /\ pair # "space"
  /\ "taps" \in devices => "bridge" \in devices
  /\ daemon # "none" => devices = AllDevices
  /\ devices # {} => pair # "host"

\* A lab that is reported to be up is whole, one that is reported to be down has left nothing but
\* a dnsmasq that could not be found or killed; without a mishap there is none.
OutcomeIsTrue ==
  /\ outcome = "up" => LabIsWhole
  /\ outcome = "down" => ~space /\ pair = "none" /\ daemon = "none" /\ pidFile # "daemon"
  /\ mishaps = 0 => stray = "none"

\* Whatever an earlier command left, the second `up` succeeds if nothing goes wrong.
RecoversInTwo == failedUps < 2

\* virtual_lab.rs: what up and down report is true, and up recovers from what a failed or killed command left.
LabInv == LabTypeOK /\ MadeInOrder /\ OutcomeIsTrue /\ RecoversInTwo
=============================================================================
