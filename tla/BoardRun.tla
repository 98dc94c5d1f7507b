------------------------------ MODULE BoardRun ------------------------------
(***************************************************************************)
(* One invocation of `ostool run uboot`, `ostool board run` or `ostool     *)
(* board connect` from its first request to its exit code, beside others   *)
(* on the same host and the same board server.  "uboot" drives a board on  *)
(* a serial port of the host and stages its image under the host's TFTP    *)
(* root; "board" and "httpboot" hold a session of ostool-server and reach  *)
(* the board through its serial WebSocket; "connect" only opens the        *)
(* terminal.                                                               *)
(*                                                                         *)
(* What the console prints and how it is judged is ConsoleRun; how the     *)
(* server releases a session is BoardLease, of which this module keeps the *)
(* order: closing, power off, board free.                                  *)
(***************************************************************************)
EXTENDS Integers, Sequences, FiniteSets

CONSTANTS
  Procs,      \* ostool processes, one command each
  Plans,      \* what the processes run, with what the configurations decide
  Ports,      \* serial ports of the host, each with a board
  Board,      \* the board of the server
  Leaves,     \* staging_namespace_candidate: names under <tftp root>/ostool
  Leftover,   \* the directories that runs which were killed have left there
  CmdTries,   \* attempts of UbootShell::cmd and of loady
  None

VARIABLES
  job,      \* the command of each process
  pc,       \* where it is
  res,      \* run_result so far
  out,      \* what the command returns
  netOk,    \* net_ok of Runner::_run
  dir,      \* the staging directories
  file,     \* whose FIT image lies in each
  creator,  \* history: who created each
  staged,   \* the directory a run has claimed
  link,     \* the serial console of a run: SerialStreamTasks, or the open port
  holder,   \* server: whose session holds the board
  session,  \* server: the session of each process
  old,      \* server: the lease has not been renewed for almost its length
  upload,   \* server: whose image lies in the directory of each session
  beating,  \* run_heartbeat_loop runs
  target,   \* the boards
  faults    \* history: what went wrong in a run

vars == <<job, pc, res, out, netOk, dir, file, creator, staged, link, holder, session, old,
          upload, beating, target, faults>>
hostVars == <<dir, file, creator, staged>>
serverVars == <<holder, session, old, upload>>

Commands == {"uboot", "board", "httpboot", "connect"}
JobType == [cmd : Commands, port : Ports \cup {Board}, net : {"none", "dhcp", "static"},
            checks : BOOLEAN, reset : BOOLEAN, off : BOOLEAN, setup : BOOLEAN, serial : BOOLEAN]
ASSUME RunAssumption ==
  /\ CmdTries \in Nat \ {0}
  /\ Board \notin Ports /\ None \notin Procs \cup Leaves /\ Procs \cap Leaves = {}
  /\ Plans \subseteq [Procs -> JobType]
  /\ \A plan \in Plans, p \in Procs : (plan[p].port = Board) <=> (plan[p].cmd # "uboot")

Targets == Ports \cup {Board}
Owner == Procs \cup {None}
Results == {"none", "ok", "err"}
\* A staging directory could not be removed, or anything else went wrong.
Faults == {"staging", "other"}
Ended == {"returned", "dead"}
Stages == {"start", "acquire", "setup", "attach", "resolve", "tftpd", "dtb",
           "open", "reset", "shell", "env",
           "stage", "chown", "copy", "load", "boot", "console", "finish", "after", "release",
           "delete"} \cup Ended
\* Before the runner has dropped its side of the console.
Running(p) == pc[p] \notin {"finish", "after", "release", "delete"} \cup Ended

TypeOK ==
  /\ job \in Plans
  /\ pc \in [Procs -> Stages]
  /\ res \in [Procs -> Results]
  /\ out \in [Procs -> Results]
  /\ netOk \in [Procs -> BOOLEAN]
  /\ dir \in [Leaves -> {"free", "there", "gone"}]
  /\ file \in [Leaves -> Owner]
  /\ creator \in [Leaves -> Owner]
  /\ staged \in [Procs -> Leaves \cup {None}]
  /\ link \in [Procs -> [st : {"none", "open", "closed"}, msg : BOOLEAN, read : {"open", "ok", "err"}]]
  /\ holder \in Owner
  /\ session \in [Procs -> {"none", "active", "closing", "gone"}]
  /\ old \in [Procs -> BOOLEAN]
  /\ upload \in [Procs -> Owner]
  /\ beating \in [Procs -> BOOLEAN]
  /\ target \in [Targets -> [on : BOOLEAN, image : Owner, boot : Leaves \cup Owner, kernel : Owner]]
  /\ faults \in [Procs -> SUBSET Faults]

Off == [on |-> FALSE, image |-> None, boot |-> None, kernel |-> None]
Prompt == [Off EXCEPT !.on = TRUE]
NoLink == [st |-> "none", msg |-> FALSE, read |-> "open"]
OpenLink == [NoLink EXCEPT !.st = "open"]

Init ==
  /\ job \in Plans
  /\ pc = [p \in Procs |-> "start"]
  /\ res = [p \in Procs |-> "none"]
  /\ out = [p \in Procs |-> "none"]
  /\ netOk = [p \in Procs |-> FALSE]
  /\ dir = [l \in Leaves |-> IF l \in Leftover THEN "there" ELSE "free"]
  /\ file = [l \in Leaves |-> None]
  /\ creator = [l \in Leaves |-> None]
  /\ staged = [p \in Procs |-> None]
  /\ link = [p \in Procs |-> NoLink]
  /\ holder = None
  /\ session = [p \in Procs |-> "none"]
  /\ old = [p \in Procs |-> FALSE]
  /\ upload = [p \in Procs |-> None]
  /\ beating = [p \in Procs |-> FALSE]
  /\ target = [t \in Targets |-> Off]
  /\ faults = [p \in Procs |-> {}]

-----------------------------------------------------------------------------
(* Steps of a process.                                                     *)

Cmd(p) == job[p].cmd
Remote(p) == Cmd(p) # "uboot"
Target(p) == target[job[p].port]
Active(p) == session[p] = "active"
Go(p, stage) == pc' = [pc EXCEPT ![p] = stage]

\* The error goes to the clean-up of the runner when there is one, else to finalize_session.
Fail(p) ==
  /\ res' = [res EXCEPT ![p] = "err"]
  /\ faults' = [faults EXCEPT ![p] = @ \cup {"other"}]
  /\ Go(p, IF Cmd(p) \in {"uboot", "board"} \/ link[p].st # "none" THEN "finish" ELSE "release")
Return(p, r) ==
  /\ out' = [out EXCEPT ![p] = r]
  /\ Go(p, "returned")

\* Building the artifacts comes before the board is asked for.
Start(p) ==
  /\ pc[p] = "start"
  /\ \/ Go(p, IF Remote(p) THEN "acquire" ELSE "resolve") /\ UNCHANGED out
     \/ Return(p, "err")
  /\ UNCHANGED <<job, res, netOk, hostVars, link, serverVars, beating, target, faults>>

\* acquire_session_with: a busy board is asked for again a second later.
create_session(p, reply) ==
  /\ holder = None
  /\ holder' = p
  /\ session' = [session EXCEPT ![p] = "active"]
  /\ IF reply
       THEN /\ Go(p, IF Cmd(p) = "connect" THEN "attach" ELSE "setup")
            /\ beating' = [beating EXCEPT ![p] = TRUE]
            /\ UNCHANGED out
       ELSE Return(p, "err") /\ UNCHANGED beating
Acquire(p) ==
  /\ pc[p] = "acquire"
  /\ \/ \E reply \in BOOLEAN : create_session(p, reply)
     \/ Return(p, "err") /\ UNCHANGED <<holder, session, beating>>
  /\ UNCHANGED <<job, res, netOk, hostVars, link, old, upload, target, faults>>

\* The context and the shared files of the session; a session that is gone answers 404.
Setup(p) ==
  /\ pc[p] = "setup"
  /\ \/ /\ Active(p) \/ ~job[p].setup
        /\ Go(p, "resolve")
        /\ UNCHANGED <<res, faults>>
     \/ job[p].setup /\ Fail(p)
  /\ UNCHANGED <<job, out, netOk, hostVars, link, serverVars, beating, target>>

\* connect_allocated_board: the errors before the terminal leave by `?`, which
\* drops the session without releasing it; Drop stops the heartbeat.
Mutant_LeakHeartbeat(p) ==
  /\ Return(p, "err")
  /\ UNCHANGED <<res, link, beating, target, faults>>
LeaveByQuestionMark(p) ==
  /\ Return(p, "err")
  /\ beating' = [beating EXCEPT ![p] = FALSE]
  /\ UNCHANGED <<res, link, target, faults>>
Attach(p) ==
  /\ pc[p] = "attach"
  /\ \/ LeaveByQuestionMark(p)
     \/ /\ job[p].serial /\ Active(p)
        /\ link' = [link EXCEPT ![p] = OpenLink]
        /\ target' = [target EXCEPT ![Board] = Prompt]
        /\ Go(p, "console")
        /\ UNCHANGED <<res, out, beating, faults>>
     \/ job[p].serial /\ Fail(p) /\ UNCHANGED <<out, link, beating, target>>
     \/ /\ ~job[p].serial                          \* Ctrl-C ends the wait
        /\ res' = [res EXCEPT ![p] = "ok"]
        /\ Go(p, "release")
        /\ UNCHANGED <<out, link, beating, target, faults>>
  /\ UNCHANGED <<job, netOk, hostVars, serverVars>>

\* A request about the session, or a step on the host, that may fail; a session
\* that is gone refuses every request.
Request(p, from, to) ==
  /\ pc[p] = from
  /\ \/ (Remote(p) => Active(p)) /\ Go(p, to) /\ UNCHANGED <<res, faults>>
     \/ Fail(p)
  /\ UNCHANGED <<job, out, netOk, hostVars, link, holder, session, old, beating, target>>

local_resolve_runtime(p) ==
  /\ Cmd(p) = "uboot"
  /\ Request(p, "resolve", IF job[p].net # "none" THEN "tftpd" ELSE "open")
  /\ UNCHANGED upload
\* A tftpd that is installed, configured and listens on port 69.
ensure_linux_tftpd_hpa(p) == Request(p, "tftpd", "open") /\ UNCHANGED upload

remote_resolve_runtime(p) ==
  /\ Cmd(p) = "board"
  /\ Request(p, "resolve", "dtb")
  /\ UNCHANGED upload
prepare_dtb(p) == Request(p, "dtb", "open") /\ UNCHANGED upload

upload_http_boot_kernel(p) ==
  /\ Cmd(p) = "httpboot"
  /\ Request(p, "resolve", "open")
  /\ upload' = [upload EXCEPT ![p] = IF res'[p] = "err" THEN @ ELSE p]

\* A serial port opens once.
PortFree(p) == \A q \in Procs : job[q].port = job[p].port => link[q].st # "open"
local_open_console(p) ==
  /\ pc[p] = "open" /\ Cmd(p) = "uboot"
  /\ \/ /\ PortFree(p)
        /\ link' = [link EXCEPT ![p] = OpenLink]
        /\ Go(p, "reset")
        /\ UNCHANGED <<res, faults>>
     \/ Fail(p) /\ UNCHANGED link
  /\ UNCHANGED <<job, out, netOk, hostVars, serverVars, beating, target>>
\* The server powers the board when the WebSocket opens; a loader then boots by itself.
connect_serial_stream(p) ==
  /\ pc[p] = "open" /\ Remote(p)
  /\ \/ /\ Active(p)
        /\ link' = [link EXCEPT ![p] = OpenLink]
        /\ Go(p, IF Cmd(p) = "httpboot" THEN "console" ELSE "reset")
        /\ target' = [target EXCEPT ![Board] =
                        IF Cmd(p) = "httpboot" THEN [Prompt EXCEPT !.boot = p] ELSE Prompt]
        /\ UNCHANGED <<res, faults>>
     \/ Fail(p) /\ UNCHANGED <<link, target>>
  /\ UNCHANGED <<job, out, netOk, hostVars, serverVars, beating>>

after_console_open(p) ==
  /\ pc[p] = "reset"
  /\ \/ /\ Go(p, "shell")
        /\ target' = IF Cmd(p) = "uboot" /\ job[p].reset THEN [target EXCEPT ![job[p].port] = Prompt]
                     ELSE target
        /\ UNCHANGED <<res, faults>>
     \/ Cmd(p) = "uboot" /\ job[p].reset /\ Fail(p) /\ UNCHANGED target
  /\ UNCHANGED <<job, out, netOk, hostVars, link, serverVars, beating>>

\* "Waiting for board on power or reset...": somebody presses the button.
UserReset(t) ==
  /\ \E p \in Procs : pc[p] = "shell" /\ job[p].port = t /\ t # Board
  /\ target[t] # Prompt
  /\ target' = [target EXCEPT ![t] = Prompt]
  /\ UNCHANGED <<job, pc, res, out, netOk, hostVars, link, serverVars, beating, faults>>

-----------------------------------------------------------------------------
(* The U-Boot shell.                                                       *)

Connected(p) == link[p].st = "open" /\ link[p].read = "open" /\ ~link[p].msg
\* At the prompt and connected: a byte that is sent is echoed, a reply comes back.
Answers(p) == Connected(p) /\ Target(p).on /\ Target(p).kernel = None

\* One attempt of a command: executed and answered, executed with the answer
\* lost or with a failure status, or never sent whole.
send_echoed_command(p) == IF Answers(p) THEN {"done", "lost", "unsent"} ELSE {"unsent"}
ymodem_send(p) == IF Answers(p) THEN {"done", "lost"} ELSE {"lost"}
\* A failed attempt is tried again at a new prompt, which may not come.
Tries(attempts) ==
  UNION {{t \in [1..n -> attempts] : \A i \in 1..(n - 1) : t[i] # "done"} : n \in 1..CmdTries}
cmd(p) == {t[Len(t)] = "done" : t \in Tries(send_echoed_command(p))}
loady(p) == {t[Len(t)] = "done" : t \in Tries(ymodem_send(p))}

\* wait_for_interrupt stops a boot command that is still loading.
wait_for_shell(p) ==
  /\ pc[p] = "shell"
  /\ \/ /\ Answers(p)
        /\ target' = [target EXCEPT ![job[p].port].boot = None]
        /\ Go(p, "env")
        /\ UNCHANGED <<res, faults>>
     \/ Fail(p) /\ UNCHANGED target              \* the shell timeout
  /\ UNCHANGED <<job, out, netOk, hostVars, link, serverVars, beating>>

\* The variables before the image is made; only the network probe may fail.
set_env(p) ==
  /\ pc[p] = "env"
  /\ \/ /\ TRUE \in cmd(p)
        /\ \E probe \in cmd(p) : netOk' = [netOk EXCEPT ![p] = probe /\ job[p].net # "none"]
        /\ Go(p, "stage")
        /\ UNCHANGED <<res, faults>>
     \/ FALSE \in cmd(p) /\ Fail(p) /\ UNCHANGED netOk
  /\ UNCHANGED <<job, out, hostVars, link, serverVars, beating, target>>

\* The image comes over the network, or over the serial line with loady.
build_network_boot_request(p) ==
  /\ staged[p] # None \/ upload[p] # None
  /\ job[p].net = "static" \/ netOk[p]
bootfile(p) == IF staged[p] # None THEN staged[p] ELSE p

Load(p) ==
  LET results == IF build_network_boot_request(p) THEN cmd(p) ELSE loady(p)
  IN /\ pc[p] = "load"
     /\ \/ /\ TRUE \in results
           /\ target' = IF build_network_boot_request(p) THEN target
                        ELSE [target EXCEPT ![job[p].port].image = p]
           /\ Go(p, "boot")
           /\ UNCHANGED <<res, faults>>
        \/ FALSE \in results /\ Fail(p) /\ UNCHANGED target
     /\ UNCHANGED <<job, out, netOk, hostVars, link, serverVars, beating>>

\* bootargs, then the boot command, whose reply nobody waits for.
cmd_without_reply(p) ==
  /\ pc[p] = "boot"
  /\ \/ /\ Answers(p)
        /\ target' = [target EXCEPT ![job[p].port] =
                        IF build_network_boot_request(p) THEN [@ EXCEPT !.boot = bootfile(p)]
                        ELSE [@ EXCEPT !.kernel = Target(p).image]]
        /\ Go(p, "console")
        /\ UNCHANGED <<res, faults>>
     \/ Fail(p) /\ UNCHANGED target
  /\ UNCHANGED <<job, out, netOk, hostVars, link, serverVars, beating>>

\* The board fetches the file of its boot command and starts it, or gives up.
FileAt(path) == IF path \in Leaves THEN file[path] ELSE upload[path]
TargetBoots(t) ==
  /\ target[t].on /\ target[t].boot # None
  /\ \E got \in {None, FileAt(target[t].boot)} :
       target' = [target EXCEPT ![t].boot = None, ![t].kernel = got]
  /\ UNCHANGED <<job, pc, res, out, netOk, hostVars, link, serverVars, beating, faults>>

-----------------------------------------------------------------------------
(* The image: under the host's TFTP root, or in the session's directory.   *)

\* Mutant: a directory that already exists counts as claimed.
Mutant_ClaimExisting(l) == dir[l] # "gone"
\* create_dir and mkdir are atomic; a name that exists is a collision and the
\* next candidate is tried.  A name holds the time, so a removed one does not return.
claim_tftp_namespace(l) == dir[l] = "free"

Remove(l) ==
  /\ dir' = [dir EXCEPT ![l] = "gone"]
  /\ file' = [file EXCEPT ![l] = None]

local_stage_fit_image(p) ==
  /\ pc[p] = "stage" /\ Cmd(p) = "uboot"
  /\ \/ /\ job[p].net # "none"
        /\ \E l \in Leaves :
             /\ claim_tftp_namespace(l)
             /\ dir' = [dir EXCEPT ![l] = "there"]
             /\ creator' = [creator EXCEPT ![l] = p]
             /\ staged' = [staged EXCEPT ![p] = l]
        /\ \E privileged \in BOOLEAN : Go(p, IF privileged THEN "chown" ELSE "copy")
        /\ UNCHANGED <<res, faults>>
     \/ job[p].net = "none" /\ Go(p, "load") /\ UNCHANGED <<res, dir, creator, staged, faults>>
     \/ Fail(p) /\ UNCHANGED <<dir, creator, staged>>
  /\ UNCHANGED <<job, out, netOk, file, link, serverVars, beating, target>>
remote_stage_fit_image(p) ==
  /\ pc[p] = "stage" /\ Cmd(p) = "board"
  /\ \/ /\ job[p].net # "none" => Active(p)
        /\ upload' = [upload EXCEPT ![p] = IF job[p].net # "none" THEN p ELSE @]
        /\ Go(p, "load")
        /\ UNCHANGED <<res, faults>>
     \/ Fail(p) /\ UNCHANGED upload
  /\ UNCHANGED <<job, out, netOk, hostVars, link, holder, session, old, beating, target>>

\* Mutant: the error of a step after the claim leaves the directory where it is.
Mutant_NoRollback(p) ==
  /\ Fail(p)
  /\ staged' = [staged EXCEPT ![p] = None]
  /\ UNCHANGED <<dir, file>>
\* A step after the claim fails: the directory is removed, or the error says it could not be.
Rollback(p) ==
  /\ res' = [res EXCEPT ![p] = "err"]
  /\ Go(p, "finish")
  /\ staged' = [staged EXCEPT ![p] = None]
  /\ \/ Remove(staged[p]) /\ faults' = [faults EXCEPT ![p] = @ \cup {"other"}]
     \/ UNCHANGED <<dir, file>> /\ faults' = [faults EXCEPT ![p] = @ \cup Faults]

\* The privileged claim: mkdir as root, then chown, or rmdir.
claim_privileged_leaf(p) ==
  /\ pc[p] = "chown"
  /\ \/ Go(p, "copy") /\ UNCHANGED <<res, staged, dir, file, faults>>
     \/ Rollback(p)
  /\ UNCHANGED <<job, out, netOk, creator, link, serverVars, beating, target>>

CopyFit(p) ==
  /\ pc[p] = "copy"
  /\ \/ /\ file' = [file EXCEPT ![staged[p]] = p]
        /\ Go(p, "load")
        /\ UNCHANGED <<res, staged, dir, faults>>
     \/ Rollback(p)
  /\ UNCHANGED <<job, out, netOk, creator, link, serverVars, beating, target>>

-----------------------------------------------------------------------------
(* The console and the way out.                                            *)

\* A run with shell checks is Ok when they have passed, which takes a kernel;
\* one without ends with its stream or when the user leaves.
Verdict(p) ==
  /\ \/ /\ job[p].checks => Connected(p) /\ Target(p).kernel # None
        /\ res' = [res EXCEPT ![p] = "ok"]
        /\ faults' = [faults EXCEPT ![p] = @ \cup IF job[p].checks /\ Target(p).kernel # p
                                                 THEN {"other"} ELSE {}]
        /\ Go(p, "finish")
     \/ Fail(p)
  /\ UNCHANGED <<job, out, netOk, hostVars, link, serverVars, beating, target>>
UbootConsole(p) == pc[p] = "console" /\ Cmd(p) \in {"uboot", "board"} /\ Verdict(p)
\* The terminal, or the loader status of the session, whichever ends first.
HttpBootConsole(p) == pc[p] = "console" /\ Cmd(p) = "httpboot" /\ Verdict(p)
run_serial_terminal(p) == pc[p] = "console" /\ Cmd(p) = "connect" /\ Verdict(p)

\* The write task of the WebSocket ends with the runner's side of the stream.
LinkWriter(p) ==
  /\ pc[p] = "finish" /\ link[p].st = "open" /\ Remote(p)
  /\ link' = [link EXCEPT ![p].st = "closed"]
  /\ UNCHANGED <<job, pc, res, out, netOk, hostVars, serverVars, beating, target, faults>>

\* classify_server_control_message: a close the client did not ask for is an error.
classify_server_control_message(p) == IF link[p].st = "closed" THEN "ok" ELSE "err"
LinkReader(p) ==
  /\ link[p].msg /\ link[p].read = "open" /\ pc[p] \notin Ended
  /\ link' = [link EXCEPT ![p].read = classify_server_control_message(p), ![p].msg = FALSE]
  /\ faults' = [faults EXCEPT ![p] = @ \cup IF Running(p) THEN {"other"} ELSE {}]
  /\ UNCHANGED <<job, pc, res, out, netOk, hostVars, serverVars, beating, target>>

\* select_runner_result: the run's error first, then the console's.
Worse(a, b) == IF a = "err" THEN a ELSE b
\* The writer and the reader are joined, or stopped after the timeout, which is an error.
shutdown_with_timeout(p) ==
  IF link[p].st = "none" \/ ~Remote(p) THEN "ok"
  ELSE IF link[p].st = "closed" /\ link[p].read # "open" THEN link[p].read ELSE "err"
finish_console(p) ==
  /\ pc[p] = "finish"
  /\ res' = [res EXCEPT ![p] = Worse(@, shutdown_with_timeout(p))]
  /\ faults' = [faults EXCEPT ![p] = @ \cup IF shutdown_with_timeout(p) = "err" THEN {"other"} ELSE {}]
  /\ link' = [link EXCEPT ![p].st = IF @ = "none" THEN @ ELSE "closed"]
  /\ Go(p, IF Cmd(p) \in {"uboot", "board"} THEN "after" ELSE "release")
  /\ UNCHANGED <<job, out, netOk, hostVars, serverVars, beating, target>>

\* The staging directories go, whatever the run came to; then the power, also
\* when the console never opened.  A power-off command that fails is only warned of.
cleanup_linux_tftp_staging(p) ==
  /\ staged' = [staged EXCEPT ![p] = None]
  /\ \/ staged[p] = None /\ UNCHANGED <<dir, file, res, faults>>
     \/ staged[p] # None /\ Remove(staged[p]) /\ UNCHANGED <<res, faults>>
     \/ /\ staged[p] # None
        /\ res' = [res EXCEPT ![p] = Worse(@, "err")]
        /\ faults' = [faults EXCEPT ![p] = @ \cup {"staging"}]
        /\ UNCHANGED <<dir, file>>
after_run(p) ==
  /\ pc[p] = "after"
  /\ cleanup_linux_tftp_staging(p)
  /\ \/ target' = target
     \/ Cmd(p) = "uboot" /\ job[p].off /\ target' = [target EXCEPT ![job[p].port] = Off]
  /\ IF Remote(p) THEN Go(p, "release") /\ UNCHANGED out ELSE Return(p, res'[p])
  /\ UNCHANGED <<job, netOk, creator, link, serverVars, beating>>

\* BoardSession::release waits for the heartbeat task before it deletes.
StopHeartbeat(p) ==
  /\ pc[p] = "release"
  /\ beating' = [beating EXCEPT ![p] = FALSE]
  /\ Go(p, "delete")
  /\ UNCHANGED <<job, res, out, netOk, hostVars, link, serverVars, target, faults>>

\* DELETE: answered (404 counts), answered in vain, or never delivered.
finalize_session(p, answered) == Return(p, IF answered THEN res[p] ELSE "err")
delete_session(p) ==
  /\ pc[p] = "delete"
  /\ \E delivered, answered \in BOOLEAN :
       /\ answered => delivered
       /\ session' = [session EXCEPT ![p] = IF delivered /\ @ = "active" THEN "closing" ELSE @]
       /\ finalize_session(p, answered)
       /\ faults' = [faults EXCEPT ![p] = @ \cup IF answered THEN {} ELSE {"other"}]
  /\ UNCHANGED <<job, res, netOk, hostVars, link, holder, old, upload, beating, target>>

\* The process is killed.
Crash(p) ==
  /\ pc[p] \notin Ended \cup {"start"}
  /\ Go(p, "dead")
  /\ res' = [res EXCEPT ![p] = "none"]
  /\ netOk' = [netOk EXCEPT ![p] = FALSE]
  /\ staged' = [staged EXCEPT ![p] = None]
  /\ faults' = [faults EXCEPT ![p] = {}]
  /\ beating' = [beating EXCEPT ![p] = FALSE]
  /\ link' = [link EXCEPT ![p].st = IF @ = "none" THEN @ ELSE "closed"]
  /\ UNCHANGED <<job, out, dir, file, creator, serverVars, target>>

-----------------------------------------------------------------------------
(* The lease.                                                              *)

\* run_heartbeat_loop: the first request that fails ends it.
Heartbeat(p) ==
  /\ beating[p]
  /\ \/ Active(p) /\ old' = [old EXCEPT ![p] = FALSE] /\ UNCHANGED beating
     \/ beating' = [beating EXCEPT ![p] = FALSE] /\ UNCHANGED old
  /\ UNCHANGED <<job, pc, res, out, netOk, hostVars, link, holder, session, upload, target, faults>>

\* Time passes on the server; a lease that was not renewed ends.
LeaseAges(p) ==
  /\ Active(p) /\ ~old[p]
  /\ old' = [old EXCEPT ![p] = TRUE]
  /\ UNCHANGED <<job, pc, res, out, netOk, hostVars, link, holder, session, upload, beating, target,
                 faults>>
ServerStops(p) ==
  /\ Active(p)
  /\ old[p] \/ link[p].st = "closed"             \* expired, or the WebSocket has ended
  /\ session' = [session EXCEPT ![p] = "closing"]
  /\ old' = [old EXCEPT ![p] = FALSE]
  /\ UNCHANGED <<job, pc, res, out, netOk, hostVars, link, holder, upload, beating, target, faults>>
\* The release is complete: WebSocket closed, board off, files gone, board free.
ServerFrees(p) ==
  /\ session[p] = "closing"
  /\ session' = [session EXCEPT ![p] = "gone"]
  /\ holder' = None
  /\ upload' = [upload EXCEPT ![p] = None]
  /\ target' = [target EXCEPT ![Board] = Off]
  /\ link' = [link EXCEPT ![p].msg = link[p].st # "none" /\ link[p].read = "open"]
  /\ UNCHANGED <<job, pc, res, out, netOk, hostVars, old, beating, faults>>

Step(p) ==
  \/ Start(p) \/ Acquire(p) \/ Setup(p) \/ Attach(p)
  \/ local_resolve_runtime(p) \/ ensure_linux_tftpd_hpa(p) \/ local_open_console(p)
  \/ remote_resolve_runtime(p) \/ prepare_dtb(p) \/ upload_http_boot_kernel(p)
  \/ connect_serial_stream(p) \/ after_console_open(p) \/ wait_for_shell(p) \/ set_env(p)
  \/ local_stage_fit_image(p) \/ remote_stage_fit_image(p) \/ claim_privileged_leaf(p) \/ CopyFit(p)
  \/ Load(p) \/ cmd_without_reply(p) \/ UbootConsole(p) \/ HttpBootConsole(p) \/ run_serial_terminal(p)
  \/ LinkWriter(p) \/ LinkReader(p) \/ finish_console(p) \/ after_run(p) \/ StopHeartbeat(p)
  \/ delete_session(p) \/ Crash(p) \/ Heartbeat(p)
Next ==
  \/ \E p \in Procs : Step(p) \/ LeaseAges(p) \/ ServerStops(p) \/ ServerFrees(p)
  \/ \E t \in Targets : UserReset(t) \/ TargetBoots(t)

\* The server's sweeper and its releases go on by themselves; nothing is assumed of ostool.
Fairness ==
  \A p \in Procs : WF_vars(LeaseAges(p)) /\ WF_vars(ServerStops(p)) /\ WF_vars(ServerFrees(p))
Spec == Init /\ [][Next]_vars /\ Fairness

-----------------------------------------------------------------------------
(* Properties.                                                             *)

\* A console that the run still reads shows no other image than the one the run made:
\* not the one of a run that took the same TFTP directory, and not the one of the
\* next holder of the board (claim_tftp_namespace_with, Runner::_run).
BootsOwnImage ==
  \A p \in Procs :
    pc[p] = "console" /\ Connected(p) => Target(p).kernel \in {None, p}

\* A command that returns Ok has seen no failure: its console was not cut while it ran,
\* its checks saw its own kernel, its directories are removed, its session is released
\* (select_runner_result, shutdown_with_timeout, finalize_session).
OkIsEarned == \A p \in Procs : out[p] = "ok" => faults[p] = {}

\* What a command tells its user is about its own kernel and leaves no failure out.
RunIsHonest == BootsOwnImage /\ OkIsEarned

\* A command that returns has closed its console; a directory or a session stays
\* behind only if the command could not remove it and says so (after_run,
\* stage_linux_fit_image, BoardSession::release).
NothingLeftBehind ==
  \A p \in Procs : pc[p] = "returned" =>
    /\ link[p].st # "open"
    /\ \A l \in Leaves : creator[l] = p /\ dir[l] = "there" => "staging" \in faults[p] /\ out[p] = "err"
    /\ Active(p) => out[p] = "err"

\* The board comes back from a command that has ended, also after a kill, a DELETE that
\* was lost, a create_session whose answer was lost, or a connect that left early.
BoardComesBack == \A p \in Procs : (pc[p] \in Ended /\ holder = p) ~> (holder # p)
=============================================================================
