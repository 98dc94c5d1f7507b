--------------------------- MODULE BoardRunProofs ---------------------------
(***************************************************************************)
(* Runs on a host and a board server do not get into each other's way, for *)
(* any number of them and whatever they run: a console shows the image of  *)
(* its own run, a command that returns Ok has seen no failure, and what a  *)
(* command leaves behind it reports.                                       *)
(***************************************************************************)
EXTENDS BoardRun, TLAPS

\* Where a run is about its console.
Before == {"start", "acquire", "setup", "attach", "resolve", "tftpd", "dtb", "open"}
Booting == {"env", "stage", "chown", "copy", "load", "boot", "console"}
Connecting == {"reset", "shell"} \cup Booting
After == {"after", "release", "delete"} \cup Ended

\* The console is open from its opening to the clean-up, and only the server says more on it.
LinkInv(p) ==
  /\ pc[p] \in Before => link[p].st = "none"
  /\ pc[p] \in Connecting => link[p].st = "open"
  /\ pc[p] \in After => link[p].st # "open"
  /\ link[p].st = "none" \/ ~Remote(p) => ~link[p].msg /\ link[p].read = "open"

\* A session holds the board until the server has freed it, and then its console is cut.
SessionInv(p) ==
  /\ pc[p] = "acquire" => Remote(p)
  /\ ~Remote(p) \/ pc[p] \in {"start", "acquire"} => session[p] = "none"
  /\ session[p] \in {"active", "closing"} => holder = p
  /\ Connected(p) /\ Remote(p) => session[p] \in {"active", "closing"}
  /\ upload[p] = None \/ (upload[p] = p /\ Remote(p))

\* What went wrong while the run goes on is on its console; then it is in the result.
ResultInv(p) ==
  /\ out[p] = "none" <=> pc[p] # "returned"
  /\ out[p] = "ok" => faults[p] = {} /\ ~Active(p)
  /\ faults[p] # {} => /\ Running(p) => link[p].read = "err"
                       /\ pc[p] = "finish" => res[p] = "err" \/ link[p].read = "err"
                       /\ pc[p] \in {"after", "release", "delete"} => res[p] = "err"
                       /\ pc[p] # "dead"
  /\ pc[p] \in {"after", "release", "delete"} => res[p] # "none"

\* A directory belongs to the run that claimed it, which holds it until it removes it or fails to.
StagingInv(p) ==
  /\ staged[p] # None =>
       /\ ~Remote(p) /\ pc[p] \in {"chown", "copy", "load", "boot", "console", "finish", "after"}
       /\ dir[staged[p]] = "there" /\ creator[staged[p]] = p /\ file[staged[p]] \in {None, p}
  /\ pc[p] \in {"chown", "copy"} => staged[p] # None
  /\ \A l \in Leaves : creator[l] = p =>
       /\ ~Remote(p)
       /\ dir[l] = "there" => staged[p] = l \/ "staging" \in faults[p] \/ pc[p] = "dead"

\* A free name is new: nobody's image lies there.
LeavesInv == \A l \in Leaves : dir[l] = "free" => file[l] = None

\* Two consoles are not open on one serial port.
PortsInv ==
  \A p, q \in Procs :
    ~Remote(p) /\ job[p].port = job[q].port /\ link[p].st = "open" /\ link[q].st = "open" => p = q

\* From the prompt on, the board runs nothing but what the connected run gives it.
TargetInv(p) ==
  Connected(p) /\ pc[p] \in Booting =>
    /\ Target(p).kernel \in {None, p}
    /\ Target(p).boot \in IF pc[p] = "console" THEN {None, bootfile(p)} ELSE {None}
    /\ pc[p] = "boot" /\ ~build_network_boot_request(p) => Target(p).image \in {None, p}

Inv ==
  /\ TypeOK /\ LeavesInv /\ PortsInv
  /\ \A p \in Procs : LinkInv(p) /\ SessionInv(p) /\ ResultInv(p) /\ StagingInv(p) /\ TargetInv(p)

-----------------------------------------------------------------------------
(***************************************************************************)
(* What one process changes.                                               *)
(***************************************************************************)
\* f becomes g, and only the entry of p may be another one.
Only(p, f, g, S) == g \in [Procs -> S] /\ \A q \in Procs \ {p} : g[q] = f[q]

Link == [st : {"none", "open", "closed"}, msg : BOOLEAN, read : {"open", "ok", "err"}]
TargetState == [on : BOOLEAN, image : Owner, boot : Leaves \cup Owner, kernel : Owner]
Sessions == {"none", "active", "closing", "gone"}

ControlStep(p) ==
  /\ job' = job /\ Only(p, pc, pc', Stages) /\ Only(p, res, res', Results) /\ Only(p, out, out', Results)
  /\ Only(p, netOk, netOk', BOOLEAN) /\ Only(p, faults, faults', SUBSET Faults)
  /\ Only(p, beating, beating', BOOLEAN) /\ Only(p, old, old', BOOLEAN)

ConsoleStep(p) ==
  /\ Only(p, link, link', Link)
  /\ ~Remote(p) /\ link'[p].st = "open" =>
       link[p].st = "open" \/ \A q \in Procs \ {p} : job[q].port = job[p].port => link[q].st # "open"

\* The board is given to p only when no session holds it.
ServerStep(p) ==
  /\ Only(p, session, session', Sessions) /\ Only(p, upload, upload', Owner)
  /\ holder' \in Owner
  /\ holder' = holder \/ \A q \in Procs \ {p} : session[q] \notin {"active", "closing"}

\* p takes a free directory or changes its own.
HostStep(p) ==
  /\ dir' \in [Leaves -> {"free", "there", "gone"}] /\ file' \in [Leaves -> Owner] /\ creator' \in [Leaves -> Owner]
  /\ Only(p, staged, staged', Leaves \cup {None})
  /\ LeavesInv'
  /\ \A l \in Leaves : \/ dir'[l] = dir[l] /\ file'[l] = file[l] /\ creator'[l] = creator[l]
                       \/ creator'[l] = p /\ (creator[l] = p \/ dir[l] = "free")

\* A board is switched off or reset, or is the one that only p is connected to.
Clean(x) == x.kernel = None /\ x.boot = None /\ x.image = None
TargetStep(p) ==
  /\ target' \in [Targets -> TargetState]
  /\ \A t \in Targets : \/ target'[t] = target[t] \/ Clean(target'[t])
                        \/ t = job[p].port /\ \A q \in Procs \ {p} : Connected(q) => job[q].port # t

Own(p) == LinkInv(p) /\ SessionInv(p) /\ ResultInv(p) /\ StagingInv(p) /\ TargetInv(p)

-----------------------------------------------------------------------------
\* Every process has a board, and only those of ostool-server share the server's.
LEMMA Plan ==
  ASSUME TypeOK, NEW p \in Procs
  PROVE  job[p] \in JobType /\ job[p].port \in Targets /\ (Remote(p) <=> job[p].port = Board) /\ Cmd(p) \in Commands
  BY RunAssumption DEF TypeOK, JobType, Targets, Remote, Cmd

\* An entry that stays, or is replaced.
LEMMA Entry ==
  ASSUME NEW p \in Procs, NEW S, NEW f \in [Procs -> S]
  PROVE  /\ Only(p, f, f, S)
         /\ \A x \in S : Only(p, f, [f EXCEPT ![p] = x], S) /\ [f EXCEPT ![p] = x][p] = x
  BY DEF Only

LEMMA ControlStays ==
  ASSUME TypeOK, NEW p \in Procs
  PROVE  /\ pc' = pc => Only(p, pc, pc', Stages)
         /\ res' = res => Only(p, res, res', Results)
         /\ out' = out => Only(p, out, out', Results)
         /\ netOk' = netOk => Only(p, netOk, netOk', BOOLEAN)
         /\ faults' = faults => Only(p, faults, faults', SUBSET Faults)
         /\ beating' = beating => Only(p, beating, beating', BOOLEAN)
         /\ old' = old => Only(p, old, old', BOOLEAN)
  BY DEF Only, TypeOK

LEMMA WorldStays ==
  ASSUME TypeOK, LeavesInv, NEW p \in Procs
  PROVE  /\ link' = link => ConsoleStep(p)
         /\ UNCHANGED <<holder, session, upload>> => ServerStep(p)
         /\ UNCHANGED hostVars => HostStep(p)
         /\ target' = target => TargetStep(p)
<1>1. ASSUME link' = link PROVE ConsoleStep(p)
  BY <1>1 DEF TypeOK, ConsoleStep, Only, Link
<1>2. ASSUME UNCHANGED <<holder, session, upload>> PROVE ServerStep(p)
  BY <1>2 DEF TypeOK, ServerStep, Only, Sessions
<1>3. ASSUME UNCHANGED hostVars PROVE HostStep(p)
  BY <1>3 DEF TypeOK, HostStep, Only, hostVars, LeavesInv
<1>4. ASSUME target' = target PROVE TargetStep(p)
  BY <1>4 DEF TypeOK, TargetStep, TargetState
<1>. QED BY <1>1, <1>2, <1>3, <1>4

\* Only one process is connected to a board.
LEMMA OneIsConnected ==
  ASSUME Inv, NEW p \in Procs, NEW q \in Procs, job[q].port = job[p].port, Connected(q),
         Connected(p) \/ (Remote(p) /\ session[p] \in {"active", "closing"})
  PROVE  p = q
<1>1. Remote(p) <=> Remote(q)
  BY Plan DEF Inv
<1>2. CASE Remote(p)
  <2>1. session[p] \in {"active", "closing"} /\ session[q] \in {"active", "closing"}
    BY <1>1, <1>2 DEF Inv, SessionInv
  <2>. QED BY <2>1 DEF Inv, SessionInv
<1>3. CASE ~Remote(p)
  BY <1>1, <1>3 DEF Inv, PortsInv, Connected
<1>. QED BY <1>2, <1>3

\* A step of p keeps the invariant if it keeps that of p.
LEMMA StepKeeps ==
  ASSUME Inv, NEW p \in Procs, ControlStep(p), ConsoleStep(p), ServerStep(p), HostStep(p), TargetStep(p), Own(p)'
  PROVE  Inv'
<1>1. TypeOK /\ LeavesInv /\ PortsInv /\ \A q \in Procs : Own(q)
  BY DEF Inv, Own
<1>2. TypeOK'
  BY <1>1 DEF TypeOK, ControlStep, ConsoleStep, ServerStep, HostStep, TargetStep, Only, Link, TargetState, Sessions
<1>3. LeavesInv'
  BY DEF HostStep
<1>4. PortsInv'
  <2>. SUFFICES ASSUME NEW a \in Procs, NEW b \in Procs, ~Remote(a)', job'[a].port = job'[b].port,
                       link'[a].st = "open", link'[b].st = "open", a # b
                PROVE  FALSE
    BY DEF PortsInv
  <2>1. job' = job /\ ~Remote(a) /\ ~Remote(b) /\ job[a].port = job[b].port
    BY <1>1, Plan DEF ControlStep, Remote, Cmd
  <2>2. CASE a # p /\ b # p
    BY <1>1, <2>1, <2>2 DEF PortsInv, ConsoleStep, Only
  <2>3. CASE a = p \/ b = p
    BY <1>1, <2>1, <2>3 DEF PortsInv, ConsoleStep, Only
  <2>. QED BY <2>2, <2>3
<1>5. ASSUME NEW q \in Procs, q # p PROVE Own(q)'
  <2>1. /\ job' = job /\ pc'[q] = pc[q] /\ res'[q] = res[q] /\ out'[q] = out[q] /\ netOk'[q] = netOk[q]
        /\ faults'[q] = faults[q] /\ link'[q] = link[q] /\ session'[q] = session[q] /\ upload'[q] = upload[q]
        /\ staged'[q] = staged[q]
    BY <1>5 DEF ControlStep, ConsoleStep, ServerStep, HostStep, Only
  <2>2. LinkInv(q)'
    BY <1>1, <2>1 DEF Own, LinkInv, Remote, Cmd
  <2>3. SessionInv(q)'
    BY <1>1, <1>5, <2>1 DEF Own, SessionInv, ServerStep, Connected, Remote, Cmd
  <2>4. ResultInv(q)'
    BY <1>1, <2>1 DEF Own, ResultInv, Active, Running
  <2>5. \A l \in Leaves : (creator[l] = q /\ dir[l] = "there") \/ creator'[l] = q =>
          dir'[l] = dir[l] /\ file'[l] = file[l] /\ creator'[l] = creator[l]
    BY <1>5 DEF HostStep
  <2>6. StagingInv(q)'
    <3>1. staged[q] \in Leaves \cup {None}
      BY <1>1 DEF TypeOK
    <3>. QED BY <1>1, <2>1, <2>5, <3>1 DEF Own, StagingInv, Remote, Cmd
  <2>7. TargetInv(q)'
    <3>. SUFFICES ASSUME Connected(q), pc[q] \in Booting
                  PROVE  /\ target'[job[q].port].kernel \in {None, q}
                         /\ target'[job[q].port].boot \in IF pc[q] = "console" THEN {None, bootfile(q)} ELSE {None}
                         /\ pc[q] = "boot" /\ ~build_network_boot_request(q) => target'[job[q].port].image \in {None, q}
      BY <2>1 DEF TargetInv, Target, Connected, bootfile, build_network_boot_request
    <3>1. job[q].port \in Targets
      BY <1>1, Plan
    <3>2. target'[job[q].port] = target[job[q].port] \/ Clean(target'[job[q].port])
      BY <1>5, <3>1 DEF TargetStep
    <3>. QED BY <1>1, <3>2 DEF Own, TargetInv, Target, Clean
  <2>. QED BY <2>2, <2>3, <2>4, <2>6, <2>7 DEF Own
<1>. QED BY <1>2, <1>3, <1>4, <1>5 DEF Inv, Own

-----------------------------------------------------------------------------
(***************************************************************************)
(* The steps that change the process and nothing of the world.             *)
(***************************************************************************)
\* A process goes to another stage, fails or returns.
LEMMA Goes ==
  ASSUME TypeOK, NEW p \in Procs, NEW s \in Stages, Go(p, s)
  PROVE  Only(p, pc, pc', Stages) /\ pc'[p] = s
  BY Entry DEF TypeOK, Go

LEMMA Fails ==
  ASSUME TypeOK, NEW p \in Procs, Fail(p)
  PROVE  /\ Only(p, pc, pc', Stages) /\ Only(p, res, res', Results) /\ Only(p, faults, faults', SUBSET Faults)
         /\ pc'[p] = IF Cmd(p) \in {"uboot", "board"} \/ link[p].st # "none" THEN "finish" ELSE "release"
         /\ res'[p] = "err" /\ faults'[p] = faults[p] \cup {"other"}
<1>1. "finish" \in Stages /\ "release" \in Stages /\ "err" \in Results
  BY DEF Stages, Results
<1>2. faults[p] \cup {"other"} \in SUBSET Faults
  BY DEF TypeOK, Faults
<1>3. /\ Only(p, pc, pc', Stages)
      /\ pc'[p] = IF Cmd(p) \in {"uboot", "board"} \/ link[p].st # "none" THEN "finish" ELSE "release"
  BY <1>1, Goes DEF Fail
<1>4. Only(p, res, res', Results) /\ res'[p] = "err"
  BY <1>1, Entry DEF Fail, TypeOK
<1>5. Only(p, faults, faults', SUBSET Faults) /\ faults'[p] = faults[p] \cup {"other"}
  BY <1>2, Entry DEF Fail, TypeOK
<1>. QED BY <1>3, <1>4, <1>5

LEMMA Returns ==
  ASSUME TypeOK, NEW p \in Procs, NEW r \in Results, Return(p, r)
  PROVE  Only(p, pc, pc', Stages) /\ pc'[p] = "returned" /\ Only(p, out, out', Results) /\ out'[p] = r
<1>1. "returned" \in Stages
  BY DEF Stages, Ended
<1>. QED BY <1>1, Goes, Entry DEF Return, TypeOK

\* A step that leaves the console, the server, the files and the boards alone keeps the
\* invariant if the stage and the result fit.
LEMMA Moves ==
  ASSUME Inv, NEW p \in Procs, ControlStep(p), UNCHANGED <<netOk, hostVars, link, holder, session, upload, target>>,
         NEW s \in Stages, pc'[p] = s, s # "start",
         s = "acquire" => pc[p] = "start" /\ Remote(p),
         s \in Before => pc[p] \in Before,
         s \in Connecting => pc[p] \in Connecting,
         s \in Booting => pc[p] \in Booting \ {"console"} /\ s \notin {"boot", "console"},
         s \in After => link[p].st # "open",
         staged[p] # None => s \in {"copy", "load", "finish"},
         s \in {"chown", "copy"} => pc[p] \in {"chown", "copy"},
         pc[p] # "dead", faults[p] \subseteq faults'[p],
         ResultInv(p)'
  PROVE  Inv'
<1>1. TypeOK /\ LeavesInv /\ Own(p)
  BY DEF Inv, Own
<1>2. ConsoleStep(p) /\ ServerStep(p) /\ HostStep(p) /\ TargetStep(p)
  BY <1>1, WorldStays
<1>3. job' = job
  BY DEF ControlStep
<1>4. LinkInv(p)'
  BY <1>1, <1>3 DEF Own, LinkInv, Remote, Cmd
<1>5. SessionInv(p)'
  BY <1>1, <1>3 DEF Own, SessionInv, Remote, Cmd, Connected
<1>6. StagingInv(p)'
  BY <1>1, <1>3 DEF Own, StagingInv, hostVars, Remote, Cmd
<1>7. TargetInv(p)'
  BY <1>1, <1>3 DEF Own, TargetInv, Connected, Target, Booting, hostVars, build_network_boot_request, bootfile
<1>. QED BY <1>2, <1>4, <1>5, <1>6, <1>7, StepKeeps DEF Own

\* A failure before the clean-up.
LEMMA FailKeeps ==
  ASSUME Inv, NEW p \in Procs, Fail(p), pc[p] \in (Before \cup Connecting) \ {"start", "acquire", "chown", "copy"},
         UNCHANGED <<job, out, netOk, hostVars, link, holder, session, old, upload, beating, target>>
  PROVE  Inv'
<1>1. TypeOK /\ LeavesInv /\ Own(p)
  BY DEF Inv, Own
<1>2. ControlStep(p)
  BY <1>1, Fails, ControlStays DEF ControlStep
<1>3. /\ pc'[p] = IF Cmd(p) \in {"uboot", "board"} \/ link[p].st # "none" THEN "finish" ELSE "release"
      /\ res'[p] = "err" /\ faults'[p] = faults[p] \cup {"other"}
  BY <1>1, Fails
<1>4. pc'[p] \in {"finish", "release"} /\ pc'[p] \in Stages
  BY <1>3 DEF Stages
<1>5. staged[p] # None => pc'[p] = "finish"
  BY <1>1, <1>3, Plan DEF Own, StagingInv, Remote, Cmd, Commands
<1>6. pc'[p] = "release" => link[p].st # "open"
  BY <1>3
<1>7. ResultInv(p)'
  BY <1>1, <1>3, <1>4 DEF Own, ResultInv, Running, Before, Connecting, Booting, Ended, Active
<1>8. pc[p] # "dead"
  BY DEF Before, Connecting, Booting
<1>. QED BY <1>2, <1>3, <1>4, <1>5, <1>6, <1>7, <1>8, Moves DEF Before, Connecting, Booting, After, Ended

\* The next stage, with nothing else done.
LEMMA GoKeeps ==
  ASSUME Inv, NEW p \in Procs, NEW s \in Stages, Go(p, s),
         UNCHANGED <<job, res, out, netOk, hostVars, link, holder, session, old, upload, beating, target, faults>>,
         \/ pc[p] \in Before /\ s \in Before \ {"start", "acquire"}
         \/ pc[p] = "start" /\ s = "acquire" /\ Remote(p)
         \/ pc[p] = "stage" /\ s = "load"
         \/ pc[p] = "chown" /\ s = "copy"
  PROVE  Inv'
<1>1. TypeOK /\ LeavesInv /\ Own(p)
  BY DEF Inv, Own
<1>2. ControlStep(p) /\ pc'[p] = s
  BY <1>1, Goes, ControlStays DEF ControlStep
<1>3. pc[p] \in Before \cup {"stage", "chown"} /\ s \in (Before \ {"start"}) \cup {"load", "copy"}
  BY DEF Before
<1>4. staged[p] # None => s = "copy"
  BY <1>1 DEF Own, StagingInv, Before
<1>5. ResultInv(p)'
  BY <1>1, <1>2, <1>3 DEF Own, ResultInv, Running, Before, Ended, Active
<1>. QED BY <1>2, <1>3, <1>4, <1>5, Moves DEF Before, Connecting, Booting, After, Ended

LEMMA StartKeeps ==
  ASSUME Inv, NEW p \in Procs, Start(p)
  PROVE  Inv'
<1>1. TypeOK /\ LeavesInv /\ Own(p) /\ pc[p] = "start"
  BY DEF Inv, Own, Start
<1>2. CASE Go(p, IF Remote(p) THEN "acquire" ELSE "resolve") /\ UNCHANGED out
  <2>1. "acquire" \in Stages /\ "resolve" \in Stages
    BY DEF Stages
  <2>. QED BY <1>1, <1>2, <2>1, GoKeeps DEF Start, Before, serverVars
<1>3. CASE Return(p, "err")
  <2>1. ControlStep(p) /\ pc'[p] = "returned" /\ out'[p] = "err"
    BY <1>1, <1>3, Returns, ControlStays DEF Start, serverVars, ControlStep, Results
  <2>2. ResultInv(p)'
    BY <1>1, <2>1 DEF Own, ResultInv, Running, Ended, Start
  <2>3. link[p].st = "none" /\ staged[p] = None
    BY <1>1 DEF Own, LinkInv, StagingInv, Before
  <2>. QED BY <1>1, <2>1, <2>2, <2>3, Moves DEF Start, serverVars, Before, Connecting, Booting, After, Ended, Stages
<1>. QED BY <1>2, <1>3 DEF Start

\* A session is only made when no session holds the board.
LEMMA AcquireKeeps ==
  ASSUME Inv, NEW p \in Procs, Acquire(p)
  PROVE  Inv'
<1>1. TypeOK /\ LeavesInv /\ Own(p) /\ pc[p] = "acquire"
  BY DEF Inv, Own, Acquire
<1>2. CASE Return(p, "err") /\ UNCHANGED <<holder, session, beating>>
  <2>1. ControlStep(p) /\ pc'[p] = "returned" /\ out'[p] = "err"
    BY <1>1, <1>2, Returns, ControlStays DEF Acquire, ControlStep, Results
  <2>2. ResultInv(p)'
    BY <1>1, <2>1 DEF Own, ResultInv, Running, Ended, Acquire
  <2>3. link[p].st = "none" /\ staged[p] = None
    BY <1>1 DEF Own, LinkInv, StagingInv, Before
  <2>. QED BY <1>1, <1>2, <2>1, <2>2, <2>3, Moves DEF Acquire, Before, Connecting, Booting, After, Ended, Stages
<1>3. ASSUME NEW reply \in BOOLEAN, create_session(p, reply) PROVE Inv'
  <2>1. /\ holder = None /\ holder' = p /\ session' = [session EXCEPT ![p] = "active"]
        /\ UNCHANGED <<job, res, netOk, hostVars, link, old, upload, target, faults>>
    BY <1>3 DEF create_session, Acquire
  <2>2. \A q \in Procs : session[q] \notin {"active", "closing"}
    BY <2>1, RunAssumption DEF Inv, SessionInv
  <2>3. Only(p, session, session', Sessions) /\ session'[p] = "active"
    BY <1>1, <2>1, Entry DEF TypeOK, Sessions
  <2>4. ServerStep(p)
    BY <1>1, <2>1, <2>2, <2>3 DEF ServerStep, TypeOK, Only, Owner
  <2>5. ConsoleStep(p) /\ HostStep(p) /\ TargetStep(p)
    BY <1>1, <2>1, WorldStays
  <2>6. /\ ControlStep(p) /\ pc'[p] \in {"attach", "setup", "returned"}
        /\ (pc'[p] = "returned" /\ out'[p] = "err") \/ (pc'[p] # "returned" /\ out'[p] = out[p])
    <3>1. CASE reply
      <4>1. "attach" \in Stages /\ "setup" \in Stages
        BY DEF Stages
      <4>2. /\ Go(p, IF Cmd(p) = "connect" THEN "attach" ELSE "setup") /\ out' = out
            /\ beating' = [beating EXCEPT ![p] = TRUE]
        BY <1>3, <3>1 DEF create_session
      <4>3. Only(p, pc, pc', Stages) /\ pc'[p] \in {"attach", "setup"}
        BY <1>1, <4>1, <4>2, Goes
      <4>4. Only(p, beating, beating', BOOLEAN)
        BY <1>1, <4>2, Entry DEF TypeOK
      <4>. QED BY <1>1, <2>1, <4>2, <4>3, <4>4, ControlStays DEF ControlStep
    <3>2. CASE ~reply
      <4>1. Return(p, "err") /\ beating' = beating
        BY <1>3, <3>2 DEF create_session
      <4>. QED BY <1>1, <2>1, <4>1, Returns, ControlStays DEF ControlStep, Results
    <3>. QED BY <3>1, <3>2
  <2>7. LinkInv(p)'
    BY <1>1, <2>1, <2>6 DEF Own, LinkInv, Remote, Cmd, Before, Connecting, Booting, After, Ended
  <2>8. SessionInv(p)'
    BY <1>1, <2>1, <2>3, <2>6 DEF Own, SessionInv, Remote, Cmd, Connected
  <2>9. ResultInv(p)'
    BY <1>1, <2>1, <2>6 DEF Own, ResultInv, Running, Ended, Active
  <2>10. StagingInv(p)'
    BY <1>1, <2>1, <2>6 DEF Own, StagingInv, hostVars, Remote, Cmd
  <2>11. TargetInv(p)'
    BY <2>6 DEF TargetInv, Booting
  <2>. QED BY <2>4, <2>5, <2>6, <2>7, <2>8, <2>9, <2>10, <2>11, StepKeeps DEF Own
<1>. QED BY <1>2, <1>3 DEF Acquire

LEMMA SetupKeeps ==
  ASSUME Inv, NEW p \in Procs, Setup(p)
  PROVE  Inv'
<1>1. CASE Fail(p)
  BY <1>1, FailKeeps DEF Setup, serverVars, Before
<1>2. CASE Go(p, "resolve") /\ UNCHANGED <<res, faults>>
  BY <1>2, GoKeeps DEF Setup, serverVars, Before, Stages
<1>. QED BY <1>1, <1>2 DEF Setup

LEMMA RequestKeeps ==
  ASSUME Inv, NEW p \in Procs, NEW from \in Before \ {"start", "acquire"}, NEW to \in Before \ {"start", "acquire"},
         Request(p, from, to), upload' = upload
  PROVE  Inv'
<1>1. pc[p] = from /\ to \in Stages
  BY DEF Request, Before, Stages
<1>2. CASE Fail(p)
  BY <1>1, <1>2, FailKeeps DEF Request, Before
<1>3. CASE Go(p, to) /\ UNCHANGED <<res, faults>>
  BY <1>1, <1>3, GoKeeps DEF Request
<1>. QED BY <1>2, <1>3 DEF Request

LEMMA ResolveKeeps ==
  ASSUME Inv, NEW p \in Procs,
         local_resolve_runtime(p) \/ ensure_linux_tftpd_hpa(p) \/ remote_resolve_runtime(p) \/ prepare_dtb(p)
  PROVE  Inv'
<1>1. {"resolve", "tftpd", "dtb", "open"} \subseteq Before \ {"start", "acquire"}
  BY DEF Before
<1>2. CASE local_resolve_runtime(p)
  BY <1>1, <1>2, RequestKeeps DEF local_resolve_runtime
<1>3. CASE ensure_linux_tftpd_hpa(p)
  BY <1>1, <1>3, RequestKeeps DEF ensure_linux_tftpd_hpa
<1>4. CASE remote_resolve_runtime(p)
  BY <1>1, <1>4, RequestKeeps DEF remote_resolve_runtime
<1>5. CASE prepare_dtb(p)
  BY <1>1, <1>5, RequestKeeps DEF prepare_dtb
<1>. QED BY <1>2, <1>3, <1>4, <1>5

-----------------------------------------------------------------------------
(***************************************************************************)
(* The console opens.                                                      *)
(***************************************************************************)
LEMMA Resets ==
  ASSUME TypeOK, NEW p \in Procs, NEW t \in Targets, NEW x \in {Off, Prompt}, target' = [target EXCEPT ![t] = x]
  PROVE  TargetStep(p) /\ target'[t] = x /\ Clean(x)
<1>1. Off \in TargetState /\ Clean(Off)
  BY DEF Off, TargetState, Clean, Owner
<1>2. Prompt \in TargetState /\ Clean(Prompt)
  BY <1>1 DEF Off, Prompt, TargetState, Clean
<1>3. x \in TargetState /\ Clean(x)
  BY <1>1, <1>2
<1>. QED BY <1>3 DEF TypeOK, TargetStep, TargetState

\* A board that only p is connected to.
LEMMA Drives ==
  ASSUME Inv, NEW p \in Procs, NEW x \in TargetState, target' = [target EXCEPT ![job[p].port] = x],
         Connected(p) \/ (Remote(p) /\ session[p] \in {"active", "closing"})
  PROVE  TargetStep(p) /\ target'[job[p].port] = x
<1>1. job[p].port \in Targets
  BY Plan DEF Inv
<1>2. \A q \in Procs \ {p} : Connected(q) => job[q].port # job[p].port
  BY OneIsConnected
<1>. QED BY <1>1, <1>2 DEF Inv, TypeOK, TargetStep, TargetState

LEMMA Opens ==
  ASSUME TypeOK, NEW p \in Procs, link' = [link EXCEPT ![p] = OpenLink],
         Remote(p) \/ PortFree(p)
  PROVE  ConsoleStep(p) /\ link'[p].st = "open" /\ ~link'[p].msg /\ link'[p].read = "open"
<1>1. OpenLink \in Link /\ OpenLink.st = "open" /\ ~OpenLink.msg /\ OpenLink.read = "open"
  <2>1. NoLink \in Link /\ ~NoLink.msg /\ NoLink.read = "open"
    BY DEF NoLink, Link
  <2>. QED BY <2>1 DEF OpenLink, Link
<1>2. Only(p, link, link', Link) /\ link'[p] = OpenLink
  BY <1>1, Entry DEF TypeOK, Link
<1>. QED BY <1>1, <1>2 DEF ConsoleStep, PortFree

\* What holds of a run that opens its console.
LEMMA OpenKeeps ==
  ASSUME Inv, NEW p \in Procs, pc[p] \in {"attach", "open"}, link' = [link EXCEPT ![p] = OpenLink],
         IF Remote(p) THEN Active(p) ELSE PortFree(p),
         NEW s \in {"reset", "console"}, Go(p, s), TargetStep(p),
         s = "console" => target'[job[p].port].kernel = None /\ target'[job[p].port].boot \in {None, p},
         UNCHANGED <<job, res, out, netOk, hostVars, serverVars, beating, faults>>
  PROVE  Inv'
<1>1. TypeOK /\ LeavesInv /\ Own(p)
  BY DEF Inv, Own
<1>2. ConsoleStep(p) /\ link'[p].st = "open" /\ ~link'[p].msg /\ link'[p].read = "open"
  BY <1>1, Opens
<1>3. ControlStep(p) /\ pc'[p] = s
  <2>1. s \in Stages
    BY DEF Stages
  <2>. QED BY <1>1, <2>1, Goes, ControlStays DEF ControlStep, serverVars
<1>4. ServerStep(p) /\ HostStep(p)
  BY <1>1, WorldStays DEF serverVars
<1>5. LinkInv(p)'
  BY <1>2, <1>3 DEF LinkInv, Before, Connecting, Booting, After, Ended
<1>6. SessionInv(p)'
  BY <1>1, <1>2, <1>3 DEF Own, SessionInv, Remote, Cmd, Active, Connected, serverVars
<1>7. link[p].st = "none" /\ link[p].read = "open" /\ faults[p] = {} /\ staged[p] = None
  BY <1>1 DEF Own, LinkInv, ResultInv, StagingInv, Before, Running, Ended
<1>8. ResultInv(p)'
  BY <1>1, <1>3, <1>7 DEF Own, ResultInv, Active
<1>9. StagingInv(p)'
  BY <1>1, <1>3, <1>7 DEF Own, StagingInv, hostVars, Remote, Cmd
<1>10. TargetInv(p)'
  BY <1>3, <1>7 DEF TargetInv, Booting, bootfile, Target, hostVars
<1>. QED BY <1>2, <1>3, <1>4, <1>5, <1>6, <1>8, <1>9, <1>10, StepKeeps DEF Own

LEMMA AttachKeeps ==
  ASSUME Inv, NEW p \in Procs, Attach(p)
  PROVE  Inv'
<1>1. TypeOK /\ LeavesInv /\ Own(p) /\ pc[p] = "attach"
  BY DEF Inv, Own, Attach
<1>2. link[p].st = "none" /\ link[p].read = "open" /\ faults[p] = {} /\ staged[p] = None
  BY <1>1 DEF Own, LinkInv, ResultInv, StagingInv, Before, Running, Ended
<1>3. UNCHANGED <<job, netOk, hostVars, holder, session, old, upload>>
  BY DEF Attach, serverVars
<1>4. CASE LeaveByQuestionMark(p)
  <2>1. ControlStep(p) /\ pc'[p] = "returned" /\ out'[p] = "err" /\ UNCHANGED <<link, target, faults>>
    <3>1. Only(p, beating, beating', BOOLEAN)
      BY <1>1, <1>4, Entry DEF TypeOK, LeaveByQuestionMark
    <3>. QED BY <1>1, <1>3, <1>4, <3>1, Returns, ControlStays DEF LeaveByQuestionMark, ControlStep, Results
  <2>2. ResultInv(p)'
    BY <1>1, <2>1 DEF Own, ResultInv, Running, Ended
  <2>. QED BY <1>1, <1>2, <1>3, <2>1, <2>2, Moves DEF Before, Connecting, Booting, After, Ended, Stages
<1>5. CASE /\ Active(p) /\ link' = [link EXCEPT ![p] = OpenLink] /\ target' = [target EXCEPT ![Board] = Prompt]
           /\ Go(p, "console") /\ UNCHANGED <<res, out, beating, faults>>
  <2>1. Remote(p)
    BY <1>1, <1>5 DEF Own, SessionInv, Active
  <2>2. job[p].port = Board /\ Board \in Targets
    BY <1>1, <2>1, Plan
  <2>3. TargetStep(p) /\ target'[Board].kernel = None /\ target'[Board].boot = None
    BY <1>1, <1>5, <2>2, Resets DEF Clean
  <2>. QED BY <1>1, <1>3, <1>5, <2>1, <2>2, <2>3, OpenKeeps DEF serverVars
<1>6. CASE Fail(p) /\ UNCHANGED <<out, link, beating, target>>
  BY <1>1, <1>3, <1>6, FailKeeps DEF Before
<1>7. CASE res' = [res EXCEPT ![p] = "ok"] /\ Go(p, "release") /\ UNCHANGED <<out, link, beating, target, faults>>
  <2>1. "release" \in Stages /\ "ok" \in Results
    BY DEF Stages, Results
  <2>2. ControlStep(p) /\ pc'[p] = "release" /\ res'[p] = "ok"
    BY <1>1, <1>3, <1>7, <2>1, Goes, Entry, ControlStays DEF ControlStep, TypeOK
  <2>3. ResultInv(p)'
    BY <1>1, <1>2, <1>7, <2>2 DEF Own, ResultInv, Active
  <2>. QED BY <1>1, <1>2, <1>3, <1>7, <2>1, <2>2, <2>3, Moves DEF Before, Connecting, Booting, After, Ended
<1>. QED BY <1>4, <1>5, <1>6, <1>7 DEF Attach

LEMMA LocalOpenKeeps ==
  ASSUME Inv, NEW p \in Procs, local_open_console(p)
  PROVE  Inv'
<1>1. TypeOK /\ LeavesInv /\ pc[p] = "open" /\ ~Remote(p)
  BY DEF Inv, local_open_console, Remote
<1>2. CASE Fail(p) /\ UNCHANGED link
  BY <1>1, <1>2, FailKeeps DEF local_open_console, serverVars, Before
<1>3. CASE PortFree(p) /\ link' = [link EXCEPT ![p] = OpenLink] /\ Go(p, "reset") /\ UNCHANGED <<res, faults>>
  <2>1. UNCHANGED <<job, res, out, netOk, hostVars, serverVars, beating, target, faults>>
    BY <1>3 DEF local_open_console
  <2>2. TargetStep(p)
    BY <1>1, <2>1, WorldStays
  <2>. QED BY <1>1, <1>3, <2>1, <2>2, OpenKeeps
<1>. QED BY <1>2, <1>3 DEF local_open_console

LEMMA RemoteOpenKeeps ==
  ASSUME Inv, NEW p \in Procs, connect_serial_stream(p)
  PROVE  Inv'
<1>1. TypeOK /\ LeavesInv /\ pc[p] = "open" /\ Remote(p)
  BY DEF Inv, connect_serial_stream
<1>2. CASE Fail(p) /\ UNCHANGED <<link, target>>
  BY <1>1, <1>2, FailKeeps DEF connect_serial_stream, serverVars, Before
<1>3. CASE /\ Active(p) /\ link' = [link EXCEPT ![p] = OpenLink]
           /\ Go(p, IF Cmd(p) = "httpboot" THEN "console" ELSE "reset")
           /\ target' = [target EXCEPT ![Board] = IF Cmd(p) = "httpboot" THEN [Prompt EXCEPT !.boot = p] ELSE Prompt]
           /\ UNCHANGED <<res, faults>>
  <2>1. UNCHANGED <<job, res, out, netOk, hostVars, serverVars, beating, faults>>
    BY <1>3 DEF connect_serial_stream
  <2>2. job[p].port = Board
    BY <1>1, Plan
  <2>. DEFINE x == IF Cmd(p) = "httpboot" THEN [Prompt EXCEPT !.boot = p] ELSE Prompt
  <2>3. x \in TargetState /\ x.kernel = None /\ x.boot \in {None, p}
    BY DEF Prompt, Off, TargetState, Owner
  <2>4. TargetStep(p) /\ target'[job[p].port] = x
    BY <1>1, <1>3, <2>2, <2>3, Drives DEF Active
  <2>. QED BY <1>1, <1>3, <2>1, <2>3, <2>4, OpenKeeps
<1>. QED BY <1>2, <1>3 DEF connect_serial_stream

LEMMA HttpUploadKeeps ==
  ASSUME Inv, NEW p \in Procs, upload_http_boot_kernel(p)
  PROVE  Inv'
<1>1. TypeOK /\ LeavesInv /\ Own(p) /\ pc[p] = "resolve" /\ Remote(p)
  BY DEF Inv, Own, upload_http_boot_kernel, Request, Remote
<1>2. UNCHANGED <<job, out, netOk, hostVars, link, holder, session, old, beating, target>>
  BY DEF upload_http_boot_kernel, Request
<1>3. upload' = [upload EXCEPT ![p] = IF res'[p] = "err" THEN upload[p] ELSE p]
  BY DEF upload_http_boot_kernel
<1>4. CASE Fail(p)
  <2>1. upload' = upload
    BY <1>1, <1>3, <1>4, Fails DEF TypeOK
  <2>. QED BY <1>1, <1>2, <1>4, <2>1, FailKeeps DEF Before
<1>5. CASE Go(p, "open") /\ UNCHANGED <<res, faults>>
  <2>1. ControlStep(p) /\ pc'[p] = "open"
    BY <1>1, <1>2, <1>5, Goes, ControlStays DEF ControlStep, Stages
  <2>2. Only(p, upload, upload', Owner) /\ upload'[p] \in {upload[p], p}
    BY <1>1, <1>3, Entry DEF TypeOK, Owner
  <2>3. ConsoleStep(p) /\ HostStep(p) /\ TargetStep(p)
    BY <1>1, <1>2, WorldStays
  <2>4. ServerStep(p)
    BY <1>1, <1>2, <2>2 DEF ServerStep, TypeOK, Sessions, Only
  <2>5. LinkInv(p)'
    BY <1>1, <1>2, <2>1 DEF Own, LinkInv, Remote, Cmd, Before, Connecting, Booting, After, Ended
  <2>6. SessionInv(p)'
    BY <1>1, <1>2, <2>1, <2>2 DEF Own, SessionInv, Remote, Cmd, Connected
  <2>7. ResultInv(p)'
    BY <1>1, <1>2, <1>5, <2>1 DEF Own, ResultInv, Running, Ended, Active
  <2>8. StagingInv(p)'
    BY <1>1, <1>2, <1>5, <2>1 DEF Own, StagingInv, hostVars, Remote, Cmd
  <2>9. TargetInv(p)'
    BY <2>1 DEF TargetInv, Booting
  <2>. QED BY <2>1, <2>3, <2>4, <2>5, <2>6, <2>7, <2>8, <2>9, StepKeeps DEF Own
<1>. QED BY <1>4, <1>5 DEF upload_http_boot_kernel, Request

-----------------------------------------------------------------------------
(***************************************************************************)
(* The U-Boot shell.                                                       *)
(***************************************************************************)
\* What holds of a run that goes on with its console open.
LEMMA ShellKeeps ==
  ASSUME Inv, NEW p \in Procs,
         NEW s \in Connecting, Go(p, s),
         \/ pc[p] = "reset" /\ s = "shell"
         \/ pc[p] = "shell" /\ s = "env"
         \/ pc[p] = "env" /\ s = "stage"
         \/ pc[p] = "load" /\ s = "boot"
         \/ pc[p] = "boot" /\ s = "console",
         Only(p, netOk, netOk', BOOLEAN), TargetStep(p), TargetInv(p)',
         UNCHANGED <<job, res, out, hostVars, link, serverVars, beating, faults>>
  PROVE  Inv'
<1>1. TypeOK /\ LeavesInv /\ Own(p)
  BY DEF Inv, Own
<1>2. ControlStep(p) /\ pc'[p] = s
  <2>1. s \in Stages
    BY DEF Stages
  <2>. QED BY <1>1, <2>1, Goes, ControlStays DEF ControlStep, serverVars
<1>3. ConsoleStep(p) /\ ServerStep(p) /\ HostStep(p)
  BY <1>1, WorldStays DEF serverVars
<1>4. LinkInv(p)'
  BY <1>1, <1>2 DEF Own, LinkInv, Remote, Cmd, Before, Connecting, Booting, After, Ended
<1>5. SessionInv(p)'
  BY <1>1, <1>2 DEF Own, SessionInv, Remote, Cmd, Connected, serverVars
<1>6. ResultInv(p)'
  BY <1>1, <1>2 DEF Own, ResultInv, Running, Ended, Active, serverVars
<1>7. StagingInv(p)'
  BY <1>1, <1>2 DEF Own, StagingInv, hostVars, Remote, Cmd
<1>. QED BY <1>2, <1>3, <1>4, <1>5, <1>6, <1>7, StepKeeps DEF Own

LEMMA ResetKeeps ==
  ASSUME Inv, NEW p \in Procs, after_console_open(p)
  PROVE  Inv'
<1>1. TypeOK /\ LeavesInv /\ pc[p] = "reset"
  BY DEF Inv, after_console_open
<1>2. UNCHANGED <<job, out, netOk, hostVars, link, serverVars, beating>>
  BY DEF after_console_open
<1>3. CASE Fail(p) /\ UNCHANGED target
  BY <1>1, <1>2, <1>3, FailKeeps DEF serverVars, Connecting
<1>4. CASE /\ Go(p, "shell") /\ UNCHANGED <<res, faults>>
           /\ target' = IF Cmd(p) = "uboot" /\ job[p].reset THEN [target EXCEPT ![job[p].port] = Prompt] ELSE target
  <2>1. TargetStep(p)
    BY <1>1, <1>4, Resets, WorldStays, Plan
  <2>2. pc'[p] = "shell"
    BY <1>1, <1>4, Goes DEF Stages
  <2>3. TargetInv(p)' /\ Only(p, netOk, netOk', BOOLEAN)
    BY <1>1, <1>2, <2>2, ControlStays DEF TargetInv, Booting
  <2>. QED BY <1>1, <1>2, <1>4, <2>1, <2>3, ShellKeeps DEF Connecting
<1>. QED BY <1>3, <1>4 DEF after_console_open

LEMMA InterruptKeeps ==
  ASSUME Inv, NEW p \in Procs, wait_for_shell(p)
  PROVE  Inv'
<1>1. TypeOK /\ LeavesInv /\ Own(p) /\ pc[p] = "shell" /\ job[p].port \in Targets
  BY Plan DEF Inv, Own, wait_for_shell
<1>2. UNCHANGED <<job, out, netOk, hostVars, link, serverVars, beating>>
  BY DEF wait_for_shell
<1>3. CASE Fail(p) /\ UNCHANGED target
  BY <1>1, <1>2, <1>3, FailKeeps DEF serverVars, Connecting
<1>4. CASE Answers(p) /\ target' = [target EXCEPT ![job[p].port].boot = None] /\ Go(p, "env") /\ UNCHANGED <<res, faults>>
  <2>. DEFINE x == [target[job[p].port] EXCEPT !.boot = None]
  <2>1. x \in TargetState /\ x.kernel = None /\ x.boot = None /\ Connected(p)
    BY <1>1, <1>4 DEF Answers, Target, TypeOK, TargetState, Owner
  <2>2. TargetStep(p) /\ target'[job[p].port] = x
    BY <1>4, <2>1, Drives
  <2>3. pc'[p] = "env"
    BY <1>1, <1>4, Goes DEF Stages
  <2>4. TargetInv(p)' /\ Only(p, netOk, netOk', BOOLEAN)
    BY <1>1, <1>2, <2>1, <2>2, <2>3, ControlStays DEF TargetInv, Target
  <2>. QED BY <1>1, <1>2, <1>4, <2>2, <2>4, ShellKeeps DEF Connecting, Booting
<1>. QED BY <1>3, <1>4 DEF wait_for_shell

LEMMA EnvKeeps ==
  ASSUME Inv, NEW p \in Procs, set_env(p)
  PROVE  Inv'
<1>1. TypeOK /\ LeavesInv /\ Own(p) /\ pc[p] = "env"
  BY DEF Inv, Own, set_env
<1>2. UNCHANGED <<job, out, hostVars, link, serverVars, beating, target>>
  BY DEF set_env
<1>3. CASE Fail(p) /\ UNCHANGED netOk
  BY <1>1, <1>2, <1>3, FailKeeps DEF serverVars, Connecting, Booting
<1>4. ASSUME NEW probe \in cmd(p), netOk' = [netOk EXCEPT ![p] = probe /\ job[p].net # "none"],
             Go(p, "stage"), UNCHANGED <<res, faults>>
      PROVE  Inv'
  <2>1. probe \in BOOLEAN
    BY DEF cmd
  <2>2. Only(p, netOk, netOk', BOOLEAN)
    BY <1>1, <1>4, <2>1 DEF Only, TypeOK
  <2>3. pc'[p] = "stage"
    BY <1>1, <1>4, Goes DEF Stages
  <2>4. TargetStep(p)
    BY <1>1, <1>2, WorldStays
  <2>5. TargetInv(p)'
    BY <1>1, <1>2, <2>3 DEF Own, TargetInv, Target, Connected, Booting
  <2>. QED BY <1>1, <1>2, <1>4, <2>2, <2>4, <2>5, ShellKeeps DEF Connecting, Booting
<1>. QED BY <1>3, <1>4 DEF set_env

\* Only a board that answers takes an image over the line.
LEMMA LoadyAnswers ==
  ASSUME NEW p \in Procs, TRUE \in loady(p)
  PROVE  Answers(p)
<1>1. PICK n \in 1..CmdTries : \E t \in [1..n -> ymodem_send(p)] : t[Len(t)] = "done"
  BY DEF loady, Tries
<1>2. PICK t \in [1..n -> ymodem_send(p)] : t[Len(t)] = "done"
  BY <1>1
<1>3. n \in Nat /\ n \in 1..n
  BY RunAssumption
<1>4. Len(t) = n
  BY <1>2, <1>3
<1>. QED BY <1>2, <1>3, <1>4 DEF ymodem_send

LEMMA LoadKeeps ==
  ASSUME Inv, NEW p \in Procs, Load(p)
  PROVE  Inv'
<1>1. TypeOK /\ LeavesInv /\ Own(p) /\ pc[p] = "load" /\ job[p].port \in Targets
  BY Plan DEF Inv, Own, Load
<1>2. UNCHANGED <<job, out, netOk, hostVars, link, serverVars, beating>>
  BY DEF Load
<1>3. CASE Fail(p) /\ UNCHANGED target
  BY <1>1, <1>2, <1>3, FailKeeps DEF serverVars, Connecting, Booting
<1>4. CASE /\ Go(p, "boot") /\ UNCHANGED <<res, faults>>
           /\ TRUE \in IF build_network_boot_request(p) THEN cmd(p) ELSE loady(p)
           /\ target' = IF build_network_boot_request(p) THEN target ELSE [target EXCEPT ![job[p].port].image = p]
  <2>1. pc'[p] = "boot" /\ Only(p, netOk, netOk', BOOLEAN)
    BY <1>1, <1>2, <1>4, Goes, ControlStays DEF Stages
  <2>2. build_network_boot_request(p)' <=> build_network_boot_request(p)
    BY <1>2 DEF build_network_boot_request, hostVars, serverVars
  <2>3. CASE build_network_boot_request(p)
    <3>1. target' = target
      BY <1>4, <2>3
    <3>2. TargetStep(p)
      BY <1>1, <3>1, WorldStays
    <3>3. TargetInv(p)'
      BY <1>1, <1>2, <2>1, <2>2, <2>3, <3>1 DEF Own, TargetInv, Target, Connected, Booting
    <3>. QED BY <1>1, <1>2, <1>4, <2>1, <3>2, <3>3, ShellKeeps DEF Connecting, Booting
  <2>4. CASE ~build_network_boot_request(p)
    <3>. DEFINE x == [target[job[p].port] EXCEPT !.image = p]
    <3>1. x \in TargetState /\ x.image = p /\ x.kernel = Target(p).kernel /\ x.boot = Target(p).boot
      BY <1>1 DEF Target, TypeOK, TargetState, Owner
    <3>2. Connected(p)
      BY <1>4, <2>4, LoadyAnswers DEF Answers
    <3>3. TargetStep(p) /\ target'[job[p].port] = x
      BY <1>4, <2>4, <3>1, <3>2, Drives
    <3>4. TargetInv(p)'
      BY <1>1, <1>2, <2>1, <3>1, <3>2, <3>3 DEF Own, TargetInv, Target, Connected, Booting
    <3>. QED BY <1>1, <1>2, <1>4, <2>1, <3>3, <3>4, ShellKeeps DEF Connecting, Booting
  <2>. QED BY <2>3, <2>4
<1>. QED BY <1>3, <1>4 DEF Load

LEMMA BootKeeps ==
  ASSUME Inv, NEW p \in Procs, cmd_without_reply(p)
  PROVE  Inv'
<1>1. TypeOK /\ LeavesInv /\ Own(p) /\ pc[p] = "boot" /\ job[p].port \in Targets
  BY Plan DEF Inv, Own, cmd_without_reply
<1>2. UNCHANGED <<job, out, netOk, hostVars, link, serverVars, beating>>
  BY DEF cmd_without_reply
<1>3. CASE Fail(p) /\ UNCHANGED target
  BY <1>1, <1>2, <1>3, FailKeeps DEF serverVars, Connecting, Booting
<1>4. CASE /\ Answers(p) /\ Go(p, "console") /\ UNCHANGED <<res, faults>>
           /\ target' = [target EXCEPT ![job[p].port] =
                           IF build_network_boot_request(p) THEN [target[job[p].port] EXCEPT !.boot = bootfile(p)]
                           ELSE [target[job[p].port] EXCEPT !.kernel = Target(p).image]]
  <2>. DEFINE x == IF build_network_boot_request(p) THEN [target[job[p].port] EXCEPT !.boot = bootfile(p)]
                   ELSE [target[job[p].port] EXCEPT !.kernel = Target(p).image]
  <2>1. pc'[p] = "console" /\ Only(p, netOk, netOk', BOOLEAN)
    BY <1>1, <1>2, <1>4, Goes, ControlStays DEF Stages
  <2>2. /\ Connected(p) /\ Target(p).kernel = None /\ Target(p).boot = None
        /\ ~build_network_boot_request(p) => Target(p).image \in {None, p}
    BY <1>1, <1>4 DEF Answers, Own, TargetInv, Booting
  <2>3. bootfile(p) \in Leaves \cup Owner
    BY <1>1 DEF bootfile, TypeOK, Owner
  <2>4. target[job[p].port] \in TargetState
    BY <1>1 DEF TypeOK, TargetState
  <2>5. x \in TargetState /\ x.kernel \in {None, p} /\ x.boot \in {None, bootfile(p)}
    BY <2>2, <2>3, <2>4 DEF Target, TargetState, Owner
  <2>6. TargetStep(p) /\ target'[job[p].port] = x
    BY <1>4, <2>2, <2>5, Drives
  <2>7. TargetInv(p)'
    BY <1>2, <2>1, <2>5, <2>6 DEF TargetInv, Target, bootfile, hostVars
  <2>. QED BY <1>1, <1>2, <1>4, <2>1, <2>6, <2>7, ShellKeeps DEF Connecting, Booting
<1>. QED BY <1>3, <1>4 DEF cmd_without_reply

-----------------------------------------------------------------------------
(***************************************************************************)
(* The image.                                                              *)
(***************************************************************************)
\* A directory is claimed, given up or copied into.
LEMMA StageKeeps ==
  ASSUME Inv, NEW p \in Procs, ~Remote(p), ControlStep(p), HostStep(p), StagingInv(p)', ResultInv(p)',
         pc[p] \in {"stage", "chown", "copy"}, pc'[p] \in {"chown", "copy", "load", "finish"},
         UNCHANGED <<netOk, link, serverVars, target>>
  PROVE  Inv'
<1>1. TypeOK /\ LeavesInv /\ Own(p)
  BY DEF Inv, Own
<1>2. ConsoleStep(p) /\ ServerStep(p) /\ TargetStep(p) /\ job' = job
  BY <1>1, WorldStays DEF serverVars, ControlStep
<1>3. LinkInv(p)'
  BY <1>1, <1>2 DEF Own, LinkInv, Remote, Cmd, Before, Connecting, Booting, After, Ended
<1>4. SessionInv(p)'
  BY <1>1, <1>2 DEF Own, SessionInv, Remote, Cmd, Connected, serverVars
<1>5. TargetInv(p)'
  BY <1>1, <1>2 DEF Own, TargetInv, Target, Connected, Booting
<1>. QED BY <1>2, <1>3, <1>4, <1>5, StepKeeps DEF Own

LEMMA LocalStageKeeps ==
  ASSUME Inv, NEW p \in Procs, local_stage_fit_image(p)
  PROVE  Inv'
<1>1. TypeOK /\ LeavesInv /\ Own(p) /\ pc[p] = "stage" /\ ~Remote(p)
  BY DEF Inv, Own, local_stage_fit_image, Remote
<1>2. UNCHANGED <<job, out, netOk, file, link, serverVars, beating, target>>
  BY DEF local_stage_fit_image
<1>3. CASE Fail(p) /\ UNCHANGED <<dir, creator, staged>>
  BY <1>1, <1>2, <1>3, FailKeeps DEF serverVars, hostVars, Connecting, Booting
<1>4. CASE Go(p, "load") /\ UNCHANGED <<res, dir, creator, staged, faults>>
  BY <1>1, <1>2, <1>4, GoKeeps DEF serverVars, hostVars, Stages
<1>5. ASSUME NEW l \in Leaves, claim_tftp_namespace(l), dir' = [dir EXCEPT ![l] = "there"],
             creator' = [creator EXCEPT ![l] = p], staged' = [staged EXCEPT ![p] = l],
             NEW s \in {"chown", "copy"}, Go(p, s), UNCHANGED <<res, faults>>
      PROVE  Inv'
  <2>1. ControlStep(p) /\ pc'[p] = s
    BY <1>1, <1>2, <1>5, Goes, ControlStays DEF ControlStep, serverVars, Stages
  <2>2. Only(p, staged, staged', Leaves \cup {None}) /\ staged'[p] = l
    BY <1>1, <1>5, Entry DEF TypeOK
  <2>3. /\ dir' \in [Leaves -> {"free", "there", "gone"}] /\ creator' \in [Leaves -> Owner]
        /\ dir'[l] = "there" /\ creator'[l] = p /\ file'[l] = None /\ dir[l] = "free"
        /\ \A x \in Leaves \ {l} : dir'[x] = dir[x] /\ creator'[x] = creator[x] /\ file'[x] = file[x]
    BY <1>1, <1>2, <1>5 DEF TypeOK, LeavesInv, claim_tftp_namespace, Owner
  <2>4. LeavesInv'
    BY <1>1, <1>2, <2>3 DEF LeavesInv
  <2>5. HostStep(p)
    BY <1>1, <1>2, <2>2, <2>3, <2>4 DEF HostStep, TypeOK
  <2>6. staged[p] = None
    BY <1>1 DEF Own, StagingInv
  <2>7. StagingInv(p)'
    <3>1. job' = job /\ faults'[p] = faults[p]
      BY <1>2, <1>5
    <3>2. ~Remote(p)'
      BY <1>1, <3>1 DEF Remote, Cmd
    <3>3. ASSUME NEW x \in Leaves \ {l}, creator'[x] = p, dir'[x] = "there" PROVE "staging" \in faults'[p]
      BY <1>1, <2>3, <2>6, <3>1, <3>3, RunAssumption DEF Own, StagingInv
    <3>4. staged'[p] = l /\ pc'[p] \in {"chown", "copy"} /\ l # None
      BY <2>1, <2>2, RunAssumption
    <3>. QED BY <2>3, <3>2, <3>3, <3>4 DEF StagingInv
  <2>8. ResultInv(p)'
    BY <1>1, <1>2, <1>5, <2>1 DEF Own, ResultInv, Running, Ended, Active, serverVars
  <2>. QED BY <1>1, <1>2, <2>1, <2>5, <2>7, <2>8, StageKeeps
<1>. QED BY <1>3, <1>4, <1>5 DEF local_stage_fit_image

LEMMA RemoteStageKeeps ==
  ASSUME Inv, NEW p \in Procs, remote_stage_fit_image(p)
  PROVE  Inv'
<1>1. TypeOK /\ LeavesInv /\ Own(p) /\ pc[p] = "stage" /\ Remote(p)
  BY DEF Inv, Own, remote_stage_fit_image, Remote
<1>2. UNCHANGED <<job, out, netOk, hostVars, link, holder, session, old, beating, target>>
  BY DEF remote_stage_fit_image
<1>3. CASE Fail(p) /\ UNCHANGED upload
  BY <1>1, <1>2, <1>3, FailKeeps DEF Connecting, Booting
<1>4. CASE /\ upload' = [upload EXCEPT ![p] = IF job[p].net # "none" THEN p ELSE upload[p]]
           /\ Go(p, "load") /\ UNCHANGED <<res, faults>>
  <2>1. ControlStep(p) /\ pc'[p] = "load"
    BY <1>1, <1>2, <1>4, Goes, ControlStays DEF ControlStep, Stages
  <2>2. Only(p, upload, upload', Owner) /\ upload'[p] \in {upload[p], p}
    BY <1>1, <1>4, Entry DEF TypeOK, Owner
  <2>3. ConsoleStep(p) /\ HostStep(p) /\ TargetStep(p)
    BY <1>1, <1>2, WorldStays
  <2>4. ServerStep(p)
    BY <1>1, <1>2, <2>2 DEF ServerStep, TypeOK, Sessions, Only
  <2>5. LinkInv(p)'
    BY <1>1, <1>2, <2>1 DEF Own, LinkInv, Remote, Cmd, Before, Connecting, Booting, After, Ended
  <2>6. SessionInv(p)'
    BY <1>1, <1>2, <2>1, <2>2 DEF Own, SessionInv, Remote, Cmd, Connected
  <2>7. ResultInv(p)'
    BY <1>1, <1>2, <1>4, <2>1 DEF Own, ResultInv, Running, Ended, Active
  <2>8. StagingInv(p)'
    BY <1>1, <1>2, <1>4, <2>1 DEF Own, StagingInv, hostVars, Remote, Cmd
  <2>9. TargetInv(p)'
    BY <1>1, <1>2, <2>1 DEF Own, TargetInv, Target, Connected, Booting
  <2>. QED BY <2>1, <2>3, <2>4, <2>5, <2>6, <2>7, <2>8, <2>9, StepKeeps DEF Own
<1>. QED BY <1>3, <1>4 DEF remote_stage_fit_image

LEMMA RollbackKeeps ==
  ASSUME Inv, NEW p \in Procs, pc[p] \in {"chown", "copy"}, Rollback(p),
         UNCHANGED <<job, out, netOk, creator, link, serverVars, beating, target>>
  PROVE  Inv'
<1>1. TypeOK /\ LeavesInv /\ Own(p)
  BY DEF Inv, Own
<1>2. PICK l \in Leaves : staged[p] = l /\ creator[l] = p /\ ~Remote(p)
  BY <1>1, RunAssumption DEF Own, StagingInv, TypeOK
<1>3. Only(p, pc, pc', Stages) /\ pc'[p] = "finish"
  BY <1>1, Goes DEF Rollback, Stages
<1>4. Only(p, res, res', Results) /\ res'[p] = "err"
  BY <1>1, Entry DEF Rollback, TypeOK, Results
<1>5. Only(p, staged, staged', Leaves \cup {None}) /\ staged'[p] = None
  BY <1>1, Entry DEF Rollback, TypeOK
<1>6. /\ Only(p, faults, faults', SUBSET Faults)
      /\ (Remove(l) /\ faults[p] \subseteq faults'[p]) \/ (UNCHANGED <<dir, file>> /\ "staging" \in faults'[p])
  <2>1. faults[p] \cup {"other"} \in SUBSET Faults /\ faults[p] \cup Faults \in SUBSET Faults /\ "staging" \in Faults
    BY <1>1 DEF TypeOK, Faults
  <2>2. ASSUME NEW x \in SUBSET Faults, faults' = [faults EXCEPT ![p] = x]
        PROVE  Only(p, faults, faults', SUBSET Faults) /\ faults'[p] = x
    BY <1>1, <2>2, Entry DEF TypeOK
  <2>3. CASE Remove(staged[p]) /\ faults' = [faults EXCEPT ![p] = faults[p] \cup {"other"}]
    <3>1. Only(p, faults, faults', SUBSET Faults) /\ faults'[p] = faults[p] \cup {"other"}
      BY <2>1, <2>2, <2>3
    <3>. QED BY <1>2, <2>3, <3>1
  <2>4. CASE UNCHANGED <<dir, file>> /\ faults' = [faults EXCEPT ![p] = faults[p] \cup Faults]
    <3>1. Only(p, faults, faults', SUBSET Faults) /\ faults'[p] = faults[p] \cup Faults
      BY <2>1, <2>2, <2>4
    <3>. QED BY <2>1, <2>4, <3>1
  <2>. QED BY <2>3, <2>4 DEF Rollback
<1>7. ControlStep(p)
  BY <1>1, <1>3, <1>4, <1>6, ControlStays DEF ControlStep, serverVars
<1>8. ResultInv(p)'
  BY <1>1, <1>3, <1>4 DEF Own, ResultInv, Running, Active, serverVars
<1>9. HostStep(p) /\ StagingInv(p)'
  <2>1. CASE Remove(l) /\ faults[p] \subseteq faults'[p]
    <3>1. /\ dir' \in [Leaves -> {"free", "there", "gone"}] /\ file' \in [Leaves -> Owner]
          /\ dir'[l] = "gone" /\ file'[l] = None
          /\ \A x \in Leaves \ {l} : dir'[x] = dir[x] /\ file'[x] = file[x]
      BY <1>1, <2>1 DEF Remove, TypeOK, Owner
    <3>2. LeavesInv'
      BY <1>1, <3>1 DEF LeavesInv
    <3>3. HostStep(p)
      BY <1>1, <1>2, <1>5, <3>1, <3>2 DEF HostStep, TypeOK
    <3>4. StagingInv(p)'
      BY <1>1, <1>2, <1>3, <1>5, <2>1, <3>1 DEF Own, StagingInv, Remote, Cmd
    <3>. QED BY <3>3, <3>4
  <2>2. CASE UNCHANGED <<dir, file>> /\ "staging" \in faults'[p]
    <3>1. HostStep(p)
      BY <1>1, <1>5, <2>2 DEF HostStep, LeavesInv, TypeOK
    <3>2. StagingInv(p)'
      BY <1>1, <1>2, <1>3, <1>5, <2>2 DEF Own, StagingInv, Remote, Cmd
    <3>. QED BY <3>1, <3>2
  <2>. QED BY <1>6, <2>1, <2>2
<1>. QED BY <1>2, <1>3, <1>7, <1>8, <1>9, StageKeeps

LEMMA ClaimKeeps ==
  ASSUME Inv, NEW p \in Procs, claim_privileged_leaf(p)
  PROVE  Inv'
<1>1. CASE Go(p, "copy") /\ UNCHANGED <<res, staged, dir, file, faults>>
  BY <1>1, GoKeeps DEF claim_privileged_leaf, serverVars, hostVars, Stages
<1>2. CASE Rollback(p)
  BY <1>2, RollbackKeeps DEF claim_privileged_leaf
<1>. QED BY <1>1, <1>2 DEF claim_privileged_leaf

LEMMA CopyKeeps ==
  ASSUME Inv, NEW p \in Procs, CopyFit(p)
  PROVE  Inv'
<1>1. TypeOK /\ LeavesInv /\ Own(p) /\ pc[p] = "copy"
  BY DEF Inv, Own, CopyFit
<1>2. UNCHANGED <<job, out, netOk, creator, link, serverVars, beating, target>>
  BY DEF CopyFit
<1>3. CASE Rollback(p)
  BY <1>1, <1>2, <1>3, RollbackKeeps
<1>4. CASE file' = [file EXCEPT ![staged[p]] = p] /\ Go(p, "load") /\ UNCHANGED <<res, staged, dir, faults>>
  <2>1. PICK l \in Leaves : staged[p] = l /\ creator[l] = p /\ dir[l] = "there" /\ ~Remote(p)
    BY <1>1, RunAssumption DEF Own, StagingInv, TypeOK
  <2>2. ControlStep(p) /\ pc'[p] = "load"
    BY <1>1, <1>2, <1>4, Goes, ControlStays DEF ControlStep, serverVars, Stages
  <2>3. file' \in [Leaves -> Owner] /\ file'[l] = p /\ \A x \in Leaves \ {l} : file'[x] = file[x]
    BY <1>1, <1>4, <2>1 DEF TypeOK, Owner
  <2>4. LeavesInv'
    BY <1>1, <1>4, <2>1, <2>3 DEF LeavesInv
  <2>5. HostStep(p)
    BY <1>1, <1>2, <1>4, <2>1, <2>3, <2>4 DEF HostStep, TypeOK, Only
  <2>6. StagingInv(p)'
    BY <1>1, <1>2, <1>4, <2>1, <2>2, <2>3 DEF Own, StagingInv, Remote, Cmd
  <2>7. ResultInv(p)'
    BY <1>1, <1>2, <1>4, <2>2 DEF Own, ResultInv, Running, Ended, Active, serverVars
  <2>. QED BY <1>1, <1>2, <2>1, <2>2, <2>5, <2>6, <2>7, StageKeeps
<1>. QED BY <1>3, <1>4 DEF CopyFit

-----------------------------------------------------------------------------
(***************************************************************************)
(* The console and the way out.                                            *)
(***************************************************************************)
\* The kernel that passes the checks is the run's own, so its Ok hides nothing.
LEMMA VerdictKeeps ==
  ASSUME Inv, NEW p \in Procs, pc[p] = "console", Verdict(p)
  PROVE  Inv'
<1>1. TypeOK /\ LeavesInv /\ Own(p) /\ pc[p] = "console"
  BY DEF Inv, Own
<1>2. UNCHANGED <<job, out, netOk, hostVars, link, serverVars, beating, target>>
  BY DEF Verdict
<1>3. CASE Fail(p)
  BY <1>1, <1>2, <1>3, FailKeeps DEF serverVars, Connecting, Booting
<1>4. CASE /\ job[p].checks => Connected(p) /\ Target(p).kernel # None
           /\ res' = [res EXCEPT ![p] = "ok"] /\ Go(p, "finish")
           /\ faults' = [faults EXCEPT ![p] = faults[p] \cup IF job[p].checks /\ Target(p).kernel # p THEN {"other"} ELSE {}]
  <2>1. job[p].checks => Target(p).kernel = p
    BY <1>1, <1>4 DEF Own, TargetInv, Booting
  <2>2. faults' = faults
    BY <1>1, <1>4, <2>1 DEF TypeOK
  <2>3. Only(p, pc, pc', Stages) /\ pc'[p] = "finish"
    BY <1>1, <1>4, Goes DEF Stages
  <2>4. Only(p, res, res', Results) /\ res'[p] = "ok"
    BY <1>1, <1>4, Entry DEF TypeOK, Results
  <2>5. ControlStep(p)
    BY <1>1, <1>2, <2>2, <2>3, <2>4, ControlStays DEF ControlStep, serverVars
  <2>6. ResultInv(p)'
    BY <1>1, <1>2, <2>2, <2>3 DEF Own, ResultInv, Running, Ended, Active, serverVars
  <2>. QED BY <1>1, <1>2, <2>2, <2>3, <2>5, <2>6, Moves
         DEF Before, Connecting, Booting, After, Ended, Stages, serverVars
<1>. QED BY <1>3, <1>4 DEF Verdict

LEMMA ConsoleKeeps ==
  ASSUME Inv, NEW p \in Procs, UbootConsole(p) \/ HttpBootConsole(p) \/ run_serial_terminal(p)
  PROVE  Inv'
  BY VerdictKeeps DEF UbootConsole, HttpBootConsole, run_serial_terminal

\* What holds of a step that changes only the console of a run.
LEMMA LinkKeeps ==
  ASSUME Inv, NEW p \in Procs, ControlStep(p), ConsoleStep(p), LinkInv(p)', ResultInv(p)',
         pc' = pc, netOk' = netOk, faults[p] \subseteq faults'[p], ~Connected(p)', UNCHANGED <<hostVars, serverVars, target>>
  PROVE  Inv'
<1>1. TypeOK /\ LeavesInv /\ Own(p) /\ job' = job
  BY DEF Inv, Own, ControlStep
<1>2. ServerStep(p) /\ HostStep(p) /\ TargetStep(p)
  BY <1>1, WorldStays DEF serverVars
<1>3. SessionInv(p)'
  BY <1>1 DEF Own, SessionInv, Remote, Cmd, serverVars
<1>4. StagingInv(p)'
  BY <1>1 DEF Own, StagingInv, hostVars, Remote, Cmd
<1>5. TargetInv(p)'
  BY DEF TargetInv
<1>. QED BY <1>2, <1>3, <1>4, <1>5, StepKeeps DEF Own

LEMMA WriterKeeps ==
  ASSUME Inv, NEW p \in Procs, LinkWriter(p)
  PROVE  Inv'
<1>1. TypeOK /\ LeavesInv /\ Own(p) /\ pc[p] = "finish" /\ Remote(p)
  BY DEF Inv, Own, LinkWriter
<1>2. UNCHANGED <<job, pc, res, out, netOk, hostVars, serverVars, beating, target, faults>>
  BY DEF LinkWriter
<1>3. ControlStep(p)
  BY <1>1, <1>2, ControlStays DEF ControlStep, serverVars
<1>4. /\ link' \in [Procs -> Link] /\ \A q \in Procs \ {p} : link'[q] = link[q]
      /\ link'[p].st = "closed" /\ link'[p].read = link[p].read
  BY <1>1 DEF LinkWriter, TypeOK, Link
<1>5. ConsoleStep(p) /\ ~Connected(p)'
  BY <1>4 DEF ConsoleStep, Only, Connected
<1>6. LinkInv(p)'
  BY <1>1, <1>2, <1>4 DEF LinkInv, Remote, Cmd, Before, Connecting, Booting, After, Ended
<1>7. ResultInv(p)'
  BY <1>1, <1>2, <1>4 DEF Own, ResultInv, Running, Active, serverVars
<1>. QED BY <1>2, <1>3, <1>5, <1>6, <1>7, LinkKeeps

\* The server's close is an error unless the run has closed its side first.
LEMMA ReaderKeeps ==
  ASSUME Inv, NEW p \in Procs, LinkReader(p)
  PROVE  Inv'
<1>1. TypeOK /\ LeavesInv /\ Own(p) /\ link[p].msg /\ link[p].read = "open" /\ pc[p] \notin Ended
  BY DEF Inv, Own, LinkReader
<1>2. UNCHANGED <<job, pc, res, out, netOk, hostVars, serverVars, beating, target>>
  BY DEF LinkReader
<1>3. faults' = [faults EXCEPT ![p] = faults[p] \cup IF Running(p) THEN {"other"} ELSE {}]
  BY DEF LinkReader
<1>4. Only(p, faults, faults', SUBSET Faults) /\ faults'[p] = faults[p] \cup IF Running(p) THEN {"other"} ELSE {}
  <2>. DEFINE x == faults[p] \cup IF Running(p) THEN {"other"} ELSE {}
  <2>1. x \in SUBSET Faults
    BY <1>1 DEF TypeOK, Faults
  <2>. QED BY <1>1, <1>3, <2>1, Entry DEF TypeOK
<1>5. ControlStep(p)
  BY <1>1, <1>2, <1>4, ControlStays DEF ControlStep, serverVars
<1>6. /\ link' \in [Procs -> Link] /\ \A q \in Procs \ {p} : link'[q] = link[q]
      /\ link'[p].st = link[p].st /\ ~link'[p].msg /\ link'[p].read = IF link[p].st = "closed" THEN "ok" ELSE "err"
  BY <1>1 DEF LinkReader, classify_server_control_message, TypeOK, Link
<1>7. ConsoleStep(p) /\ ~Connected(p)'
  BY <1>6 DEF ConsoleStep, Only, Connected
<1>8. LinkInv(p)'
  BY <1>1, <1>2, <1>6 DEF Own, LinkInv, Remote, Cmd
<1>9. Running(p) => link[p].st # "closed"
  BY <1>1 DEF Own, LinkInv, Running, Before, Connecting, Booting, Ended, TypeOK, Stages
<1>10. ResultInv(p)'
  BY <1>1, <1>2, <1>4, <1>6, <1>9 DEF Own, ResultInv, Running, Ended, Active, serverVars
<1>. QED BY <1>2, <1>4, <1>5, <1>7, <1>8, <1>10, LinkKeeps

\* The state of a console alone is written.
LEMMA Writes ==
  ASSUME TypeOK, NEW p \in Procs, NEW x \in {"none", "open", "closed"}, link' = [link EXCEPT ![p].st = x]
  PROVE  /\ Only(p, link, link', Link)
         /\ link'[p].st = x /\ link'[p].msg = link[p].msg /\ link'[p].read = link[p].read
<1>1. link \in [Procs -> Link]
  BY DEF TypeOK, Link
<1>. QED BY <1>1 DEF Link, Only

\* The clean-up of the console: from here on a failure is in the result.
LEMMA FinishKeeps ==
  ASSUME Inv, NEW p \in Procs, finish_console(p)
  PROVE  Inv'
<1>1. TypeOK /\ LeavesInv /\ Own(p) /\ pc[p] = "finish"
  BY DEF Inv, Own, finish_console
<1>2. UNCHANGED <<job, out, netOk, hostVars, serverVars, beating, target>>
  BY DEF finish_console
<1>. DEFINE r == shutdown_with_timeout(p)
<1>3. r \in {"ok", "err"} /\ (r = "ok" => link[p].read # "err")
  BY <1>1 DEF Own, LinkInv, shutdown_with_timeout, TypeOK
<1>4. Only(p, res, res', Results) /\ res'[p] = IF res[p] = "err" THEN "err" ELSE r
  <2>1. Worse(res[p], r) \in Results /\ Worse(res[p], r) = IF res[p] = "err" THEN "err" ELSE r
    BY <1>3 DEF Worse, Results
  <2>2. res' = [res EXCEPT ![p] = Worse(res[p], r)]
    BY DEF finish_console
  <2>. QED BY <1>1, <2>1, <2>2, Entry DEF TypeOK
<1>5. Only(p, faults, faults', SUBSET Faults) /\ faults'[p] = faults[p] \cup IF r = "err" THEN {"other"} ELSE {}
  <2>. DEFINE x == faults[p] \cup IF r = "err" THEN {"other"} ELSE {}
  <2>1. x \in SUBSET Faults /\ faults' = [faults EXCEPT ![p] = x]
    BY <1>1 DEF TypeOK, Faults, finish_console
  <2>. QED BY <1>1, <2>1, Entry DEF TypeOK
<1>6. Only(p, pc, pc', Stages) /\ pc'[p] = IF Cmd(p) \in {"uboot", "board"} THEN "after" ELSE "release"
  BY <1>1, Goes DEF finish_console, Stages
<1>7. ControlStep(p)
  BY <1>1, <1>2, <1>4, <1>5, <1>6, ControlStays DEF ControlStep, serverVars
<1>8. /\ Only(p, link, link', Link)
      /\ link'[p].st = IF link[p].st = "none" THEN "none" ELSE "closed"
      /\ link'[p].msg = link[p].msg /\ link'[p].read = link[p].read
  <2>1. link' = [link EXCEPT ![p].st = IF link[p].st = "none" THEN link[p].st ELSE "closed"]
    BY DEF finish_console
  <2>. QED BY <1>1, <2>1, Writes
<1>9. ConsoleStep(p) /\ ServerStep(p) /\ HostStep(p) /\ TargetStep(p) /\ ~Connected(p)'
  BY <1>1, <1>2, <1>8, WorldStays DEF ConsoleStep, Connected, serverVars
<1>10. LinkInv(p)'
  BY <1>1, <1>2, <1>6, <1>8 DEF Own, LinkInv, Remote, Cmd, Before, Connecting, Booting, After, Ended
<1>11. SessionInv(p)'
  BY <1>1, <1>2, <1>6, <1>9 DEF Own, SessionInv, Remote, Cmd, serverVars
<1>12. ResultInv(p)'
  BY <1>1, <1>2, <1>3, <1>4, <1>5, <1>6 DEF Own, ResultInv, Running, Ended, Active, serverVars
<1>13. StagingInv(p)'
  <2>1. staged[p] # None => pc'[p] = "after"
    BY <1>1, <1>6 DEF Own, StagingInv, Remote
  <2>. QED BY <1>1, <1>2, <1>5, <1>6, <2>1 DEF Own, StagingInv, hostVars, Remote, Cmd
<1>14. TargetInv(p)'
  BY <1>9 DEF TargetInv
<1>. QED BY <1>7, <1>9, <1>10, <1>11, <1>12, <1>13, <1>14, StepKeeps DEF Own

\* The directory goes, or the result says that it could not.
LEMMA AfterRunKeeps ==
  ASSUME Inv, NEW p \in Procs, after_run(p)
  PROVE  Inv'
<1>1. TypeOK /\ LeavesInv /\ Own(p) /\ pc[p] = "after" /\ cleanup_linux_tftp_staging(p)
  BY DEF Inv, Own, after_run
<1>2. UNCHANGED <<job, netOk, creator, link, serverVars, beating>>
  BY DEF after_run
<1>3. Only(p, staged, staged', Leaves \cup {None}) /\ staged'[p] = None
  BY <1>1, Entry DEF cleanup_linux_tftp_staging, TypeOK
<1>4. /\ Only(p, res, res', Results) /\ Only(p, faults, faults', SUBSET Faults) /\ res'[p] # "none"
      /\ (faults'[p] = faults[p] /\ res'[p] = res[p]) \/ (faults'[p] = faults[p] \cup {"staging"} /\ res'[p] = "err")
      /\ \/ UNCHANGED <<dir, file>> /\ (staged[p] = None \/ "staging" \in faults'[p])
         \/ staged[p] # None /\ Remove(staged[p])
  <2>1. res[p] # "none"
    BY <1>1 DEF Own, ResultInv
  <2>2. CASE /\ UNCHANGED <<res, faults>>
             /\ (staged[p] = None /\ UNCHANGED <<dir, file>>) \/ (staged[p] # None /\ Remove(staged[p]))
    BY <1>1, <2>1, <2>2, ControlStays
  <2>3. CASE /\ res' = [res EXCEPT ![p] = Worse(res[p], "err")] /\ faults' = [faults EXCEPT ![p] = faults[p] \cup {"staging"}]
             /\ UNCHANGED <<dir, file>>
    <3>1. faults[p] \cup {"staging"} \in SUBSET Faults /\ Worse(res[p], "err") = "err" /\ "err" \in Results
      BY <1>1 DEF TypeOK, Faults, Worse, Results
    <3>2. Only(p, faults, faults', SUBSET Faults) /\ faults'[p] = faults[p] \cup {"staging"}
      BY <1>1, <2>3, <3>1, Entry DEF TypeOK
    <3>3. Only(p, res, res', Results) /\ res'[p] = "err"
      BY <1>1, <2>3, <3>1, Entry DEF TypeOK
    <3>. QED BY <2>3, <3>2, <3>3
  <2>. QED BY <1>1, <2>2, <2>3 DEF cleanup_linux_tftp_staging
<1>5. /\ Only(p, pc, pc', Stages) /\ Only(p, out, out', Results)
      /\ \/ Remote(p) /\ pc'[p] = "release" /\ out'[p] = out[p]
         \/ ~Remote(p) /\ pc'[p] = "returned" /\ out'[p] = res'[p]
  <2>1. CASE Remote(p)
    BY <1>1, <2>1, Goes, ControlStays DEF after_run, Stages
  <2>2. CASE ~Remote(p)
    <3>1. res'[p] \in Results
      BY <1>4 DEF Only
    <3>. QED BY <1>1, <2>2, <3>1, Returns DEF after_run
  <2>. QED BY <2>1, <2>2
<1>6. ControlStep(p)
  BY <1>1, <1>2, <1>4, <1>5, ControlStays DEF ControlStep, serverVars
<1>7. ConsoleStep(p) /\ ServerStep(p)
  BY <1>1, <1>2, WorldStays DEF serverVars
<1>8. TargetStep(p)
  BY <1>1, Resets, WorldStays, Plan DEF after_run
<1>9. HostStep(p) /\ StagingInv(p)'
  <2>1. CASE UNCHANGED <<dir, file>> /\ (staged[p] = None \/ "staging" \in faults'[p])
    <3>1. HostStep(p)
      BY <1>1, <1>2, <1>3, <2>1 DEF HostStep, LeavesInv, TypeOK
    <3>2. StagingInv(p)'
      <4>1. \A l \in Leaves : creator'[l] = p => ~Remote(p)' /\ (dir'[l] = "there" => "staging" \in faults'[p])
        <5>. SUFFICES ASSUME NEW l \in Leaves, creator[l] = p
                      PROVE  ~Remote(p) /\ (dir[l] = "there" => "staging" \in faults'[p])
          BY <1>2, <2>1 DEF Remote, Cmd
        <5>1. ~Remote(p) /\ (dir[l] = "there" => staged[p] = l \/ "staging" \in faults[p])
          BY <1>1 DEF Own, StagingInv
        <5>. QED BY <1>4, <2>1, <5>1, RunAssumption
      <4>. QED BY <1>3, <1>5, <4>1 DEF StagingInv
    <3>. QED BY <3>1, <3>2
  <2>2. CASE staged[p] # None /\ Remove(staged[p])
    <3>1. PICK l \in Leaves : staged[p] = l /\ creator[l] = p /\ ~Remote(p)
      BY <1>1, <2>2 DEF Own, StagingInv, TypeOK
    <3>2. /\ dir' \in [Leaves -> {"free", "there", "gone"}] /\ file' \in [Leaves -> Owner]
          /\ dir'[l] = "gone" /\ file'[l] = None
          /\ \A x \in Leaves \ {l} : dir'[x] = dir[x] /\ file'[x] = file[x]
      BY <1>1, <2>2, <3>1 DEF Remove, TypeOK, Owner
    <3>3. LeavesInv'
      BY <1>1, <3>2 DEF LeavesInv
    <3>4. HostStep(p)
      BY <1>1, <1>2, <1>3, <3>1, <3>2, <3>3 DEF HostStep, TypeOK
    <3>5. StagingInv(p)'
      <4>1. ~Remote(p)' /\ faults[p] \subseteq faults'[p]
        BY <1>2, <1>4, <3>1 DEF Remote, Cmd
      <4>. QED BY <1>1, <1>2, <1>3, <1>5, <3>1, <3>2, <4>1 DEF Own, StagingInv
    <3>. QED BY <3>4, <3>5
  <2>. QED BY <1>4, <2>1, <2>2
<1>10. LinkInv(p)'
  BY <1>1, <1>2, <1>5 DEF Own, LinkInv, Remote, Cmd, Before, Connecting, Booting, After, Ended
<1>11. SessionInv(p)'
  BY <1>1, <1>2, <1>5 DEF Own, SessionInv, Remote, Cmd, Connected, serverVars
<1>12. ResultInv(p)'
  <2>1. ~Remote(p) => ~Active(p)'
    BY <1>1, <1>2 DEF Own, SessionInv, Active, serverVars
  <2>2. faults[p] # {} => res[p] = "err"
    BY <1>1 DEF Own, ResultInv
  <2>. QED BY <1>1, <1>4, <1>5, <2>1, <2>2 DEF Own, ResultInv, Running, Ended
<1>13. TargetInv(p)'
  BY <1>5 DEF TargetInv, Booting
<1>. QED BY <1>6, <1>7, <1>8, <1>9, <1>10, <1>11, <1>12, <1>13, StepKeeps DEF Own

LEMMA StopHeartbeatKeeps ==
  ASSUME Inv, NEW p \in Procs, StopHeartbeat(p)
  PROVE  Inv'
<1>1. TypeOK /\ LeavesInv /\ Own(p) /\ pc[p] = "release"
  BY DEF Inv, Own, StopHeartbeat
<1>2. UNCHANGED <<job, res, out, netOk, hostVars, link, serverVars, target, faults>>
  BY DEF StopHeartbeat
<1>3. ControlStep(p) /\ pc'[p] = "delete"
  <2>1. Only(p, beating, beating', BOOLEAN)
    BY <1>1, Entry DEF StopHeartbeat, TypeOK
  <2>. QED BY <1>1, <1>2, <2>1, Goes, ControlStays DEF StopHeartbeat, ControlStep, serverVars, Stages
<1>4. ResultInv(p)'
  BY <1>1, <1>2, <1>3 DEF Own, ResultInv, Running, Ended, Active, serverVars
<1>5. link[p].st # "open" /\ staged[p] = None
  BY <1>1 DEF Own, LinkInv, StagingInv, After
<1>. QED BY <1>1, <1>2, <1>3, <1>4, <1>5, Moves DEF Before, Connecting, Booting, Stages, serverVars

\* Ok needs an answer, and an answered DELETE has released the session.
LEMMA DeleteKeeps ==
  ASSUME Inv, NEW p \in Procs, delete_session(p)
  PROVE  Inv'
<1>1. TypeOK /\ LeavesInv /\ Own(p) /\ pc[p] = "delete" /\ link[p].st # "open" /\ staged[p] = None
  BY DEF Inv, Own, delete_session, LinkInv, StagingInv, After
<1>2. UNCHANGED <<job, res, netOk, hostVars, link, holder, old, upload, beating, target>>
  BY DEF delete_session
<1>3. PICK delivered \in BOOLEAN, answered \in BOOLEAN :
        /\ answered => delivered
        /\ session' = [session EXCEPT ![p] = IF delivered /\ session[p] = "active" THEN "closing" ELSE session[p]]
        /\ finalize_session(p, answered)
        /\ faults' = [faults EXCEPT ![p] = faults[p] \cup IF answered THEN {} ELSE {"other"}]
  BY DEF delete_session
<1>4. /\ Only(p, session, session', Sessions)
      /\ session'[p] = IF delivered /\ session[p] = "active" THEN "closing" ELSE session[p]
  BY <1>1, <1>3 DEF Only, TypeOK, Sessions
<1>5. Only(p, faults, faults', SUBSET Faults) /\ faults'[p] = faults[p] \cup IF answered THEN {} ELSE {"other"}
  <2>. DEFINE x == faults[p] \cup IF answered THEN {} ELSE {"other"}
  <2>1. x \in SUBSET Faults
    BY <1>1 DEF TypeOK, Faults
  <2>. QED BY <1>1, <1>3, <2>1, Entry DEF TypeOK
<1>6. /\ Only(p, pc, pc', Stages) /\ pc'[p] = "returned" /\ Only(p, out, out', Results)
      /\ out'[p] = IF answered THEN res[p] ELSE "err"
  <2>1. (IF answered THEN res[p] ELSE "err") \in Results
    BY <1>1 DEF TypeOK, Results
  <2>. QED BY <1>1, <1>3, <2>1, Returns DEF finalize_session
<1>7. ControlStep(p)
  BY <1>1, <1>2, <1>5, <1>6, ControlStays DEF ControlStep
<1>8. ConsoleStep(p) /\ HostStep(p) /\ TargetStep(p)
  BY <1>1, <1>2, WorldStays
<1>9. ServerStep(p)
  BY <1>1, <1>2, <1>4 DEF ServerStep, TypeOK, Only
<1>10. LinkInv(p)'
  BY <1>1, <1>2, <1>6 DEF Own, LinkInv, Remote, Cmd, Before, Connecting, Booting
<1>11. SessionInv(p)'
  BY <1>1, <1>2, <1>4, <1>6 DEF Own, SessionInv, Remote, Cmd, Connected
<1>12. ResultInv(p)'
  BY <1>1, <1>2, <1>3, <1>4, <1>5, <1>6 DEF Own, ResultInv, Running, Ended, Active
<1>13. StagingInv(p)'
  BY <1>1, <1>2, <1>5, <1>6 DEF Own, StagingInv, hostVars, Remote, Cmd
<1>14. TargetInv(p)'
  BY <1>6 DEF TargetInv, Booting
<1>. QED BY <1>7, <1>8, <1>9, <1>10, <1>11, <1>12, <1>13, <1>14, StepKeeps DEF Own

\* What a killed run leaves behind is nobody's.
LEMMA CrashKeeps ==
  ASSUME Inv, NEW p \in Procs, Crash(p)
  PROVE  Inv'
<1>1. TypeOK /\ LeavesInv /\ Own(p) /\ pc[p] \notin Ended
  BY DEF Inv, Own, Crash
<1>2. UNCHANGED <<job, out, dir, file, creator, serverVars, target>>
  BY DEF Crash
<1>3. Only(p, res, res', Results) /\ Only(p, netOk, netOk', BOOLEAN)
  BY <1>1, Entry DEF Crash, TypeOK, Results
<1>4. Only(p, beating, beating', BOOLEAN) /\ Only(p, faults, faults', SUBSET Faults) /\ faults'[p] = {}
  BY <1>1, Entry DEF Crash, TypeOK
<1>5. Only(p, staged, staged', Leaves \cup {None}) /\ staged'[p] = None
  BY <1>1, Entry DEF Crash, TypeOK
<1>6. Only(p, pc, pc', Stages) /\ pc'[p] = "dead"
  BY <1>1, Goes DEF Crash, Stages, Ended
<1>7. ControlStep(p)
  BY <1>1, <1>2, <1>3, <1>4, <1>6, ControlStays DEF ControlStep, serverVars
<1>8. /\ Only(p, link, link', Link)
      /\ link'[p].st = IF link[p].st = "none" THEN "none" ELSE "closed"
      /\ link'[p].msg = link[p].msg /\ link'[p].read = link[p].read
  <2>1. link' = [link EXCEPT ![p].st = IF link[p].st = "none" THEN link[p].st ELSE "closed"]
    BY DEF Crash
  <2>. QED BY <1>1, <2>1, Writes
<1>9. ConsoleStep(p) /\ ~Connected(p)'
  BY <1>8 DEF ConsoleStep, Connected
<1>10. ServerStep(p) /\ TargetStep(p)
  BY <1>1, <1>2, WorldStays DEF serverVars
<1>11. HostStep(p)
  BY <1>1, <1>2, <1>5 DEF HostStep, LeavesInv, TypeOK
<1>12. LinkInv(p)'
  BY <1>1, <1>2, <1>6, <1>8 DEF Own, LinkInv, Remote, Cmd, Before, Connecting, Booting
<1>13. SessionInv(p)'
  BY <1>1, <1>2, <1>6, <1>9 DEF Own, SessionInv, Remote, Cmd, serverVars
<1>14. ResultInv(p)'
  BY <1>1, <1>2, <1>4, <1>6 DEF Own, ResultInv, Ended
<1>15. StagingInv(p)'
  BY <1>1, <1>2, <1>5, <1>6 DEF Own, StagingInv, Remote, Cmd
<1>16. TargetInv(p)'
  BY <1>9 DEF TargetInv
<1>. QED BY <1>7, <1>9, <1>10, <1>11, <1>12, <1>13, <1>14, <1>15, <1>16, StepKeeps DEF Own

-----------------------------------------------------------------------------
(***************************************************************************)
(* The lease and the boards.                                               *)
(***************************************************************************)
LEMMA LeaseKeeps ==
  ASSUME Inv, NEW p \in Procs, Heartbeat(p) \/ LeaseAges(p) \/ ServerStops(p)
  PROVE  Inv'
<1>1. TypeOK /\ LeavesInv /\ Own(p)
  BY DEF Inv, Own
<1>2. UNCHANGED <<job, pc, res, out, netOk, hostVars, link, holder, upload, target, faults>>
  BY DEF Heartbeat, LeaseAges, ServerStops
<1>3. Only(p, beating, beating', BOOLEAN) /\ Only(p, old, old', BOOLEAN)
  <2>1. beating' = beating \/ beating' = [beating EXCEPT ![p] = FALSE]
    BY DEF Heartbeat, LeaseAges, ServerStops
  <2>2. old' = old \/ old' = [old EXCEPT ![p] = FALSE] \/ old' = [old EXCEPT ![p] = TRUE]
    BY DEF Heartbeat, LeaseAges, ServerStops
  <2>3. Only(p, beating, beating', BOOLEAN)
    BY <1>1, <2>1 DEF TypeOK, Only
  <2>4. Only(p, old, old', BOOLEAN)
    BY <1>1, <2>2 DEF TypeOK, Only
  <2>. QED BY <2>3, <2>4
<1>4. Only(p, session, session', Sessions) /\ (session'[p] = session[p] \/ (session[p] = "active" /\ session'[p] = "closing"))
  <2>1. session' = session \/ (Active(p) /\ session' = [session EXCEPT ![p] = "closing"])
    BY DEF Heartbeat, LeaseAges, ServerStops
  <2>. QED BY <1>1, <2>1 DEF TypeOK, Only, Sessions, Active
<1>5. ControlStep(p)
  BY <1>1, <1>2, <1>3, ControlStays DEF ControlStep
<1>6. ConsoleStep(p) /\ HostStep(p) /\ TargetStep(p)
  BY <1>1, <1>2, WorldStays
<1>7. ServerStep(p)
  BY <1>1, <1>2, <1>4 DEF ServerStep, TypeOK, Only
<1>8. LinkInv(p)'
  BY <1>1, <1>2 DEF Own, LinkInv, Remote, Cmd
<1>9. SessionInv(p)'
  BY <1>1, <1>2, <1>4 DEF Own, SessionInv, Remote, Cmd, Connected
<1>10. ResultInv(p)'
  BY <1>1, <1>2, <1>4 DEF Own, ResultInv, Running, Active
<1>11. StagingInv(p)'
  BY <1>1, <1>2 DEF Own, StagingInv, hostVars, Remote, Cmd
<1>12. TargetInv(p)'
  BY <1>1, <1>2 DEF Own, TargetInv, Target, Connected, hostVars, build_network_boot_request, bootfile
<1>. QED BY <1>5, <1>6, <1>7, <1>8, <1>9, <1>10, <1>11, <1>12, StepKeeps DEF Own

\* The next holder of the board finds it off and its console alone on it.
LEMMA FreesKeeps ==
  ASSUME Inv, NEW p \in Procs, ServerFrees(p)
  PROVE  Inv'
<1>1. TypeOK /\ LeavesInv /\ Own(p) /\ session[p] = "closing"
  BY DEF Inv, Own, ServerFrees
<1>2. UNCHANGED <<job, pc, res, out, netOk, hostVars, old, beating, faults>>
  BY DEF ServerFrees
<1>3. Only(p, session, session', Sessions) /\ session'[p] = "gone" /\ Only(p, upload, upload', Owner) /\ upload'[p] = None
  BY <1>1, Entry DEF ServerFrees, TypeOK, Sessions, Owner
<1>4. \A q \in Procs \ {p} : session[q] \notin {"active", "closing"}
  BY <1>1 DEF Inv, SessionInv
<1>5. ServerStep(p)
  BY <1>3, <1>4 DEF ServerStep, ServerFrees, Owner
<1>6. /\ Only(p, link, link', Link)
      /\ link'[p].st = link[p].st /\ link'[p].read = link[p].read
      /\ link'[p].msg <=> (link[p].st # "none" /\ link[p].read = "open")
  <2>. DEFINE x == link[p].st # "none" /\ link[p].read = "open"
  <2>1. link' = [link EXCEPT ![p].msg = x] /\ x \in BOOLEAN
    BY DEF ServerFrees
  <2>2. link \in [Procs -> Link]
    BY <1>1 DEF TypeOK, Link
  <2>. HIDE DEF x
  <2>3. /\ Only(p, link, link', Link)
        /\ link'[p].st = link[p].st /\ link'[p].read = link[p].read /\ link'[p].msg = x
    BY <2>1, <2>2 DEF Link, Only
  <2>. QED BY <2>3 DEF x
<1>7. ConsoleStep(p) /\ ~Connected(p)'
  BY <1>6 DEF ConsoleStep, Connected
<1>8. ControlStep(p) /\ HostStep(p)
  BY <1>1, <1>2, ControlStays, WorldStays DEF ControlStep
<1>9. TargetStep(p)
  BY <1>1, Resets DEF ServerFrees, Targets
<1>10. Remote(p)
  BY <1>1 DEF Own, SessionInv
<1>11. LinkInv(p)'
  BY <1>1, <1>2, <1>6, <1>10 DEF Own, LinkInv, Remote, Cmd
<1>12. SessionInv(p)'
  BY <1>1, <1>2, <1>3, <1>7, <1>10 DEF Own, SessionInv, Remote, Cmd
<1>13. ResultInv(p)'
  BY <1>1, <1>2, <1>3, <1>6 DEF Own, ResultInv, Running, Active
<1>14. StagingInv(p)'
  BY <1>1, <1>2 DEF Own, StagingInv, hostVars, Remote, Cmd
<1>15. TargetInv(p)'
  BY <1>7 DEF TargetInv
<1>. QED BY <1>5, <1>7, <1>8, <1>9, <1>11, <1>12, <1>13, <1>14, <1>15, StepKeeps DEF Own

LEMMA ButtonKeeps ==
  ASSUME Inv, NEW t \in Targets, UserReset(t)
  PROVE  Inv'
<1>1. PICK p \in Procs : pc[p] = "shell"
  BY DEF UserReset
<1>2. TypeOK /\ LeavesInv /\ Own(p)
  BY DEF Inv, Own
<1>3. UNCHANGED <<job, pc, res, out, netOk, hostVars, link, serverVars, beating, faults>>
  BY DEF UserReset
<1>4. ControlStep(p) /\ ConsoleStep(p) /\ ServerStep(p) /\ HostStep(p)
  BY <1>2, <1>3, ControlStays, WorldStays DEF ControlStep, serverVars
<1>5. TargetStep(p)
  BY <1>2, Resets DEF UserReset
<1>6. LinkInv(p)' /\ SessionInv(p)'
  BY <1>2, <1>3 DEF Own, LinkInv, SessionInv, Remote, Cmd, Connected, serverVars
<1>7. ResultInv(p)'
  BY <1>2, <1>3 DEF Own, ResultInv, Running, Active, serverVars
<1>8. StagingInv(p)'
  BY <1>2, <1>3 DEF Own, StagingInv, hostVars, Remote, Cmd
<1>9. TargetInv(p)'
  BY <1>1, <1>3 DEF TargetInv, Booting
<1>. QED BY <1>4, <1>5, <1>6, <1>7, <1>8, <1>9, StepKeeps DEF Own

\* A board loads what the boot command names: the file of the run that gave it.
LEMMA BoardKeeps ==
  ASSUME Inv, NEW t \in Targets, TargetBoots(t)
  PROVE  Inv'
<1>1. TypeOK /\ LeavesInv /\ PortsInv /\ \A p \in Procs : Own(p)
  BY DEF Inv, Own
<1>2. UNCHANGED <<job, pc, res, out, netOk, hostVars, link, serverVars, beating, faults>>
  BY DEF TargetBoots
<1>3. PICK got \in {None, FileAt(target[t].boot)} : target' = [target EXCEPT ![t].boot = None, ![t].kernel = got]
  BY DEF TargetBoots
<1>4. target[t].boot \in (Leaves \cup Owner) \ {None}
  BY <1>1 DEF TypeOK, TargetBoots
<1>5. got \in Owner
  BY <1>1, <1>3, <1>4 DEF FileAt, TypeOK, Owner
<1>6. /\ target' \in [Targets -> TargetState]
      /\ \A u \in Targets \ {t} : target'[u] = target[u]
      /\ target'[t].kernel = got /\ target'[t].boot = None /\ target'[t].image = target[t].image
  BY <1>1, <1>3, <1>5 DEF TypeOK, TargetState, Owner
<1>7. TypeOK'
  BY <1>1, <1>2, <1>6 DEF TypeOK, TargetState, hostVars, serverVars
<1>8. LeavesInv' /\ PortsInv'
  BY <1>1, <1>2 DEF LeavesInv, PortsInv, hostVars, Remote, Cmd
<1>9. ASSUME NEW p \in Procs PROVE Own(p)'
  <2>1. LinkInv(p)' /\ SessionInv(p)'
    BY <1>1, <1>2 DEF Own, LinkInv, SessionInv, Remote, Cmd, Connected, serverVars
  <2>2. ResultInv(p)'
    BY <1>1, <1>2 DEF Own, ResultInv, Running, Active, serverVars
  <2>3. StagingInv(p)'
    BY <1>1, <1>2 DEF Own, StagingInv, hostVars, Remote, Cmd
  <2>4. TargetInv(p)'
    <3>1. CASE job[p].port # t
      <4>1. target'[job[p].port] = target[job[p].port]
        BY <1>1, <1>6, <3>1, Plan
      <4>. QED BY <1>1, <1>2, <4>1
             DEF Own, TargetInv, Target, Connected, hostVars, serverVars, build_network_boot_request, bootfile
    <3>2. CASE job[p].port = t
      <4>. SUFFICES ASSUME Connected(p), pc[p] \in Booting PROVE got \in {None, p} /\ pc[p] # "boot"
        BY <1>2, <1>6, <3>2 DEF TargetInv, Target, Connected
      <4>1. pc[p] = "console" /\ target[t].boot = bootfile(p)
        BY <1>1, <1>4, <3>2 DEF Own, TargetInv, Target
      <4>2. CASE staged[p] # None
        <5>1. bootfile(p) \in Leaves /\ file[bootfile(p)] \in {None, p}
          BY <1>1, <4>2 DEF Own, StagingInv, TypeOK, bootfile
        <5>. QED BY <1>3, <4>1, <5>1 DEF FileAt
      <4>3. CASE staged[p] = None
        <5>1. bootfile(p) = p /\ p \notin Leaves
          BY <4>3, RunAssumption DEF bootfile
        <5>2. upload[p] \in {None, p}
          BY <1>1 DEF Own, SessionInv
        <5>. QED BY <1>3, <4>1, <5>1, <5>2 DEF FileAt
      <4>. QED BY <4>2, <4>3
    <3>. QED BY <3>1, <3>2
  <2>. QED BY <2>1, <2>2, <2>3, <2>4 DEF Own
<1>. QED BY <1>7, <1>8, <1>9 DEF Inv, Own

-----------------------------------------------------------------------------
LEMMA InitInv == Init => Inv
<1>. SUFFICES ASSUME Init PROVE Inv
  OBVIOUS
<1>1. Off \in TargetState
  BY DEF Off, TargetState, Owner
<1>2. NoLink \in Link /\ NoLink.st = "none" /\ ~NoLink.msg /\ NoLink.read = "open"
  BY DEF NoLink, Link
<1>3. TypeOK
  BY <1>1, <1>2 DEF Init, TypeOK, Owner, Results, Faults, Stages, Link, TargetState
<1>4. LeavesInv /\ PortsInv
  BY <1>2 DEF Init, LeavesInv, PortsInv
<1>5. ASSUME NEW p \in Procs PROVE Own(p)
  <2>1. LinkInv(p) /\ SessionInv(p)
    BY <1>2 DEF Init, LinkInv, SessionInv, Connecting, Booting, After, Ended, Connected
  <2>2. ResultInv(p)
    BY DEF Init, ResultInv
  <2>3. StagingInv(p)
    BY RunAssumption DEF Init, StagingInv
  <2>4. TargetInv(p)
    BY DEF Init, TargetInv, Booting
  <2>. QED BY <2>1, <2>2, <2>3, <2>4 DEF Own
<1>. QED BY <1>3, <1>4, <1>5 DEF Inv, Own

LEMMA StepInv ==
  ASSUME Inv, NEW p \in Procs, Step(p)
  PROVE  Inv'
<1>1. CASE Start(p) \/ Acquire(p) \/ Setup(p) \/ Attach(p)
  BY <1>1, StartKeeps, AcquireKeeps, SetupKeeps, AttachKeeps
<1>2. CASE local_resolve_runtime(p) \/ ensure_linux_tftpd_hpa(p) \/ remote_resolve_runtime(p) \/ prepare_dtb(p)
  BY <1>2, ResolveKeeps
<1>3. CASE local_open_console(p) \/ upload_http_boot_kernel(p) \/ connect_serial_stream(p)
  BY <1>3, LocalOpenKeeps, HttpUploadKeeps, RemoteOpenKeeps
<1>4. CASE after_console_open(p) \/ wait_for_shell(p) \/ set_env(p) \/ Load(p) \/ cmd_without_reply(p)
  BY <1>4, ResetKeeps, InterruptKeeps, EnvKeeps, LoadKeeps, BootKeeps
<1>5. CASE local_stage_fit_image(p) \/ remote_stage_fit_image(p) \/ claim_privileged_leaf(p) \/ CopyFit(p)
  BY <1>5, LocalStageKeeps, RemoteStageKeeps, ClaimKeeps, CopyKeeps
<1>6. CASE UbootConsole(p) \/ HttpBootConsole(p) \/ run_serial_terminal(p)
  BY <1>6, ConsoleKeeps
<1>7. CASE LinkWriter(p) \/ LinkReader(p) \/ finish_console(p) \/ after_run(p)
  BY <1>7, WriterKeeps, ReaderKeeps, FinishKeeps, AfterRunKeeps
<1>8. CASE StopHeartbeat(p) \/ delete_session(p) \/ Crash(p) \/ Heartbeat(p)
  BY <1>8, StopHeartbeatKeeps, DeleteKeeps, CrashKeeps, LeaseKeeps
<1>. QED BY <1>1, <1>2, <1>3, <1>4, <1>5, <1>6, <1>7, <1>8 DEF Step

LEMMA NextInv == Inv /\ [Next]_vars => Inv'
<1>1. ASSUME Inv, Next PROVE Inv'
  <2>1. CASE \E p \in Procs : Step(p) \/ LeaseAges(p) \/ ServerStops(p) \/ ServerFrees(p)
    BY <1>1, <2>1, StepInv, LeaseKeeps, FreesKeeps
  <2>2. CASE \E t \in Targets : UserReset(t) \/ TargetBoots(t)
    BY <1>1, <2>2, ButtonKeeps, BoardKeeps
  <2>. QED BY <1>1, <2>1, <2>2 DEF Next
<1>2. ASSUME Inv, UNCHANGED vars PROVE Inv'
  <2>1. TypeOK' /\ LeavesInv' /\ PortsInv'
    BY <1>2 DEF Inv, vars, TypeOK, LeavesInv, PortsInv, Remote, Cmd
  <2>2. ASSUME NEW p \in Procs PROVE Own(p)'
    <3>1. LinkInv(p)' /\ SessionInv(p)'
      BY <1>2 DEF Inv, vars, LinkInv, SessionInv, Remote, Cmd, Connected
    <3>2. ResultInv(p)' /\ StagingInv(p)'
      BY <1>2 DEF Inv, vars, ResultInv, StagingInv, Running, Active, Remote, Cmd
    <3>3. TargetInv(p)'
      BY <1>2 DEF Inv, vars, TargetInv, Target, Connected, bootfile, build_network_boot_request
    <3>. QED BY <3>1, <3>2, <3>3 DEF Own
  <2>. QED BY <2>1, <2>2 DEF Inv, Own
<1>. QED BY <1>1, <1>2

LEMMA InvHolds == Spec => []Inv
<1>. QED BY InitInv, NextInv, PTL DEF Spec

\* The console of a run shows no other run's image, however many runs share the TFTP
\* root, the ports and the server (claim_tftp_namespace_with, Runner::_run).
THEOREM BootsOwn == Spec => []BootsOwnImage
<1>1. Inv => BootsOwnImage
  BY DEF Inv, TargetInv, BootsOwnImage, Booting
<1>. QED BY <1>1, InvHolds, PTL

\* A command that returns Ok has seen no failure (select_runner_result,
\* SerialStreamTasks::shutdown_with_timeout, finalize_session).
THEOREM OkMeansOk == Spec => []OkIsEarned
<1>1. Inv => OkIsEarned
  BY DEF Inv, ResultInv, OkIsEarned
<1>. QED BY <1>1, InvHolds, PTL

\* What a command tells its user is about its own kernel and leaves no failure out.
THEOREM RunsAreHonest == Spec => []RunIsHonest
<1>. QED BY BootsOwn, OkMeansOk, PTL DEF RunIsHonest

\* A command that returns has closed its console, and tells of every directory and
\* session that it leaves behind (after_run, stage_linux_fit_image, BoardSession::release).
THEOREM NothingStays == Spec => []NothingLeftBehind
<1>1. Inv => NothingLeftBehind
  <2>. SUFFICES ASSUME Inv, NEW p \in Procs, pc[p] = "returned"
                PROVE  /\ link[p].st # "open"
                       /\ \A l \in Leaves : creator[l] = p /\ dir[l] = "there" => "staging" \in faults[p] /\ out[p] = "err"
                       /\ Active(p) => out[p] = "err"
    BY DEF NothingLeftBehind
  <2>1. TypeOK /\ Own(p)
    BY DEF Inv, Own
  <2>2. out[p] \in {"ok", "err"} /\ (out[p] = "ok" => faults[p] = {} /\ ~Active(p))
    BY <2>1 DEF Own, ResultInv, TypeOK, Results
  <2>3. link[p].st # "open"
    BY <2>1 DEF Own, LinkInv, After, Ended
  <2>4. staged[p] = None
    BY <2>1 DEF Own, StagingInv
  <2>5. ASSUME NEW l \in Leaves, creator[l] = p, dir[l] = "there" PROVE "staging" \in faults[p]
    BY <2>1, <2>4, <2>5, RunAssumption DEF Own, StagingInv
  <2>. QED BY <2>2, <2>3, <2>5
<1>. QED BY <1>1, InvHolds, PTL
=============================================================================
