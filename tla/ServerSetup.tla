---------------------------- MODULE ServerSetup ----------------------------
(***************************************************************************)
(* The settings of ostool-server and its TFTP provider: how they are       *)
(* loaded, how the admin changes them while the server runs, and what the  *)
(* server that listens on UDP port 69 hands out.  The settings are in      *)
(* memory, in their file, in the manager that stores the files of the      *)
(* sessions, and in the file of the tftpd-hpa daemon; a request changes    *)
(* them one after the other, nothing keeps two requests apart, and one     *)
(* whose client goes away is dropped where it waits.                       *)
(***************************************************************************)
EXTENDS Integers

CONSTANTS
  Admins,      \* requests of the admin page, one at a time each
  Roots,       \* directories
  DefaultRoot, \* DEFAULT_SYSTEM_TFTP_ROOT
  Proposals,   \* settings of the provider that are asked for
  Limits,      \* the other settings: upload_limits, network
  Nothing, Broken,
  MaxUpdates,  \* bound: requests
  MaxFailures  \* bound: failed file operations and commands, clients that go away, and crashes

Settings == [provider : {"builtin", "system"}, enabled : BOOLEAN, manage : BOOLEAN, root : Roots]
Config == [tftp : Settings, limits : Limits]

ASSUME ServerSetupAssumption ==
  /\ DefaultRoot \in Roots /\ Proposals \subseteq Settings /\ Proposals # {} /\ Limits # {}
  /\ Nothing \notin Roots \cup Settings \cup Config /\ Broken \notin Config
  /\ MaxUpdates \in Nat /\ MaxFailures \in Nat

VARIABLES
  server,    \* "down", or where main is: "bind", "start", "reconcile", "serve"
  memory,    \* AppState::config
  saved,     \* the configuration file; Broken after a write that has only begun
  manager,   \* AppState::tftp_manager, by its settings
  hpa,       \* TFTP_DIRECTORY in the file of the daemon
  port,      \* who has UDP port 69, and the root it hands out
  update,   \* of an admin: where it is, the settings asked for, what it is about to save
  updates, failures,
  torn,      \* history: since the start a save failed, or a request started beside another
  parted,    \* history: a request was dropped with its work half done, and no update of TFTP was answered since
  strayed    \* history: the port and the provider have come apart, see below

setupVars == <<server, memory, saved, manager, hpa, port, update, updates, failures, torn, parted, strayed>>
faultVars == <<updates, failures>>
historyVars == <<torn, parted, strayed>>

Idle == [at |-> "idle", tftp |-> Nothing, copy |-> Nothing]
Free == [by |-> "nobody", root |-> Nothing]

Fails == failures < MaxFailures /\ failures' = failures + 1
Move(a, at) == update' = [update EXCEPT ![a].at = at]
Answer(a) == update' = [update EXCEPT ![a] = Idle]

SetupInit ==
  /\ server = "down" /\ memory = Nothing /\ saved = Nothing /\ manager = Nothing
  /\ hpa \in {Nothing, DefaultRoot} /\ port = IF hpa = Nothing THEN Free ELSE [by |-> "daemon", root |-> hpa]
  /\ update = [a \in Admins |-> Idle] /\ updates = 0 /\ failures = 0
  /\ torn = FALSE /\ parted = FALSE /\ strayed = FALSE

-----------------------------------------------------------------------------
(***************************************************************************)
(* load_or_create and main                                                 *)
(***************************************************************************)
\* parse_tftpd_hpa_file: what the file of the daemon says, and the default where it or its line is missing.
DaemonRoot == IF hpa = Nothing THEN DefaultRoot ELSE hpa

\* sync_system_tftpd_hpa_config: the daemon says what the root is.
Synced(c) == IF c.tftp.provider = "builtin" THEN c ELSE [c EXCEPT !.tftp.root = DaemonRoot]

Default == [tftp |-> [provider |-> "system", enabled |-> TRUE, manage |-> FALSE, root |-> DefaultRoot],
            limits |-> CHOOSE l \in Limits : TRUE]

\* normalize_paths and validate: a file that cannot be parsed, or is not valid, ends the program.
Loadable == saved # Broken

Load ==
  /\ server = "down" /\ Loadable
  /\ memory' = Synced(IF saved = Nothing THEN Default ELSE saved)
  /\ saved' = IF saved = Nothing THEN memory' ELSE saved
  /\ server' = "bind" /\ torn' = FALSE /\ parted' = FALSE
  /\ UNCHANGED <<manager, hpa, port, update, faultVars, strayed>>

Quit ==
  /\ server' = "down" /\ memory' = Nothing /\ manager' = Nothing
  /\ update' = [a \in Admins |-> Idle]
  /\ port' = IF port.by = "builtin" THEN Free ELSE port

\* Both listeners are bound before the boards, their stores and TFTP are touched.
Binds ==
  /\ server = "bind"
  /\ server' = "start" /\ manager' = memory.tftp
  /\ UNCHANGED <<memory, saved, hpa, port, update, faultVars, historyVars>>

\* BuiltinTftpManager::start_if_needed: the server binds in a task of its own, who asked does not learn how it went.
\* Once bound it listens until the program ends, also when another provider is chosen.
Drifts(s) == strayed' = (strayed \/ s.root # port.root)

Listen(s) ==
  IF s.provider = "builtin" /\ s.enabled
  THEN \/ /\ port.by = "nobody" /\ port' = [by |-> "builtin", root |-> s.root] /\ UNCHANGED <<failures, strayed>>
       \/ /\ port.by # "nobody" /\ strayed' = TRUE /\ UNCHANGED <<port, failures>>
       \/ /\ Fails /\ strayed' = TRUE /\ UNCHANGED port
  ELSE UNCHANGED <<port, failures, strayed>>

\* The system provider is reconciled, unless reconcile_on_start is off.
StartsProvider ==
  /\ server = "start"
  /\ \/ manager.provider = "builtin" /\ server' = "serve" /\ Listen(manager)
     \/ manager.provider = "system" /\ server' = "reconcile" /\ UNCHANGED <<port, failures, strayed>>
     \/ manager.provider = "system" /\ server' = "serve" /\ Drifts(manager) /\ UNCHANGED <<port, failures>>
  /\ UNCHANGED <<memory, saved, manager, hpa, update, updates, torn, parted>>

-----------------------------------------------------------------------------
(***************************************************************************)
(* SystemTftpdHpaManager::reconcile, for main or for a request             *)
(***************************************************************************)
\* The daemon cannot listen while the builtin server still does; ss sees that somebody listens.
Restarted(root) ==
  IF port.by = "builtin" THEN UNCHANGED port /\ strayed' = TRUE
  ELSE port' = [by |-> "daemon", root |-> root] /\ strayed' = FALSE

\* The file is written and the daemon restarted.
Reconciles(s) ==
  IF s.enabled /\ s.manage THEN hpa' = s.root /\ Restarted(s.root)
  ELSE Drifts(s) /\ UNCHANGED <<hpa, port>>

\* The file cannot be written, or it is and the daemon does not come up or does not listen.
ReconcileFails(s) ==
  /\ s.enabled /\ Fails
  /\ \/ UNCHANGED <<hpa, port, strayed>>
     \/ /\ s.manage /\ hpa' = s.root /\ strayed' = TRUE
        /\ port' = IF port.by = "daemon" THEN Free ELSE port

StartReconciles ==
  /\ server = "reconcile" /\ server' = "serve"
  /\ Reconciles(manager)
  /\ UNCHANGED <<memory, saved, manager, update, faultVars, torn, parted>>

StartFails ==
  /\ server = "reconcile" /\ ReconcileFails(manager)
  /\ server' = "down" /\ memory' = Nothing /\ manager' = Nothing
  /\ UNCHANGED <<saved, update, updates, torn, parted>>

\* shutdown_signal: SIGTERM or Ctrl-C, whatever the program is doing; a kill that it does not notice comes to the same.
Interrupted == server # "down" /\ Fails

Stops ==
  /\ Interrupted
  /\ Quit
  /\ UNCHANGED <<saved, hpa, updates, historyVars>>

-----------------------------------------------------------------------------
(***************************************************************************)
(* The requests of the admin                                               *)
(***************************************************************************)
Busy(a) == \E b \in Admins \ {a} : update[b].at # "idle"
Begins(a) ==
  /\ server = "serve" /\ update[a].at = "idle" /\ updates < MaxUpdates /\ updates' = updates + 1
  /\ torn' = (torn \/ Busy(a)) /\ UNCHANGED parted

\* update_tftp_config: a new manager is made and started beside the one in use.
UpdateTftp(a, s) ==
  /\ Begins(a)
  /\ Listen(s)
  /\ update' = [update EXCEPT ![a] = [at |-> IF s.provider = "system" THEN "reconcile" ELSE "commit",
                                       tftp |-> s, copy |-> Nothing]]
  /\ UNCHANGED <<server, memory, saved, manager, hpa>>

UpdateReconciles(a) ==
  /\ update[a].at = "reconcile"
  /\ Reconciles(update[a].tftp) /\ Move(a, "commit")
  /\ UNCHANGED <<server, memory, saved, manager, faultVars, torn, parted>>

\* What fails leaves the settings as they are.
UpdateFails(a) ==
  /\ update[a].at = "reconcile"
  /\ ReconcileFails(update[a].tftp) /\ Answer(a)
  /\ UNCHANGED <<server, memory, saved, manager, updates, torn, parted>>

Commits(a) ==
  /\ update[a].at = "commit"
  /\ memory' = [memory EXCEPT !.tftp = update[a].tftp] /\ Move(a, "copy")
  /\ UNCHANGED <<server, saved, manager, hpa, port, faultVars, historyVars>>

\* update_server_config
UpdateServer(a, l) ==
  /\ Begins(a)
  /\ memory' = [memory EXCEPT !.limits = l] /\ Move(a, "copy")
  /\ UNCHANGED <<server, saved, manager, hpa, port, failures, strayed>>

\* save_config: a copy of the settings is written, not under their lock.
Copies(a) ==
  /\ update[a].at = "copy"
  /\ update' = [update EXCEPT ![a].at = "open", ![a].copy = memory]
  /\ UNCHANGED <<server, memory, saved, manager, hpa, port, faultVars, historyVars>>

Truncates(a) ==
  /\ update[a].at = "open"
  /\ saved' = Broken /\ Move(a, "write")
  /\ UNCHANGED <<server, memory, manager, hpa, port, faultVars, historyVars>>

\* What is written over what another request has written since the file was emptied may leave the end of that.
FileAfter(a) == {update[a].copy} \cup IF saved = Broken THEN {} ELSE {Broken}

\* Mutant: the manager in use stays the one of the old settings.
Mutant_KeepsManager(a) ==
  /\ update[a].at = "write"
  /\ saved' \in FileAfter(a) /\ Answer(a)
  /\ UNCHANGED <<server, memory, manager, hpa, port, faultVars, historyVars>>

Writes(a) ==
  /\ update[a].at = "write"
  /\ saved' \in FileAfter(a)
  /\ IF update[a].tftp = Nothing THEN Answer(a) ELSE Move(a, "swap")
  /\ UNCHANGED <<server, memory, manager, hpa, port, faultVars, historyVars>>

SaveFails(a) ==
  /\ update[a].at \in {"open", "write"}
  /\ Fails /\ torn' = TRUE /\ Answer(a)
  /\ UNCHANGED <<server, memory, saved, manager, hpa, port, updates, parted, strayed>>

Swaps(a) ==
  /\ update[a].at = "swap"
  /\ manager' = update[a].tftp /\ Answer(a) /\ parted' = FALSE
  /\ UNCHANGED <<server, memory, saved, hpa, port, faultVars, torn, strayed>>

\* The client goes away and the handler is dropped where it waits for a lock or for the write.  The write itself goes
\* on to its end in the pool of tokio::fs, with nobody who makes the new manager the one in use.
ClientLeaves(a) ==
  /\ Fails /\ parted' = TRUE
  /\ \/ update[a].at \in {"commit", "copy", "swap"} /\ Answer(a)
     \/ /\ update[a].at \in {"open", "write"} /\ update[a].tftp # Nothing
        /\ update' = [update EXCEPT ![a].tftp = Nothing]
  /\ UNCHANGED <<server, memory, saved, manager, hpa, port, updates, torn, strayed>>

\* reconcile_tftp: the manager in use is reconciled; the builtin one has been started.
AdminReconciles(a) ==
  /\ Begins(a)
  /\ \/ manager.provider = "system" /\ Reconciles(manager) /\ UNCHANGED failures
     \/ manager.provider = "system" /\ ReconcileFails(manager)
     \/ manager.provider = "builtin" /\ UNCHANGED <<hpa, port, failures, strayed>>
  /\ UNCHANGED <<server, memory, saved, manager, update>>

SetupNext ==
  \/ Load \/ Binds \/ StartsProvider \/ StartReconciles \/ StartFails \/ Stops
  \/ \E a \in Admins :
       \/ \E s \in Proposals : UpdateTftp(a, s)
       \/ UpdateReconciles(a) \/ UpdateFails(a) \/ Commits(a)
       \/ \E l \in Limits : UpdateServer(a, l)
       \/ Copies(a) \/ Truncates(a) \/ Writes(a) \/ SaveFails(a) \/ Swaps(a) \/ ClientLeaves(a)
       \/ AdminReconciles(a)

SetupSpec == SetupInit /\ [][SetupNext]_setupVars

-----------------------------------------------------------------------------
Stages == {"idle", "reconcile", "commit", "copy", "open", "write", "swap"}

SetupTypeOK ==
  /\ server \in {"down", "bind", "start", "reconcile", "serve"}
  /\ memory \in Config \cup {Nothing} /\ saved \in Config \cup {Nothing, Broken}
  /\ manager \in Settings \cup {Nothing} /\ hpa \in Roots \cup {Nothing}
  /\ port \in [by : {"nobody", "builtin", "daemon"}, root : Roots \cup {Nothing}]
  /\ update \in [Admins -> [at : Stages, tftp : Settings \cup {Nothing}, copy : Config \cup {Nothing}]]
  /\ updates \in 0..MaxUpdates /\ failures \in 0..MaxFailures /\ torn \in BOOLEAN
  /\ parted \in BOOLEAN /\ strayed \in BOOLEAN

Quiet == server = "serve" /\ \A a \in Admins : update[a].at \in {"idle", "reconcile", "commit"}

\* The settings that differ at most in the root of the daemon, which the file does not decide.
SameSettings(c, d) ==
  /\ c.limits = d.limits
  /\ \/ c.tftp = d.tftp
     \/ c.tftp.provider = "system" /\ [c.tftp EXCEPT !.root = d.tftp.root] = d.tftp

\* What was answered is in force and survives a restart.  A save that failed and a request that came beside another
\* part them until the next start, a request that was dropped until an update of TFTP made alone is answered.
SettingsAgree ==
  Quiet /\ ~torn /\ ~parted => manager = memory.tftp /\ saved \in Config /\ SameSettings(saved, memory)

\* The file is whole but in the middle of a write, whoever went away, unless a write failed, two requests wrote at a
\* time or the server died in it.
FileIsWhole == server # "down" /\ ~torn /\ saved = Broken => \E a \in Admins : update[a].at = "write"

\* The files of the sessions are where TFTP clients look for them, unless a reconciliation failed, the port
\* was not to be had, the builtin server of earlier settings has kept it, or the above.
FilesAreServed ==
  Quiet /\ ~torn /\ ~parted /\ ~strayed /\ manager.enabled /\ (\A a \in Admins : update[a].at = "idle") =>
    port.root = manager.root

\* config.rs, tftp/service.rs and the handlers of the settings: memory, file, provider and port agree.
SetupInv == SetupTypeOK /\ SettingsAgree /\ FileIsWhole /\ FilesAreServed
=============================================================================
