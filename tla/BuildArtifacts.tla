--------------------------- MODULE BuildArtifacts ---------------------------
(***************************************************************************)
(* What ostool builds and what it hands to a runner: the Invocation with   *)
(* its OutputArtifacts, Cargo and custom builds, the ELF analysis, the BIN *)
(* and the FIT image.  A caller of the library runs several commands with  *)
(* one Invocation; the command line runs one and ends.                     *)
(*                                                                         *)
(* Every file holds the stamp of the ELF that it was made from; a build,   *)
(* or a command after it, that changes an ELF gives it a new stamp.        *)
(***************************************************************************)
EXTENDS Integers, Sequences, FiniteSets

CONSTANTS
  Targets,  \* the executables that Cargo or a custom command may build
  NoName,   \* no target, no path
  MaxStamps, \* bound: different contents of an ELF
  MaxCommands \* bound: commands one after the other

VARIABLES
  disk,       \* the stamp in every file, 0 if it is not there
  stamp,      \* the last stamp
  invocation, \* the paths in OutputArtifacts: cargo, elf, bin and the registered analysis
  command,    \* the command in progress, its options and its target
  stage,      \* how far the command is
  ready,      \* the target of the last preparation that worked
  commands,   \* commands so far
  analysed    \* the last analysis: target, kinds, stamp of the ELF, and how it ended

buildVars == <<disk, stamp, invocation, command, commands, stage, ready, analysed>>

Kinds == <<"disassembly", "elf-info", "symbols">>
Requests == {SubSeq(Kinds, 1, 2), SubSeq(Kinds, 3, 3)}
Elf(t) == <<"elf", t>>
RuntimeElf(t) == <<"runtime", t>>
Bin(t) == <<"bin", t>>
Fit == <<"fit", NoName>>
Analysis(t, kind) == <<kind, t>>
Paths == {Fit} \cup {<<k, t>> : k \in {"elf", "runtime", "bin", "disassembly", "elf-info", "symbols"}, t \in Targets}

ASSUME BuildAssumption == MaxStamps \in Nat /\ MaxCommands \in Nat /\ NoName \notin Targets \cup Paths

OutputArtifacts == [cargo |-> NoName, elf |-> NoName, bin |-> NoName, debug |-> {}]
NoAnalysis == [target |-> NoName, kinds |-> <<>>, stamp |-> 0, ok |-> TRUE]
NoCommand == [op |-> "none", system |-> "cargo", bin |-> NoName, test |-> NoName, kinds |-> <<>>,
              runner |-> "none", needsBin |-> FALSE, target |-> NoName, published |-> <<>>]

BuildInit ==
  /\ disk = [p \in Paths |-> 0] /\ stamp = 0
  /\ invocation = OutputArtifacts /\ command = NoCommand /\ stage = "idle"
  /\ ready = NoName /\ analysed = NoAnalysis /\ commands = 0

-----------------------------------------------------------------------------
Names == Targets \cup {NoName}

\* --bin and --test of the command line replace what the configuration says.
apply_cargo_selector(config, selector) ==
  IF selector.test # NoName THEN [bin |-> NoName, test |-> selector.test]
  ELSE IF selector.bin # NoName THEN [bin |-> selector.bin, test |-> NoName]
  ELSE config
Selections == {apply_cargo_selector(config, selector) : config, selector \in [bin : Names, test : Names]}

\* Of the executables that Cargo reports: the named one, the one with the name of the package,
\* the default, or the only one.
select_executable_artifact(reported, bin, test, package, defaultRun) ==
  LET explicit == IF bin # NoName THEN bin ELSE test
  IN IF explicit # NoName THEN IF explicit \in reported THEN explicit ELSE NoName
     ELSE IF package \in reported THEN package
     ELSE IF defaultRun \in reported THEN defaultRun
     ELSE IF Cardinality(reported) = 1 THEN CHOOSE t \in reported : TRUE
     ELSE NoName

\* With --bin Cargo builds that one, else every binary; a test comes with the binaries.
Reported(bin) == IF bin # NoName THEN {bin} ELSE Targets

Prepared(cargo, elf, bin) == [cargo |-> cargo, elf |-> elf, bin |-> bin, debug |-> {}]
Done == stage' = "idle" /\ command' = NoCommand

-----------------------------------------------------------------------------
(***************************************************************************)
(* The commands.                                                           *)
(***************************************************************************)
\* build_with_config, cargo_build and prepare_with_config.  The other options of a command are
\* chosen where it first uses them.
BeginBuild ==
  /\ stage = "idle" /\ commands < MaxCommands /\ commands' = commands + 1
  /\ \E op \in {"build", "cargo_build", "prepare"}, system \in {"cargo", "custom"}, final \in Selections :
       /\ op = "cargo_build" => system = "cargo"
       /\ system = "custom" => final.bin # NoName /\ final.test = NoName
       /\ command' = [NoCommand EXCEPT !.op = op, !.system = system, !.bin = final.bin, !.test = final.test,
                                       !.target = IF system = "custom" THEN final.bin ELSE NoName]
  /\ stage' = "build" /\ invocation' = [invocation EXCEPT !.debug = {}] /\ ready' = NoName
  /\ UNCHANGED <<disk, stamp, analysed>>

\* Pre-build commands, then Cargo, which leaves an executable that is up to date alone.
RunCargo ==
  /\ stage = "build" /\ command.system = "cargo"
  /\ ~(command.bin # NoName /\ command.test # NoName)
  /\ \E package, defaultRun \in Names, rebuilt \in SUBSET Reported(command.bin) :
       /\ \A t \in Reported(command.bin) \ rebuilt : disk[Elf(t)] # 0
       /\ rebuilt # {} => stamp < MaxStamps
       /\ LET target == select_executable_artifact(Reported(command.bin), command.bin, command.test, package, defaultRun)
          IN target # NoName /\ command' = [command EXCEPT !.target = target]
       /\ stamp' = IF rebuilt = {} THEN stamp ELSE stamp + 1
       /\ disk' = [p \in Paths |-> IF \E t \in rebuilt : p = Elf(t) THEN stamp + 1 ELSE disk[p]]
  /\ stage' = "apply" /\ UNCHANGED <<commands, invocation, ready, analysed>>

\* Mutant: the BIN of an earlier preparation stays registered.
Mutant_keep_bin ==
  /\ stage = "apply" /\ command.system = "cargo"
  /\ LET t == command.target
     IN \/ /\ command.op # "prepare" /\ disk' = [disk EXCEPT ![Bin(t)] = disk[Elf(t)]]
           /\ invocation' = Prepared(Elf(t), Elf(t), Bin(t))
        \/ UNCHANGED disk /\ invocation' = Prepared(Elf(t), Elf(t), invocation.bin)
  /\ stage' = "post" /\ UNCHANGED <<commands, stamp, command, ready, analysed>>

\* apply_cargo_build_outcome: with to_bin a BIN now, unless a runner will ask for one.
ApplyOutcome ==
  /\ stage = "apply" /\ command.system = "cargo"
  /\ LET t == command.target
     IN \/ /\ command.op # "prepare" /\ disk' = [disk EXCEPT ![Bin(t)] = disk[Elf(t)]]
           /\ invocation' = Prepared(Elf(t), Elf(t), Bin(t))
        \/ UNCHANGED disk /\ invocation' = Prepared(Elf(t), Elf(t), NoName)
  /\ stage' = "post" /\ UNCHANGED <<commands, stamp, command, ready, analysed>>

\* Post-build commands get the path of the ELF and may change it.
PostBuild ==
  /\ stage = "post"
  /\ \/ UNCHANGED <<disk, stamp>>
     \/ /\ stamp < MaxStamps /\ stamp' = stamp + 1
        /\ disk' = [disk EXCEPT ![Elf(command.target)] = stamp + 1]
  /\ IF command.op = "cargo_build" THEN Done ELSE stage' = "analyse" /\ UNCHANGED command
  /\ UNCHANGED <<commands, invocation, ready, analysed>>

RunCustom ==
  /\ stage = "build" /\ command.system = "custom"
  /\ \/ disk[Elf(command.target)] # 0 /\ UNCHANGED <<disk, stamp>>
     \/ /\ stamp < MaxStamps /\ stamp' = stamp + 1
        /\ disk' = [disk EXCEPT ![Elf(command.target)] = stamp + 1]
  /\ stage' = IF command.op = "prepare" THEN "apply" ELSE "analyse"
  /\ UNCHANGED <<commands, invocation, command, ready, analysed>>

\* prepare_elf_artifact: a stripped copy of the ELF, and the BIN of the copy.
PrepareElf ==
  /\ stage = "apply" /\ command.system = "custom"
  /\ \E toBin \in BOOLEAN :
       LET t == command.target
           copied == [disk EXCEPT ![RuntimeElf(t)] = disk[Elf(t)]]
       IN /\ disk' = IF toBin THEN [copied EXCEPT ![Bin(t)] = copied[RuntimeElf(t)]] ELSE copied
          /\ invocation' = Prepared(NoName, RuntimeElf(t), IF toBin THEN Bin(t) ELSE NoName)
  /\ stage' = "analyse" /\ UNCHANGED <<commands, stamp, command, ready, analysed>>

\* prepare_runtime_artifact, after the caller changed the ELF of an earlier build in place.
PrepareRuntimeArtifact(t) ==
  /\ stage = "idle" /\ commands < MaxCommands /\ commands' = commands + 1 /\ disk[Elf(t)] # 0
  /\ \E toBin, strip, cargo \in BOOLEAN :
       LET elf == IF strip THEN RuntimeElf(t) ELSE Elf(t)
           copied == [disk EXCEPT ![elf] = disk[Elf(t)]]
       IN /\ disk' = IF toBin THEN [copied EXCEPT ![Bin(t)] = copied[elf]] ELSE copied
          /\ invocation' = Prepared(IF cargo THEN Elf(t) ELSE NoName, elf, IF toBin THEN Bin(t) ELSE NoName)
  /\ ready' = t /\ UNCHANGED <<stamp, command, stage, analysed>>

CallerChangesElf(t) ==
  /\ stage = "idle" /\ disk[Elf(t)] # 0 /\ stamp < MaxStamps
  /\ stamp' = stamp + 1 /\ disk' = [disk EXCEPT ![Elf(t)] = stamp + 1] /\ ready' = NoName
  /\ UNCHANGED <<commands, invocation, command, stage, analysed>>

-----------------------------------------------------------------------------
(***************************************************************************)
(* generate_build_analysis.  Everything is staged first, then each output  *)
(* takes the place of the last one.                                        *)
(***************************************************************************)
\* run_qemu or run_uboot, with or without a BIN.
Runs == \E runner \in {"qemu", "uboot"}, needsBin \in BOOLEAN :
          command' = [command EXCEPT !.kinds = <<>>, !.published = <<>>, !.runner = runner, !.needsBin = needsBin]

Finished == IF command.op = "prepare" THEN ready' = command.target /\ (Done \/ (stage' = "ensure" /\ Runs))
            ELSE ready' = NoName /\ Done

NothingToAnalyse ==
  /\ stage = "analyse" /\ Finished
  /\ UNCHANGED <<commands, disk, stamp, invocation, analysed>>

StageOutputs ==
  /\ stage = "analyse" /\ stage' = "publish"
  /\ \E kinds \in Requests : command' = [command EXCEPT !.kinds = kinds]
  /\ UNCHANGED <<commands, disk, stamp, invocation, ready, analysed>>

Publish ==
  /\ stage = "publish" /\ Len(command.published) < Len(command.kinds)
  /\ LET kind == command.kinds[Len(command.published) + 1]
     IN /\ disk' = [disk EXCEPT ![Analysis(command.target, kind)] = disk[Elf(command.target)]]
        /\ command' = [command EXCEPT !.published = Append(@, kind)]
  /\ UNCHANGED <<commands, stamp, invocation, stage, ready, analysed>>

\* The registry of the invocation is replaced when all are there.
Register ==
  /\ stage = "publish" /\ command.published = command.kinds
  /\ invocation' = [invocation EXCEPT !.debug = {Analysis(command.target, command.kinds[i]) : i \in 1..Len(command.kinds)}]
  /\ analysed' = [target |-> command.target, kinds |-> command.kinds, stamp |-> disk[Elf(command.target)], ok |-> TRUE]
  /\ Finished /\ UNCHANGED <<commands, disk, stamp>>

\* A tool or a write fails: what was published, and what an earlier run left, is removed.
DiscardOutputs ==
  /\ stage = "publish"
  /\ disk' = [p \in Paths |-> IF \E i \in 1..Len(command.kinds) : p = Analysis(command.target, command.kinds[i]) THEN 0 ELSE disk[p]]
  /\ analysed' = [target |-> command.target, kinds |-> command.kinds, stamp |-> 0, ok |-> FALSE]
  /\ Done /\ UNCHANGED <<commands, stamp, invocation, ready>>

-----------------------------------------------------------------------------
(***************************************************************************)
(* The runners.                                                            *)
(***************************************************************************)
\* run_qemu and run_uboot of what was prepared before.
BeginRun ==
  /\ stage = "idle" /\ commands < MaxCommands /\ commands' = commands + 1
  /\ Runs
  /\ stage' = "ensure" /\ UNCHANGED <<disk, stamp, invocation, ready, analysed>>

\* ensure_runtime_bin: U-Boot always, QEMU with uefi or to_bin; a BIN that is registered is kept.
EnsureBin ==
  /\ stage = "ensure" /\ invocation.elf # NoName
  /\ IF (command.needsBin \/ command.runner = "uboot") /\ invocation.bin = NoName
     THEN LET bin == Bin(invocation.elf[2])
          IN disk' = [disk EXCEPT ![bin] = disk[invocation.elf]] /\ invocation' = [invocation EXCEPT !.bin = bin]
     ELSE UNCHANGED <<disk, invocation>>
  /\ stage' = IF command.runner = "uboot" THEN "fit" ELSE "running"
  /\ UNCHANGED <<commands, stamp, command, ready, analysed>>

\* generate_fit_image of the BIN.
WriteFit ==
  /\ stage = "fit" /\ disk' = [disk EXCEPT ![Fit] = disk[invocation.bin]]
  /\ stage' = "running" /\ UNCHANGED <<commands, stamp, invocation, command, ready, analysed>>

RunEnds ==
  /\ stage = "running" /\ Done /\ UNCHANGED <<commands, disk, stamp, invocation, ready, analysed>>

\* Any other step fails: the selection, a command, Cargo, llvm-objcopy, the DTB of the FIT image.
StepFails ==
  /\ stage \in {"build", "apply", "post", "ensure", "fit"} /\ Done
  /\ UNCHANGED <<commands, disk, stamp, invocation, ready, analysed>>

\* The program ends or is killed; the next one starts with nothing registered.
NewInvocation ==
  /\ stage # "idle" \/ invocation # OutputArtifacts
  /\ invocation' = OutputArtifacts /\ command' = NoCommand /\ stage' = "idle" /\ ready' = NoName /\ analysed' = NoAnalysis
  /\ UNCHANGED <<commands, disk, stamp>>

BuildNext ==
  \/ BeginBuild \/ RunCargo \/ ApplyOutcome \/ PostBuild \/ RunCustom \/ PrepareElf
  \/ \E t \in Targets : PrepareRuntimeArtifact(t) \/ CallerChangesElf(t)
  \/ NothingToAnalyse \/ StageOutputs \/ Publish \/ Register \/ DiscardOutputs
  \/ BeginRun \/ EnsureBin \/ WriteFit \/ RunEnds \/ StepFails \/ NewInvocation

BuildSpec == BuildInit /\ [][BuildNext]_buildVars

-----------------------------------------------------------------------------
Image == IF command.runner = "uboot" THEN Fit
         ELSE IF invocation.bin # NoName THEN invocation.bin ELSE invocation.elf

\* What a runner gets after a preparation that worked is made from the ELF as it is now, after the
\* post-build commands and the changes of the caller, and is of the target that was asked for.
RunsWhatWasPrepared ==
  stage = "running" /\ ready # NoName =>
    /\ disk[Image] # 0 /\ disk[Image] = disk[Elf(ready)]
    /\ invocation.elf[2] = ready
    /\ command.needsBin \/ command.runner = "uboot" => invocation.bin = Bin(ready)
    /\ command.bin # NoName => ready = command.bin
    /\ command.test # NoName => ready = command.test

\* The registry names all outputs of the last analysis and nothing else, each there and made from
\* the ELF that was analysed.  After a failure none of the requested outputs is left.
AnalysisIsWhole ==
  /\ invocation.debug # {} =>
       /\ analysed.ok /\ invocation.debug = {Analysis(analysed.target, analysed.kinds[i]) : i \in 1..Len(analysed.kinds)}
       /\ \A p \in invocation.debug : disk[p] = analysed.stamp
  /\ stage = "idle" /\ ~analysed.ok =>
       \A i \in 1..Len(analysed.kinds) : disk[Analysis(analysed.target, analysed.kinds[i])] = 0

\* Derived files are those of the ELF: the image a runner starts and the outputs of an analysis
\* (prepare_elf_artifact, run_analysis).
OutputsAreCurrent == RunsWhatWasPrepared /\ AnalysisIsWhole
=============================================================================
