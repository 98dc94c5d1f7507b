--------------------------- MODULE MCHostCommands ---------------------------
(***************************************************************************)
(* The commands of ostool that need no server, and the login that the      *)
(* others need, each for itself: `running` says which of them a behaviour  *)
(* is about, the state of the others stays as it is.                       *)
(***************************************************************************)
EXTENDS MCConfigEditor, Login, BuildArtifacts, QemuBoot, FitLayout

VARIABLE running

Commands == {"editor", "login", "build", "qemu", "fit"}

HostInit ==
  /\ running \in Commands
  /\ Init /\ LoginInit /\ BuildInit /\ QemuInit /\ FitInit
  /\ running # "editor" => file = None
  /\ running # "login" => keyring /\ stored = NoLogin /\ process = [t \in Tasks |-> CHOOSE p \in Processes : TRUE]
  /\ Cardinality(configs) <= IF running = "qemu" THEN 1 ELSE 0

HostNext ==
  \/ running = "editor" /\ Next /\ UNCHANGED <<running, loginVars, buildVars, qemuVars, fitVars>>
  \/ running = "login" /\ LoginNext /\ UNCHANGED <<running, vars, buildVars, qemuVars, fitVars>>
  \/ running = "build" /\ BuildNext /\ UNCHANGED <<running, vars, loginVars, qemuVars, fitVars>>
  \/ running = "qemu" /\ QemuNext /\ UNCHANGED <<running, vars, loginVars, buildVars, fitVars>>
  \/ running = "fit" /\ FitNext /\ UNCHANGED <<running, vars, loginVars, buildVars, qemuVars>>

HostSpec == HostInit /\ [][HostNext]_<<running, vars, loginVars, buildVars, qemuVars, fitVars>>

HostSymmetry == Permutations(Tasks) \cup Permutations(Processes) \cup Permutations(Targets)

MCMirrors == <<"gitee", "github">>

Seg(va, pa, off, fsz) == [va |-> va, pa |-> pa, off |-> off, fsz |-> fsz, msz |-> 2]
MCSegments == {Seg(0, 1, 0, 2), Seg(3, 3, 2, 2), Seg(3, 4, 2, 2), Seg(3, 1, 2, 0), Seg(2, 6, 1, 2)}
Sect(va, off, size) == [va |-> va, off |-> off, size |-> size]
MCSections == {Sect(0, 0, 1), Sect(1, 1, 1), Sect(3, 2, 2), Sect(3, 0, 1)}

\* Up to two segments and two sections, in a file whose last byte is the last byte of a segment.
MCElfs ==
  [arch : {"loongarch", "x86"}, entry : {s.va : s \in MCSections}, start : {Derived, 0},
   segments : {{g, h} : g, h \in MCSegments}, sections : {{s, t} : s, t \in MCSections}, size : {TopAddress - 2}]

Header(mz, whole, entry, load) == [mz |-> mz, whole |-> whole, entry |-> entry, load |-> load]
MCHeaders == {Header(FALSE, TRUE, 0, 0), Header(TRUE, FALSE, 0, 0), Header(TRUE, TRUE, 1, 2), Header(TRUE, TRUE, 3, 2)}
=============================================================================
