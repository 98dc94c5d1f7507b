--------------------------- MODULE MCServerParts ---------------------------
(***************************************************************************)
(* Parts of the server that share no state, each for itself: `part` says   *)
(* which of them a behaviour is about, the state of the others stays as it *)
(* is.                                                                     *)
(***************************************************************************)
EXTENDS BootHandoff, SerialHub, ServerSetup, VirtualLab, SerialIdentity, SessionFiles,
        NetworkTest, SerialConsole

VARIABLE part

Parts == {"handoff", "hub", "setup", "lab", "identity", "files", "network test", "console"}

-----------------------------------------------------------------------------
\* ServerSetup: settings that are asked for, one of each provider and one of a daemon that others look after.
SettingsAskedFor ==
  {[provider |-> "builtin", enabled |-> TRUE, manage |-> FALSE, root |-> "r1"],
   [provider |-> "system", enabled |-> TRUE, manage |-> TRUE, root |-> "r1"],
   [provider |-> "system", enabled |-> TRUE, manage |-> FALSE, root |-> "r1"]}

\* SerialIdentity: two adapters with the same number, which one of them may not tell.
ByNumber == [kind |-> "number", value |-> "n1"]
ByPath == [kind |-> "path", value |-> "s1"]
ById == [kind |-> "id", value |-> "n1"]
KeysInUse == {ByNumber, ByPath, ById}

Alike == [d \in Devices |-> "n1"]
TwoFleets ==
  {[number |-> Alike, told |-> [d \in Devices |-> TRUE]],
   [number |-> Alike, told |-> [d \in Devices |-> d = "d1"]]}

\* Two consoles, or a console and a relay.
TwoWishes ==
  {[c1 |-> ByNumber, c2 |-> ById, r |-> Absent],
   [c1 |-> ById, c2 |-> Absent, r |-> ByPath]}

\* SessionFiles
LengthOf == [data \in Contents |-> IF data = "long" THEN 2 ELSE 1]

-----------------------------------------------------------------------------
\* The parts a behaviour is not about start in one way.
StartsInOneWay ==
  /\ part # "setup" => hpa = Nothing
  /\ part # "identity" =>
       /\ [number |-> number, told |-> told] = CHOOSE fleet \in Fleets : TRUE
       /\ user = [u \in Users |-> Resting((CHOOSE wish \in Wishes : TRUE)[u])]

PartsInit ==
  /\ part \in Parts /\ Init /\ HubInit /\ SetupInit /\ LabInit /\ IdInit /\ FilesInit /\ NetInit /\ LinkInit
  /\ StartsInOneWay

\* Every part but one keeps its state.
OthersStay(p) ==
  /\ UNCHANGED part
  /\ p # "handoff" => UNCHANGED vars
  /\ p # "hub" => UNCHANGED hubVars
  /\ p # "setup" => UNCHANGED setupVars
  /\ p # "lab" => UNCHANGED labVars
  /\ p # "identity" => UNCHANGED idVars
  /\ p # "files" => UNCHANGED fileVars
  /\ p # "network test" => UNCHANGED testVars
  /\ p # "console" => UNCHANGED linkVars

PartsNext ==
  \/ part = "handoff" /\ Next /\ OthersStay("handoff")
  \/ part = "hub" /\ HubNext /\ OthersStay("hub")
  \/ part = "setup" /\ SetupNext /\ OthersStay("setup")
  \/ part = "lab" /\ LabNext /\ OthersStay("lab")
  \/ part = "identity" /\ IdNext /\ OthersStay("identity")
  \/ part = "files" /\ FilesNext /\ OthersStay("files")
  \/ part = "network test" /\ NetNext /\ OthersStay("network test")
  \/ part = "console" /\ LinkNext /\ OthersStay("console")

PartsSpec ==
  PartsInit /\ [][PartsNext]_<<part, vars, hubVars, setupVars, labVars, idVars, fileVars, testVars, linkVars>>
=============================================================================
