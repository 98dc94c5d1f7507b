-------------------------- MODULE MCBoardInventory --------------------------
(***************************************************************************)
(* BoardInventory for TLC: boards of every power kind, with one MAC and    *)
(* one relay port to compete for.                                          *)
(***************************************************************************)
EXTENDS BoardInventory

CONSTANTS d1, d2, m1, p1, v1

Board(d, m, p) == [dtb |-> d, mac |-> m, power |-> p, disabled |-> FALSE]

TwoBoards == {1, 2}
VirtualMac == [d \in {v1} |-> m1]
Kinds == {Board(d1, m1, p1), Board(None, m1, v1), Board(None, None, "custom"), Board(d1, m1, v1)}

\* Bound: a DTB request is explored beside edits, sessions and devices, but not beside a power
\* action, a port lease or a power-on call, none of which it meets; and once a rename has undone
\* an edit, only as long as no new edit begins, which leaves the restart that repairs it.
Apart ==
  /\ overwritten \/ (\E r \in DtbRequests : dtb[r].pc # "none") => busy = {} /\ leased = {} /\ poweron = {}
  /\ overwritten => GateIsFree /\ \A r \in DtbRequests : dtb[r].pc \in {"none", "files"}
=============================================================================
