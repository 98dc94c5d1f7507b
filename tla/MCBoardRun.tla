----------------------------- MODULE MCBoardRun -----------------------------
(* Two commands at a time on one host and one server.                      *)
EXTENDS BoardRun, TLC

CONSTANTS p1, p2, s1, s2, d1, d2, d3

Base == [cmd |-> "uboot", port |-> s1, net |-> "dhcp", checks |-> TRUE, reset |-> TRUE, off |-> FALSE,
         setup |-> FALSE, serial |-> TRUE]
Local ==
  <<Base, [Base EXCEPT !.port = s2, !.net = "static", !.checks = FALSE, !.reset = FALSE],
    [Base EXCEPT !.net = "none", !.off = TRUE]>>
Remote1 == [Base EXCEPT !.port = Board]
Served ==
  <<[Remote1 EXCEPT !.cmd = "board", !.setup = TRUE],
    [Remote1 EXCEPT !.cmd = "board", !.net = "none", !.checks = FALSE],
    [Remote1 EXCEPT !.cmd = "httpboot"],
    [Remote1 EXCEPT !.cmd = "connect", !.checks = FALSE],
    [Remote1 EXCEPT !.cmd = "connect", !.checks = FALSE, !.serial = FALSE]>>
\* Two runs on the host, or two on the server: one of each shares nothing.
Pairs(s) == {p1 :> s[ij[1]] @@ p2 :> s[ij[2]] : ij \in {x \in (1..Len(s)) \X (1..Len(s)) : x[1] <= x[2]}}
MCPlans == Pairs(Local) \cup Pairs(Served)
=============================================================================
