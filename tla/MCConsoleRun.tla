---------------------------- MODULE MCConsoleRun ----------------------------
(* Two prompts, a result that a failure may contain, and a passive step.   *)
EXTENDS ConsoleRun

Prompt == <<"p", "p">>
Step(prefix, command, success, fail, timed) ==
  [prefix |-> prefix, command |-> command, success |-> success, fail |-> fail, timed |-> timed]
Login   == Step(Prompt, TRUE, {<<"k">>}, {<<"x", "k">>}, TRUE)
Start   == Step(None, TRUE, {}, {}, FALSE)
Passive == Step(None, FALSE, {<<"k">>}, {<<"x">>}, FALSE)

MCConfigs == {<<>>, <<Login, Start>>, <<Passive, Login>>, <<Step(<<>>, TRUE, {}, {}, FALSE)>>}
MCFail == {<<"x", "x">>}

\* The instance is one of those that VerdictsAreRight is about.
ASSUME MCPatternsFit == PatternsFit
=============================================================================
