-------------------------- MODULE MCLoaderRegistry --------------------------
(***************************************************************************)
(* LoaderRegistry for TLC: polling and announcing machines that share one  *)
(* permanent MAC.                                                          *)
(***************************************************************************)
EXTENDS LoaderRegistry

CONSTANTS l1, l2, a1, m1

SameMac == [l \in {l1, l2, a1} |-> m1]
=============================================================================
