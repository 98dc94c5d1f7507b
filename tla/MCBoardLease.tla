---------------------------- MODULE MCBoardLease ----------------------------
(***************************************************************************)
(* BoardLease for TLC. Session ids are interchangeable: UUIDs.             *)
(***************************************************************************)
EXTENDS BoardLease, TLC

SessionSymmetry == Permutations(Sessions)
=============================================================================
