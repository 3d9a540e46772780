------------------------------- MODULE MCChat -------------------------------
(***************************************************************************)
(* Chat for TLC: client processes are interchangeable in the safety runs,  *)
(* within those that type and those that do not.                           *)
(***************************************************************************)
EXTENDS Chat, TLC

ClientSymmetry == Permutations(Typists) \cup Permutations(Clients \ Typists)
=============================================================================
