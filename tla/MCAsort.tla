------------------------------- MODULE MCAsort -------------------------------
(***************************************************************************)
(* Asort for TLC: the files and the faults are given in the configurations.*)
(***************************************************************************)
EXTENDS Asort
=============================================================================
