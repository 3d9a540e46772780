-------------------------------- MODULE Calls --------------------------------
(***************************************************************************)
(* A behaviour of a program whose functions keep no state: one call.       *)
(* Characters are their codes, strings and buffers sequences of them.      *)
(***************************************************************************)
EXTENDS Integers, Sequences

VARIABLES call,         \* the function that was called, or "none"
          value,        \* its argument
          result        \* what it returned, or left in the buffer

vars == <<call, value, result>>

Nul == 0
Space == 32

Init == call = "none" /\ value = 0 /\ result = <<>>

Call(name, argument, answer) ==
    /\ call = "none"
    /\ call' = name
    /\ value' = argument
    /\ result' = answer
=============================================================================
