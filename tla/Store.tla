-------------------------------- MODULE Store --------------------------------
(***************************************************************************)
(* What ctar keeps, with no header, pointer or byte in it: a row of named  *)
(* contents.  A row only grows, by one whole file at a time, and is lost   *)
(* only with the archive's file or by one file more than there are slots.  *)
(***************************************************************************)
EXTENDS Integers, Sequences

CONSTANTS Names,        \* names of files
          Intact,       \* those that ctar can recognise again
          Slots         \* how many entries a header has

VARIABLES files,        \* what each file of the directory contains
          place,        \* the archive's file: "none", "good" or "spoilt"
          entries       \* what it keeps, oldest first

storeVars == <<files, place, entries>>

StoreInit == /\ files = <<>>
             /\ place = "none"
             /\ entries = <<>>

Create == /\ place = "none"
          /\ place' = "good"
          /\ UNCHANGED <<files, entries>>

(* Of the names that can be recognised none is kept twice.                 *)
Add(n) == /\ place = "good"
          /\ n \in DOMAIN files
          /\ Len(entries) < Slots
          /\ n \in Intact => \A k \in 1 .. Len(entries) : entries[k].name # n
          /\ entries' = Append(entries, [name |-> n, content |-> files[n]])
          /\ UNCHANGED <<files, place>>

(* One file too many, or the first one after an interrupted creation.      *)
Spoil == /\ place = "good"
         /\ Len(entries) \in {0, Slots}
         /\ place' = "spoilt"
         /\ entries' = <<>>
         /\ UNCHANGED files

Discard == /\ place' = "none"
           /\ entries' = <<>>
           /\ UNCHANGED files

(* Files are written, removed and extracted.                               *)
Change == UNCHANGED <<place, entries>>

StoreNext == Create \/ (\E n \in Names : Add(n)) \/ Spoil \/ Discard \/ Change

StoreSpec == StoreInit /\ [][StoreNext]_storeVars
=============================================================================
