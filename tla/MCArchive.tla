------------------------------ MODULE MCArchive ------------------------------
(***************************************************************************)
(* Archive for TLC: two files whose names survive and one whose name does  *)
(* not; a content that is empty, one that is a zero, and two that look like *)
(* the name.                                                               *)
(***************************************************************************)
EXTENDS Archive

MCByte == {0, 1, 2}
MCIntact == {<<1>>, <<2, 1>>}
MCNames == MCIntact \cup {<<2>>}
MCJunk == {<<>>, <<1, 1>>}
MCContents == [f \in MCNames |-> IF f = <<1>> THEN {<<>>, <<0>>} ELSE {f}]
=============================================================================
