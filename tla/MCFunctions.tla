----------------------------- MODULE MCFunctions -----------------------------
(***************************************************************************)
(* Inputs for the functions that keep no state.                            *)
(*   Encode: small numbers, those around the limit of seven digits, powers *)
(*   of the bases and the extremes; packed decimals with every pattern of  *)
(*   zeros.                                                                *)
(*   EncodeFloat: wholes of one to six digits, with every thousandth (of   *)
(*   1024) and with the floats on both sides of every half of a hundredth. *)
(*   Lines: every line of up to five characters, blanks and bars, with a   *)
(*   newline behind it or the end of the input; up to three pending reads, *)
(*   which may fill the buffer.                                            *)
(***************************************************************************)
EXTENDS EncodeFloat, Lines

Near(v) == {v - 1, v, v + 1}
Large == Near(9999999) \cup Near(1111111) \cup Near(65536) \cup Near(16777216)
         \cup {123456789, 987654321, 2147483646, 2147483647}
MCValues == -300 .. 1300 \cup Large \cup {-v : v \in Large} \cup {Least}
MCPacked == {<<sign>> \o digits : sign \in {12, 13}, digits \in [1 .. 7 -> {0, 3, 9}]}

Wholes == {0, 1, 2, 5, 10, 99, 1023, 105000}
Parts == {k * 2 ^ 20 : k \in 0 .. 1023}
Around(whole, half) == LET u == Place(whole, half)
                       IN {half - (half % u) + e * u : e \in -1 .. 2}
MCFloats == {v \in [negative : BOOLEAN, whole : Wholes, part : Parts] : v.part % Place(v.whole, v.part) = 0}
            \cup {v \in UNION {[negative : {FALSE}, whole : {w}, part : Around(w, Halves(2 * c + 1))] :
                                   w \in Wholes, c \in 0 .. 99} :
                     v.part \in 0 .. Unit - 1 /\ v.part % Place(v.whole, v.part) = 0}

Letter == 97
Other == 98
Strings(chars, n) == UNION {[1 .. k -> chars] : k \in 0 .. n}
Line == Strings({Letter, Space, Tab, Bar}, 5)
MCTyped == Line \cup {s \o <<Newline>> : s \in Line} \cup {s \o <<Newline, Letter>> : s \in Strings({Letter, Bar}, 3)}
Some(chars, n) == Strings(chars, n) \ {<<>>}
MCPending == UNION {[1 .. k -> Some({Letter, Newline}, 3)] : k \in 0 .. 2}
             \cup [1 .. 3 -> Some({Letter, Other, Newline}, 2)]

Next == EncodeNext \/ FloatNext \/ LinesNext

Spec == Init /\ [][Next]_vars
=============================================================================
