----------------------------- MODULE EncodeFloat -----------------------------
(***************************************************************************)
(* float_to_ascii() of src/Program-1/encode.c, with the arithmetic of a    *)
(* float: every operation is rounded to 24 bits, to even when halfway.  A  *)
(* float is a sign, the whole number below its magnitude and the rest of   *)
(* it in units of 2^-30.                                                   *)
(***************************************************************************)
EXTENDS Encode

CONSTANT Floats         \* the floats that are encoded

Unit == 2 ^ 30
Bits(n) == CHOOSE b \in 0 .. 30 : (b = 0 \/ 2 ^ (b - 1) <= n) /\ n < 2 ^ b

(* A multiple of u next to n.                                              *)
Nearest(n, u) == LET low == n - (n % u)
                 IN IF 2 * (n - low) > u \/ (2 * (n - low) = u /\ (low \div u) % 2 = 1)
                    THEN low + u ELSE low

(* The place of the last of 24 bits, in the part and in a number.          *)
Place(whole, part) == IF whole > 0 THEN 2 ^ (Bits(whole) + 6)
                      ELSE 2 ^ (IF Bits(part) > 24 THEN Bits(part) - 24 ELSE 0)
Excess(n) == 2 ^ (IF Bits(n) > 24 THEN Bits(n) - 24 ELSE 0)

ASSUME FloatAssumption ==
    Floats \subseteq {v \in [negative : BOOLEAN, whole : 0 .. 2 ^ 24 - 1, part : 0 .. Unit - 1] :
                         v.part % Place(v.whole, v.part) = 0}

(* absolute += 0.005, which as a float is 5368709 / 2^30.                  *)
Nothing == 0                                                 \* mutant: rounds down
HalfCent == 5368709
Rounded(v) ==
    LET sum == v.part + HalfCent
        whole == v.whole + sum \div Unit
        part == Nearest(sum % Unit, Place(whole, sum % Unit))
    IN [whole |-> whole + part \div Unit, part |-> part % Unit]

(* remainder *= 10; the digit is its whole part.  The remainder is m times *)
(* u, in units of 2^-30.                                                   *)
Times10(r) ==
    LET e == Excess(10 * r.m)
        m == Nearest(10 * r.m, e) \div e
        one == Unit \div (r.u * e)
    IN [digit |-> m \div one, m |-> m % one, u |-> r.u * e]

(* The whole number's digits, all of them, right to left.                  *)
AllDigits[whole \in Ints] ==
    IF whole = 0 THEN <<>>
    ELSE <<Remainder(whole, 10) + Zero>> \o AllDigits[Quotient(whole, 10)]

BelowZero(v) == v.negative /\ (v.whole > 0 \/ v.part > 0)

Point == 46
float_to_ascii(v, length) ==
    LET r == Rounded(v)
        u == Place(r.whole, r.part)
        tenths == Times10([m |-> r.part \div u, u |-> u])
        cents == Times10(tenths)
        number == <<cents.digit + Zero, tenths.digit + Zero, Point>>
                     \o IF r.whole = 0 THEN <<Zero>> ELSE AllDigits[r.whole]
    IN Padded(IF BelowZero(v) THEN Append(number, Minus) ELSE number, length)

FloatNext == \E v \in Floats : Call("float_to_ascii", v, float_to_ascii(v, Length))

-----------------------------------------------------------------------------
(* The text without the point counts hundredths.                           *)
NoPoint(buf) == <<Space>> \o SubSeq(buf, 1, Len(buf) - 4) \o SubSeq(buf, Len(buf) - 2, Len(buf))

(* j halves of a hundredth in units of 2^-30: 2^29 / 100 = 5368709 + 3/25. *)
Halves(j) == j * 5368709 + (3 * j) \div 25

(* A float is written with its sign, no needless zero and two decimals,    *)
(* and rounded to a hundredth that is as near as any other, but for less   *)
(* than the distance to the next float: half a hundredth is added to it    *)
(* before, and every step loses bits (encode.c:242, 282-310).              *)
NearestHundredth ==
    call = "float_to_ascii" =>
        LET text == NoPoint(result)
            cents == Magnitude(Reads(text, 10)) - 100 * value.whole
            next == Place(value.whole, value.part)
        IN /\ result[Len(result) - 3] = Point
           /\ text[Start(text)] = Minus <=> BelowZero(value)
           /\ \A k \in FirstDigit(text) .. Len(text) - 1 : DigitOf(text[k]) \in 0 .. 9
           /\ FirstDigit(text) <= Len(text) - 3
           /\ text[FirstDigit(text)] = Zero => FirstDigit(text) = Len(text) - 3
           /\ Halves(2 * cents - 1) < value.part + next
           /\ value.part - next <= Halves(2 * cents + 1)
=============================================================================
