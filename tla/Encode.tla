------------------------------- MODULE Encode -------------------------------
(***************************************************************************)
(* The integer encoders of src/Program-1/encode.c.  A character is its     *)
(* code, a buffer is a sequence of them, a 32-bit word its eight nibbles,  *)
(* the lowest first.  Digits are listed as the code writes them, from      *)
(* right to left.                                                          *)
(***************************************************************************)
EXTENDS Calls

CONSTANTS Values,       \* the ints that are encoded
          Packed,       \* the packed decimals that are decoded: nibbles
          Length        \* the buffer's length

Least == -2147483647 - 1
Ints == Least .. 2147483647

(* Eight nibbles: a sign, C or D, and seven digits.                        *)
PackedDecimals == {w \in Seq(0 .. 15) : /\ Len(w) = 8
                                        /\ w[1] \in {12, 13}
                                        /\ \A k \in 2 .. 8 : w[k] <= 9}

ASSUME EncodeAssumption == /\ Values \subseteq Ints
                           /\ Packed \subseteq PackedDecimals
                           /\ Length \in Nat /\ Length >= 13

Plus == 43
Minus == 45
Zero == 48              \* '0'
LetterA == 65           \* 'A'

-----------------------------------------------------------------------------
(* C's / and % round towards zero.                                         *)
Quotient(a, b) == IF a < 0 /\ a % b # 0 THEN (a \div b) + 1 ELSE a \div b
Remainder(a, b) == IF a < 0 /\ a % b # 0 THEN (a % b) - b ELSE a % b

(* (1 - 2 * signbit) * value, in 32 bits: the least int is its own.        *)
abs(v) == IF v < 0 /\ v # Least THEN -v ELSE v

(* blank(), the digits right to left from the last place, spacePad().      *)
PaddedFar(text, length) ==                                   \* mutant: pads from buf[1] on
    [k \in 1 .. length |-> CASE k = length \/ k = 1 -> Nul
                             [] length - k \in 1 .. Len(text) -> text[length - k]
                             [] OTHER -> Space]
Padded(text, length) ==
    [k \in 1 .. length |-> CASE k = length -> Nul
                             [] length - k \in 1 .. Len(text) -> text[length - k]
                             [] OTHER -> Space]

(* The digits the loop of int_to_ascii() and int_to_bcd() finds: it is left *)
(* when a remainder is zero.                                               *)
Digits[whole \in Ints] ==
    IF whole = 0 THEN <<>>
    ELSE LET r == Remainder(whole, 10)
         IN <<r>> \o IF r = 0 THEN <<>> ELSE Digits[Quotient(whole, 10)]

(* That of int_to_ascii_hex(): a remainder of ten has become zero when the *)
(* loop looks at it.                                                       *)
HexLowered(r) == r + Zero                                    \* mutant: one table
HexChar(r) == IF r < 10 THEN r + Zero ELSE (r % 10) + LetterA
HexDigits[whole \in Ints] ==
    IF whole = 0 THEN <<>>
    ELSE LET r == Remainder(whole, 16)
         IN <<HexChar(r)>> \o IF r % 10 = 0 THEN <<>> ELSE HexDigits[Quotient(whole, 16)]

Signed(v, text) == IF v < 0 THEN Append(text, Minus) ELSE text

int_to_ascii(v, length) ==
    Padded(IF v = 0 THEN <<Zero>>
           ELSE LET digits == Digits[abs(v)]
                IN Signed(v, [k \in 1 .. Len(digits) |-> digits[k] + Zero]),
           length)

int_to_ascii_hex(v, length) ==
    Padded(IF v = 0 THEN <<Zero>> ELSE Signed(v, HexDigits[abs(v)]), length)

-----------------------------------------------------------------------------
(* Packed decimals.                                                        *)
Nibbles(v) == [k \in 1 .. 8 |-> (v \div 16 ^ (k - 1)) % 16]

(* The least int has negative remainders, which set every higher bit.  The *)
(* last three are shifted by 32 and more, and the build's shifts begin     *)
(* again at 0: so -1, shifted by 36 and thus by 4, sets the lowest digit's *)
(* nibble too.  An eighth digit of another int would be shifted out of the *)
(* word; it is always zero.                                                *)
Packing(v, limit) ==
    IF v = Least THEN <<13, 15, 15, 15, 15, 15, 15, 15>>
    ELSE IF v = 0 \/ abs(v) > limit THEN Nibbles(v)
    ELSE LET digits == Digits[abs(v)]
         IN [k \in 1 .. 8 |-> CASE k = 1 -> IF v > 0 THEN 12 ELSE 13
                                [] k - 1 \in 1 .. Len(digits) -> digits[k - 1]
                                [] OTHER -> 0]
int_to_bcd_short(v) == Packing(v, 999999)                    \* mutant: six digits
int_to_bcd(v) == Packing(v, 9999999)

(* zeroStrip(): the sign moves in front of the first character from buf[1] *)
(* on that is not '0', which may be the terminator.                        *)
FirstOther(buf) == CHOOSE i \in 2 .. Len(buf) :
                      buf[i] # Zero /\ \A j \in 2 .. i - 1 : buf[j] = Zero
zeroStripOne(buf) ==                                         \* mutant: moves one place only
    [k \in 1 .. Len(buf) |-> IF k = 1 /\ buf[2] = Zero THEN Nul
                             ELSE IF k = 2 /\ buf[2] = Zero THEN buf[1] ELSE buf[k]]
zeroStrip(buf) ==
    LET first == FirstOther(buf)
    IN [k \in 1 .. Len(buf) |-> CASE k < first - 1 -> Nul
                                  [] k = first - 1 -> buf[1]
                                  [] OTHER -> buf[k]]

(* spacePad() of a whole buffer.                                           *)
spacePad(buf) == [k \in 1 .. Len(buf) |->
                     IF k <= Len(buf) - 2 /\ buf[k] = Nul THEN Space ELSE buf[k]]

bcd_to_ascii(word) ==
    IF word = Nibbles(0) THEN Padded(<<Zero>>, 9)
    ELSE LET sign == IF word[1] = 13 THEN Minus ELSE Plus
         IN spacePad(zeroStrip(<<sign>> \o [k \in 1 .. 7 |-> word[9 - k] + Zero] \o <<Nul>>))

-----------------------------------------------------------------------------
EncodeNext ==
    \/ \E v \in Values : \/ Call("int_to_ascii", v, int_to_ascii(v, Length))
                         \/ Call("int_to_ascii_hex", v, int_to_ascii_hex(v, Length))
                         \/ Call("int_to_bcd", v, int_to_bcd(v))
    \/ \E w \in Packed : Call("bcd_to_ascii", w, bcd_to_ascii(w))

-----------------------------------------------------------------------------
(* References: what a buffer reads as, place by place.                     *)

DigitOf(c) == CASE c \in Zero .. Zero + 9 -> c - Zero
                [] c \in LetterA .. LetterA + 5 -> c - LetterA + 10
                [] OTHER -> -1                               \* no digit

(* Where the text begins; its digits; the number they stand for.           *)
Start(buf) == CHOOSE k \in 1 .. Len(buf) : buf[k] # Space /\ \A j \in 1 .. k - 1 : buf[j] = Space
FirstDigit(buf) == IF buf[Start(buf)] \in {Plus, Minus} THEN Start(buf) + 1 ELSE Start(buf)
Reads(buf, base) ==
    LET sum[k \in 0 .. Len(buf) - 1] == IF k < FirstDigit(buf) THEN 0
                                        ELSE sum[k - 1] * base + DigitOf(buf[k])
    IN IF buf[Start(buf)] = Minus THEN -sum[Len(buf) - 1] ELSE sum[Len(buf) - 1]

(* Blanks, a sign, digits without a leading zero, the terminator.          *)
Canonical(buf, signs, base) ==
    /\ buf[Len(buf)] = Nul
    /\ \A k \in FirstDigit(buf) .. Len(buf) - 1 : DigitOf(buf[k]) \in 0 .. base - 1
    /\ FirstDigit(buf) <= Len(buf) - 1
    /\ buf[FirstDigit(buf)] = Zero => FirstDigit(buf) = Len(buf) - 1
    /\ buf[Start(buf)] \in signs \/ FirstDigit(buf) = Start(buf)

Magnitude(v) == IF v < 0 THEN -v ELSE v

(* How many places an int needs at most; the lowest ones of a number.      *)
AllPlaces(base) == IF base = 10 THEN 10 ELSE 8
Lowest(m, base, places) == IF places < AllPlaces(base) THEN m % base ^ places ELSE m

(* The places of v in a base that the loops stop at: those digits.         *)
Stops(v, base, stops) ==
    {k \in 0 .. AllPlaces(base) - 1 : base ^ k <= Magnitude(v) /\ (Magnitude(v) \div base ^ k) % base \in stops}
Exact(v, base, stops) == v # Least /\ Stops(v, base, stops) = {}

(* A number that has no digit zero (or, in hexadecimal, A) is written as   *)
(* itself: right-justified, its sign next to it, blanks before it          *)
(* (encode.c:57, "encode the given binary number ... right-justified").    *)
TextIsNumber ==
    /\ call = "int_to_ascii" /\ Exact(value, 10, {0}) =>
          Canonical(result, {Minus}, 10) /\ Reads(result, 10) = value
    /\ call = "int_to_ascii_hex" /\ Exact(value, 16, {0, 10}) =>
          Canonical(result, {Minus}, 16) /\ Reads(result, 16) = value

(* Whatever the digits, what is written are the lowest places of the       *)
(* number, as many as are written: the loop may end early (encode.c:97,    *)
(* 158), but it writes no wrong digit.                                     *)
LowestPlaces ==
    \A base \in {10, 16} :
        call = (IF base = 10 THEN "int_to_ascii" ELSE "int_to_ascii_hex") /\ value # Least =>
            LET places == Len(result) - FirstDigit(result)
            IN Magnitude(Reads(result, base)) = Lowest(Magnitude(value), base, places)

(* Any number within seven digits but zero becomes a packed decimal, and   *)
(* unpacking it gives the number's sign and its lowest places; all of them *)
(* when none is zero (encode.c:169, 370).  A number that does not fit is   *)
(* returned as it is.                                                      *)
PackedRoundTrip ==
    call = "int_to_bcd" /\ value \notin {0, Least} =>
        IF Magnitude(value) > 9999999 THEN result = Nibbles(value)
        ELSE LET text == bcd_to_ascii(result)
                 places == Len(text) - FirstDigit(text)
             IN /\ result \in PackedDecimals
                /\ text[Start(text)] = IF value < 0 THEN Minus ELSE Plus
                /\ Magnitude(Reads(text, 10)) = Lowest(Magnitude(value), 10, places)
                /\ Exact(value, 10, {0}) => Reads(text, 10) = value

(* Every packed decimal but zero is written without leading zeros, its     *)
(* sign, which may be a plus, next to it, in nine places (encode.c:349,    *)
(* 370).                                                                   *)
PackedText ==
    call = "bcd_to_ascii" /\ (\E k \in 2 .. 8 : value[k] # 0) =>
        /\ Len(result) = 9
        /\ Canonical(result, {Plus, Minus}, 10)
        /\ result[Start(result)] \in {Plus, Minus}
        /\ LET sum[k \in 1 .. 8] == IF k = 1 THEN 0 ELSE sum[k - 1] + value[k] * 10 ^ (k - 2)
           IN Reads(result, 10) = IF value[1] = 13 THEN -sum[8] ELSE sum[8]
=============================================================================
