---------------------------- MODULE Encode_proofs ----------------------------
(***************************************************************************)
(* Proofs about Encode and EncodeFloat, for every int, every packed        *)
(* decimal and every float below 2^24 that is a multiple of 2^-30.         *)
(***************************************************************************)
EXTENDS EncodeFloat, NaturalsInduction, WellFoundedInduction, SequenceTheorems, TLAPS

-----------------------------------------------------------------------------
(* Division, and the powers of the bases.                                  *)

(* The least of a set of numbers.                                          *)
LEMMA LeastNatural ==
  ASSUME NEW S, S \subseteq Nat, S # {}
  PROVE  \E x \in S : \A y \in S : x <= y
<1>1. \E x \in S : \A y \in S : ~(<<y, x>> \in OpToRel(<, Nat))
  BY NatLessThanWellFounded, WFMin
<1>2. \A x, y \in Nat : ~(<<y, x>> \in OpToRel(<, Nat)) => x <= y
  BY DEF OpToRel
<1> QED BY <1>1, <1>2

LEMMA DivMod ==
  ASSUME NEW m \in Nat, NEW p \in Nat \ {0}
  PROVE  m = p * (m \div p) + (m % p) /\ m % p \in 0 .. p - 1 /\ m \div p \in Nat
OBVIOUS

LEMMA DivModUnique ==
  ASSUME NEW a \in Nat, NEW d \in Nat, NEW c \in Nat \ {0}, d < c
  PROVE  (c * a + d) % c = d /\ (c * a + d) \div c = a
OBVIOUS

(* Two numbers in one: y below p and r below b.                            *)
LEMMA Below ==
  ASSUME NEW p \in Nat \ {0}, NEW b \in Nat \ {0}, NEW y \in 0 .. p - 1, NEW r \in 0 .. b - 1
  PROVE  b * y + r \in Nat /\ b * y + r < b * p /\ b * p \in Nat \ {0}
<1>1. b * (y + 1) <= b * p
  BY y + 1 <= p
<1>2. b * (y + 1) = b * y + b /\ b * y \in Nat /\ b * p \in Nat
  OBVIOUS
<1> QED BY <1>1, <1>2

(* The lowest places of a number are those of its quotient and one more.   *)
LEMMA LowPlaces ==
  ASSUME NEW m \in Nat, NEW p \in Nat \ {0}, NEW b \in Nat \ {0}
  PROVE  b * ((m \div b) % p) + (m % b) = m % (b * p)
<1> DEFINE q == m \div b
           r == m % b
           x == q \div p
           y == q % p
<1>1. m = b * q + r /\ r \in 0 .. b - 1 /\ q \in Nat
  BY DivMod
<1>2. q = p * x + y /\ y \in 0 .. p - 1 /\ x \in Nat
  BY <1>1, DivMod
<1> HIDE DEF q, r, x, y
<1>3. m = (b * p) * x + (b * y + r)
  BY <1>1, <1>2
<1>4. b * y + r \in Nat /\ b * y + r < b * p /\ b * p \in Nat \ {0}
  BY <1>1, <1>2, Below
<1>5. m % (b * p) = b * y + r
  <2> DEFINE c == b * p
             d == b * y + r
  <2> HIDE DEF c, d
  <2>1. (c * x + d) % c = d
    BY <1>2, <1>4, DivModUnique DEF c, d
  <2> QED BY <1>3, <2>1 DEF c, d
<1> QED BY <1>5 DEF q, r, x, y

(* Dividing twice.                                                         *)
LEMMA DivDiv ==
  ASSUME NEW m \in Nat, NEW p \in Nat \ {0}, NEW b \in Nat \ {0}
  PROVE  (m \div p) \div b = m \div (p * b)
<1> DEFINE q == m \div p
           r == m % p
           x == q \div b
           y == q % b
<1>1. m = p * q + r /\ r \in 0 .. p - 1 /\ q \in Nat
  BY DivMod
<1>2. q = b * x + y /\ y \in 0 .. b - 1 /\ x \in Nat
  BY <1>1, DivMod
<1> HIDE DEF q, r, x, y
<1>3. m = (p * b) * x + (p * y + r)
  BY <1>1, <1>2
<1>4. m \div (p * b) = x
  BY <1>1, <1>2, <1>3, Below, DivModUnique
<1> QED BY <1>4 DEF q, x

(* The bases, what an int can be the magnitude of, and the powers needed.  *)
Bases == {10, 16}
Magnitudes == {m \in Nat : m <= 2147483648}
Pow(b, n) == b ^ n

LEMMA PowersOfTen ==
  /\ Pow(10, 0) = 1 /\ Pow(10, 1) = 10 /\ Pow(10, 2) = 100 /\ Pow(10, 3) = 1000
  /\ Pow(10, 4) = 10000 /\ Pow(10, 5) = 100000 /\ Pow(10, 6) = 1000000
  /\ Pow(10, 7) = 10000000 /\ Pow(10, 8) = 100000000 /\ Pow(10, 9) = 1000000000
  /\ Pow(10, 10) = 10000000000
BY SMT DEF Pow

LEMMA PowersOfSixteen ==
  /\ Pow(16, 0) = 1 /\ Pow(16, 1) = 16 /\ Pow(16, 2) = 256 /\ Pow(16, 3) = 4096
  /\ Pow(16, 4) = 65536 /\ Pow(16, 5) = 1048576 /\ Pow(16, 6) = 16777216
  /\ Pow(16, 7) = 268435456 /\ Pow(16, 8) = 4294967296
BY SMT DEF Pow

LEMMA Powers ==
  ASSUME NEW b \in Bases
  PROVE  /\ AllPlaces(b) \in 8 .. 10 /\ Pow(b, 0) = 1
         /\ \A n \in 0 .. AllPlaces(b) : Pow(b, n) \in Nat \ {0}
         /\ \A n \in 0 .. AllPlaces(b) - 1 : Pow(b, n + 1) = b * Pow(b, n)
         /\ \A m \in Magnitudes : m \in Nat /\ m < Pow(b, AllPlaces(b))
<1>1. CASE b = 10
  <2>1. AllPlaces(b) = 10
    BY <1>1 DEF AllPlaces
  <2>2. \A n \in 0 .. 10 : Pow(10, n) \in Nat \ {0}
    BY PowersOfTen, SMT
  <2>3. \A n \in 0 .. 9 : Pow(10, n + 1) = 10 * Pow(10, n)
    BY PowersOfTen, SMT
  <2>4. \A m \in Magnitudes : m \in Nat /\ m < Pow(10, 10)
    <3>1. Pow(10, 10) = 10000000000
      BY PowersOfTen, SMT
    <3>2. \A m \in Magnitudes : m \in Nat /\ m < 10000000000
      BY SMT DEF Magnitudes
    <3> QED BY <3>1, <3>2, SMT
  <2>5. Pow(10, 0) = 1
    BY PowersOfTen, SMT
  <2> QED BY <1>1, <2>1, <2>2, <2>3, <2>4, <2>5
<1>2. CASE b = 16
  <2>1. AllPlaces(b) = 8
    BY <1>2 DEF AllPlaces
  <2>2. \A n \in 0 .. 8 : Pow(16, n) \in Nat \ {0}
    BY PowersOfSixteen, SMT
  <2>3. \A n \in 0 .. 7 : Pow(16, n + 1) = 16 * Pow(16, n)
    BY PowersOfSixteen, SMT
  <2>4. \A m \in Magnitudes : m \in Nat /\ m < Pow(16, 8)
    <3>1. Pow(16, 8) = 4294967296
      BY PowersOfSixteen, SMT
    <3>2. \A m \in Magnitudes : m \in Nat /\ m < 4294967296
      BY SMT DEF Magnitudes
    <3> QED BY <3>1, <3>2, SMT
  <2>5. Pow(16, 0) = 1
    BY PowersOfSixteen, SMT
  <2> QED BY <1>2, <2>1, <2>2, <2>3, <2>4, <2>5
<1> QED BY <1>1, <1>2 DEF Bases

-----------------------------------------------------------------------------
(* The digits that the loops find.                                         *)

(* The digit at a place, counted from the right; whether the loop is left  *)
(* behind it, and the first at which it is.                                *)
Dig(b, m, k) == (m \div Pow(b, k - 1)) % b
Stopping(b, stops, m, k) == Dig(b, m, k) \in stops \/ m \div Pow(b, k) = 0
IsCount(b, stops, m, k) == /\ k \in 1 .. AllPlaces(b)
                           /\ Stopping(b, stops, m, k)
                           /\ \A j \in 1 .. k - 1 : ~Stopping(b, stops, m, j)
Count(b, stops, m) == CHOOSE k \in 1 .. AllPlaces(b) : IsCount(b, stops, m, k)

LEMMA DigTyped ==
  ASSUME NEW b \in Bases, NEW m \in Magnitudes, NEW k \in 1 .. AllPlaces(b)
  PROVE  Dig(b, m, k) \in 0 .. b - 1 /\ m \div Pow(b, k - 1) \in Nat
<1>1. Pow(b, k - 1) \in Nat \ {0}
  BY Powers
<1>2. m \in Nat /\ b \in Nat \ {0}
  BY Powers DEF Bases
<1>3. m \div Pow(b, k - 1) \in Nat
  BY <1>1, <1>2, DivMod
<1> QED BY <1>2, <1>3, DivMod DEF Dig

(* There is one such place: at the last, nothing is left.                  *)
LEMMA CountIsFirst ==
  ASSUME NEW b \in Bases, NEW stops, NEW m \in Magnitudes
  PROVE  /\ IsCount(b, stops, m, Count(b, stops, m))
         /\ \A k : IsCount(b, stops, m, k) => k = Count(b, stops, m)
<1> DEFINE A == AllPlaces(b)
           S == {k \in 1 .. A : Stopping(b, stops, m, k)}
<1>1. A \in 8 .. 10 /\ Pow(b, A) \in Nat \ {0} /\ m < Pow(b, A)
  BY Powers
<1>2. m \div Pow(b, A) = 0
  <2>1. m \in Nat /\ Pow(b, A) * 0 + m = m
    BY <1>1, Powers
  <2> QED BY <1>1, <2>1, DivModUnique
<1>3. A \in S /\ S \subseteq Nat
  BY <1>1, <1>2 DEF Stopping
<1>4. PICK k \in S : \A j \in S : k <= j
  <2> HIDE DEF S
  <2> QED BY <1>3, LeastNatural
<1>5. IsCount(b, stops, m, k)
  <2>1. \A j \in 1 .. k - 1 : j \in 1 .. A /\ ~(k <= j)
    BY <1>1
  <2> QED BY <1>4, <2>1 DEF IsCount
<1>6. \A i, j : IsCount(b, stops, m, i) /\ IsCount(b, stops, m, j) => i = j
  <2> SUFFICES ASSUME NEW i, NEW j, IsCount(b, stops, m, i), IsCount(b, stops, m, j) PROVE i = j
    OBVIOUS
  <2>1. /\ i \in 1 .. A /\ Stopping(b, stops, m, i) /\ \A k_1 \in 1 .. i - 1 : ~Stopping(b, stops, m, k_1)
        /\ j \in 1 .. A /\ Stopping(b, stops, m, j) /\ \A k_1 \in 1 .. j - 1 : ~Stopping(b, stops, m, k_1)
    BY DEF IsCount
  <2>2. i < j => i \in 1 .. j - 1
    BY <1>1, <2>1
  <2>3. j < i => j \in 1 .. i - 1
    BY <1>1, <2>1
  <2> QED BY <1>1, <2>1, <2>2, <2>3
<1>7. k \in 1 .. AllPlaces(b)
  OBVIOUS
<1> HIDE DEF A, S
<1>8. IsCount(b, stops, m, Count(b, stops, m))
  BY <1>5, <1>7 DEF Count
<1> QED BY <1>6, <1>8

LEMMA Consing ==
  ASSUME NEW X, NEW n \in Nat \ {0}, NEW f, \A k \in 1 .. n : f[k] \in X
  PROVE  [k \in 1 .. n |-> f[k]] = <<f[1]>> \o [k \in 1 .. n - 1 |-> f[k + 1]]
<1> DEFINE rest == [k \in 1 .. n - 1 |-> f[k + 1]]
           all == [k \in 1 .. n |-> f[k]]
<1>1. rest \in Seq(X) /\ Len(rest) = n - 1 /\ <<f[1]>> \in Seq(X) /\ Len(<<f[1]>>) = 1
  OBVIOUS
<1>2. all \in Seq(X) /\ Len(all) = n
  OBVIOUS
<1>3. <<f[1]>> \o rest \in Seq(X) /\ Len(<<f[1]>> \o rest) = n
  <2> HIDE DEF rest
  <2> QED BY <1>1, ConcatProperties
<1>4. \A k \in 1 .. n : (<<f[1]>> \o rest)[k] = all[k]
  <2> TAKE k \in 1 .. n
  <2>1. \A j \in 1 .. n - 1 : rest[j] = f[j + 1]
    OBVIOUS
  <2>2. k = 1 \/ (k > 1 /\ k - 1 \in 1 .. n - 1)
    OBVIOUS
  <2> HIDE DEF rest
  <2>3. (<<f[1]>> \o rest)[k] = IF k <= 1 THEN <<f[1]>>[k] ELSE rest[k - 1]
    BY <1>1, ConcatProperties
  <2>4. all[k] = f[k]
    OBVIOUS
  <2> HIDE DEF all
  <2>5. k = 1 => <<f[1]>>[k] = f[k] /\ k <= 1
    OBVIOUS
  <2>6. k > 1 => rest[k - 1] = f[k] /\ ~(k <= 1)
    BY <2>1, <2>2
  <2> QED BY <2>2, <2>3, <2>4, <2>5, <2>6
<1> HIDE DEF all, rest
<1> QED BY <1>2, <1>3, <1>4, SeqEqual DEF all, rest

(* The next digit is the first of the quotient.                            *)
LEMMA DigShifts ==
  ASSUME NEW b \in Bases, NEW m \in Magnitudes
  PROVE  /\ Dig(b, m, 1) = m % b /\ m \div b \in Nat /\ m \div b <= m
         /\ \A k \in 1 .. AllPlaces(b) : Dig(b, m, k + 1) = Dig(b, m \div b, k)
         /\ \A k \in 1 .. AllPlaces(b) - 1 : m \div Pow(b, k + 1) = (m \div b) \div Pow(b, k)
<1>1. m \in Nat /\ b \in Nat \ {0} /\ AllPlaces(b) \in 8 .. 10
  BY Powers DEF Bases
<1>2. Dig(b, m, 1) = m % b
  <2>1. Pow(b, 1 - 1) = 1 /\ m \div 1 = m
    BY <1>1, Powers
  <2> QED BY <2>1 DEF Dig
<1>3. m \div b \in Nat /\ m \div b <= m
  BY <1>1
<1>4. ASSUME NEW k \in 0 .. AllPlaces(b) - 1
      PROVE  m \div Pow(b, k + 1) = (m \div b) \div Pow(b, k)
  <2>1. Pow(b, k) \in Nat \ {0} /\ Pow(b, k + 1) = b * Pow(b, k)
    BY <1>1, Powers
  <2> QED BY <1>1, <2>1, DivDiv
<1>5. ASSUME NEW k \in 1 .. AllPlaces(b) PROVE Dig(b, m, k + 1) = Dig(b, m \div b, k)
  <2>1. k - 1 \in 0 .. AllPlaces(b) - 1 /\ (k - 1) + 1 = k /\ (k + 1) - 1 = k
    BY <1>1
  <2>2. m \div Pow(b, (k + 1) - 1) = (m \div b) \div Pow(b, k - 1)
    BY <1>4, <2>1
  <2> QED BY <2>2 DEF Dig
<1>6. \A k \in 1 .. AllPlaces(b) - 1 : k \in 0 .. AllPlaces(b) - 1
  BY <1>1
<1> QED BY <1>2, <1>3, <1>4, <1>5, <1>6

LEMMA MagnitudeBelow ==
  ASSUME NEW m \in Magnitudes, NEW q \in Nat, q <= m
  PROVE  q \in Magnitudes
BY SMT DEF Magnitudes

(* The loop is left at once, or it goes on with the quotient.              *)
LEMMA CountShifts ==
  ASSUME NEW b \in Bases, NEW stops, NEW m \in Magnitudes
  PROVE  /\ Count(b, stops, m) \in 1 .. AllPlaces(b)
         /\ m % b \in stops \/ m \div b = 0 => Count(b, stops, m) = 1
         /\ m % b \notin stops /\ m \div b # 0 =>
               Count(b, stops, m) = Count(b, stops, m \div b) + 1
<1> DEFINE q == m \div b
           d == Count(b, stops, m)
<1>1. AllPlaces(b) \in 8 .. 10 /\ b \in Nat \ {0}
  BY Powers DEF Bases
<1>2. q \in Magnitudes
  BY DigShifts, MagnitudeBelow
<1>3. IsCount(b, stops, m, d) /\ \A k : IsCount(b, stops, m, k) => k = d
  BY CountIsFirst
<1>4. Stopping(b, stops, m, 1) <=> m % b \in stops \/ q = 0
  <2>1. Pow(b, 1) = b
    <3>1. Pow(b, 0 + 1) = b * Pow(b, 0) /\ Pow(b, 0) = 1
      BY <1>1, Powers
    <3> QED BY <1>1, <3>1
  <2> QED BY <2>1, DigShifts DEF Stopping
<1>5. \A k \in 1 .. AllPlaces(b) - 1 : Stopping(b, stops, m, k + 1) <=> Stopping(b, stops, q, k)
  <2> TAKE k \in 1 .. AllPlaces(b) - 1
  <2>1. k \in 1 .. AllPlaces(b)
    BY <1>1
  <2> QED BY <2>1, DigShifts DEF Stopping
<1> HIDE DEF q, d
<1>6. d \in 1 .. AllPlaces(b)
  BY <1>3 DEF IsCount
<1>7. ASSUME Stopping(b, stops, m, 1) PROVE d = 1
  <2>1. 1 \in 1 .. AllPlaces(b) /\ 1 .. 1 - 1 = {}
    BY <1>1
  <2> QED BY <1>3, <1>7, <2>1 DEF IsCount
<1>8. ASSUME ~Stopping(b, stops, m, 1) PROVE d = Count(b, stops, q) + 1
  <2>1. /\ Stopping(b, stops, m, d)
        /\ \A k \in 1 .. d - 1 : ~Stopping(b, stops, m, k)
    BY <1>3 DEF IsCount
  <2>2. d - 1 \in 1 .. AllPlaces(b) - 1 /\ d - 1 \in 1 .. AllPlaces(b) /\ (d - 1) + 1 = d
    <3>1. d # 1
      BY <1>8, <2>1
    <3> QED BY <1>1, <1>6, <3>1
  <2>3. Stopping(b, stops, q, d - 1)
    BY <1>5, <2>1, <2>2
  <2>4. \A k \in 1 .. (d - 1) - 1 : ~Stopping(b, stops, q, k)
    <3> TAKE k \in 1 .. (d - 1) - 1
    <3>1. k \in 1 .. AllPlaces(b) - 1 /\ k + 1 \in 1 .. d - 1
      BY <1>1, <1>6
    <3> QED BY <1>5, <2>1, <3>1
  <2>5. IsCount(b, stops, q, d - 1)
    BY <2>2, <2>3, <2>4 DEF IsCount
  <2>6. d - 1 = Count(b, stops, q)
    BY <1>2, <2>5, CountIsFirst
  <2> QED BY <2>2, <2>6
<1> QED BY <1>4, <1>6, <1>7, <1>8 DEF q, d

(* What the loop writes for a number: its digits, each as a character of   *)
(* an alphabet.                                                            *)
Alphabets == [-15 .. 15 -> Int]
Spelt(b, stops, m, chars) ==
    IF m = 0 THEN <<>> ELSE [k \in 1 .. Count(b, stops, m) |-> chars[Dig(b, m, k)]]

LEMMA SpeltStep ==
  ASSUME NEW b \in Bases, NEW stops, NEW m \in Magnitudes, m # 0, NEW chars \in Alphabets
  PROVE  Spelt(b, stops, m, chars)
           = <<chars[m % b]>> \o IF m % b \in stops THEN <<>>
                                 ELSE Spelt(b, stops, m \div b, chars)
<1> DEFINE q == m \div b
           d == Count(b, stops, m)
           f == [k \in 1 .. d |-> chars[Dig(b, m, k)]]
           rest == [k \in 1 .. d - 1 |-> f[k + 1]]
<1>1. d \in 1 .. AllPlaces(b) /\ AllPlaces(b) \in 8 .. 10
  BY CountShifts, Powers
<1>2. \A k \in 1 .. d : f[k] \in Int
  <2> TAKE k \in 1 .. d
  <2>1. k \in 1 .. AllPlaces(b)
    BY <1>1
  <2>2. Dig(b, m, k) \in 0 .. 15
    BY <2>1, DigTyped DEF Bases
  <2>3. f[k] = chars[Dig(b, m, k)]
    OBVIOUS
  <2> QED BY <2>2, <2>3 DEF Alphabets
<1>3. Spelt(b, stops, m, chars) = f
  BY DEF Spelt
<1>4. f = [k \in 1 .. d |-> f[k]]
  OBVIOUS
<1>5. f[1] = chars[m % b]
  <2>1. 1 \in 1 .. d
    BY <1>1
  <2> QED BY <2>1, DigShifts
<1>6. \A k \in 1 .. d - 1 : f[k + 1] = chars[Dig(b, q, k)]
  <2> TAKE k \in 1 .. d - 1
  <2>1. k \in 1 .. AllPlaces(b) /\ k + 1 \in 1 .. d
    BY <1>1
  <2> QED BY <2>1, DigShifts
<1> HIDE DEF f, d, q
<1>7. f = <<f[1]>> \o rest
  <2>1. d \in Nat \ {0}
    BY <1>1
  <2>2. [k \in 1 .. d |-> f[k]] = <<f[1]>> \o [k \in 1 .. d - 1 |-> f[k + 1]]
    BY <1>2, <2>1, Consing
  <2> QED BY <1>4, <2>2
<1>8. rest = [k \in 1 .. d - 1 |-> chars[Dig(b, q, k)]]
  BY <1>6
<1>9. ASSUME m % b \in stops \/ q = 0 PROVE rest = <<>>
  <2>1. d = 1
    BY <1>9, CountShifts DEF d, q
  <2>2. 1 .. d - 1 = {}
    BY <2>1
  <2> QED BY <2>2
<1>10. ASSUME m % b \notin stops, q # 0 PROVE rest = Spelt(b, stops, q, chars)
  <2>1. d = Count(b, stops, q) + 1 /\ q \in Magnitudes
    BY <1>10, CountShifts, DigShifts, MagnitudeBelow DEF d, q
  <2>2. Count(b, stops, q) \in 1 .. AllPlaces(b)
    BY <2>1, CountShifts
  <2>3. d - 1 = Count(b, stops, q)
    BY <1>1, <2>1, <2>2
  <2> QED BY <1>8, <1>10, <2>3 DEF Spelt
<1>11. q = 0 => Spelt(b, stops, q, chars) = <<>>
  BY DEF Spelt
<1> HIDE DEF rest
<1> QED BY <1>3, <1>5, <1>7, <1>9, <1>10, <1>11 DEF q

-----------------------------------------------------------------------------
(* The ints, and the loops on them: a negative one has negative digits.    *)

LEMMA LeastIs == Least \in Int /\ Least = -2147483648
BY SMT DEF Least

LEMMA IntsAre ==
  \A v : v \in Ints <=> v \in Int /\ v >= -2147483648 /\ v <= 2147483647
<1> DEFINE c == 2147483647
           a == -2147483648
<1>1. c \in Int /\ a \in Int /\ Least = a
  BY LeastIs, SMT
<1> HIDE DEF a, c
<1>2. Ints = a .. c
  BY <1>1, SMT DEF Ints, c
<1>3. \A v : v \in Ints <=> v \in Int /\ v >= a /\ v <= c
  BY <1>1, <1>2, SMT
<1> QED BY <1>3, SMT DEF a, c

LEMMA MagnitudeTyped ==
  ASSUME NEW v \in Ints
  PROVE  /\ v \in Int /\ Magnitude(v) \in Magnitudes
         /\ v # Least => abs(v) = Magnitude(v) /\ Magnitude(v) \in Ints
         /\ v = 0 <=> Magnitude(v) = 0
BY IntsAre, LeastIs, SMT DEF Magnitude, Magnitudes, abs

LEMMA NegativeParts ==
  ASSUME NEW b \in Bases, NEW m \in Nat, m # 0
  PROVE  /\ Remainder(m, b) = m % b /\ Quotient(m, b) = m \div b
         /\ Remainder(-m, b) = -(m % b) /\ Quotient(-m, b) = -(m \div b)
<1>1. CASE b = 10
  BY <1>1, SMT DEF Remainder, Quotient
<1>2. CASE b = 16
  BY <1>2, SMT DEF Remainder, Quotient
<1> QED BY <1>1, <1>2 DEF Bases

(* One turn of either loop.                                                *)
Turn(b, stops, chars, f, whole) ==
    IF whole = 0 THEN <<>>
    ELSE <<chars[Remainder(whole, b)]>>
            \o IF Magnitude(Remainder(whole, b)) \in stops THEN <<>> ELSE f[Quotient(whole, b)]
Turns(b, stops, chars, f) == [whole \in Ints |-> Turn(b, stops, chars, f, whole)]

Flipped(chars) == [r \in -15 .. 15 |-> chars[-r]]
SpeltInt(b, stops, chars, v) ==
    IF v < 0 THEN Spelt(b, stops, -v, Flipped(chars)) ELSE Spelt(b, stops, v, chars)

LEMMA SpeltTurns ==
  ASSUME NEW b \in Bases, NEW stops, NEW chars \in Alphabets, NEW v \in Ints,
         NEW f, \A w \in Ints : f[w] = SpeltInt(b, stops, chars, w)
  PROVE  SpeltInt(b, stops, chars, v) = Turn(b, stops, chars, f, v)
<1> DEFINE m == Magnitude(v)
<1>1. m \in Magnitudes /\ m \in Nat /\ b \in Nat \ {0} /\ v \in Int
  BY MagnitudeTyped, Powers DEF Bases
<1>2. CASE v = 0
  <2>1. SpeltInt(b, stops, chars, v) = <<>>
    BY <1>2 DEF SpeltInt, Spelt
  <2> QED BY <1>2, <2>1 DEF Turn
<1>3. m % b \in 0 .. 15 /\ m \div b \in Nat /\ m \div b <= m /\ m \div b \in Magnitudes
  <2>1. m % b \in 0 .. b - 1 /\ m \div b \in Nat /\ m \div b <= m
    BY <1>1, DivMod, DigShifts
  <2>2. m % b \in 0 .. 15
    BY <2>1 DEF Bases
  <2> QED BY <1>1, <2>1, <2>2, MagnitudeBelow
<1>4. CASE v > 0
  <2>1. m = v
    BY <1>1, <1>4 DEF Magnitude
  <2>2. v \div b \in Ints /\ ~(v \div b < 0) /\ ~(v < 0) /\ v # 0
    <3>1. v \div b \in Ints
      BY <1>1, <1>3, <2>1, IntsAre, SMT
    <3> QED BY <1>1, <1>3, <1>4, <2>1, <3>1
  <2>3. Remainder(v, b) = v % b /\ Quotient(v, b) = v \div b
    BY <1>1, <2>1, <2>2, NegativeParts
  <2>4. Magnitude(v % b) = v % b
    BY <1>3, <2>1 DEF Magnitude
  <2>5. f[v \div b] = Spelt(b, stops, v \div b, chars)
    BY <2>2 DEF SpeltInt
  <2>6. SpeltInt(b, stops, chars, v) = Spelt(b, stops, v, chars)
    BY <2>2 DEF SpeltInt
  <2>7. Spelt(b, stops, v, chars)
          = <<chars[v % b]>> \o IF v % b \in stops THEN <<>> ELSE Spelt(b, stops, v \div b, chars)
    <3>1. v \in Magnitudes
      BY <1>1, <2>1
    <3> QED BY <2>2, <3>1, SpeltStep
  <2> QED BY <2>2, <2>3, <2>4, <2>5, <2>6, <2>7 DEF Turn
<1>5. CASE v < 0
  <2>1. m = -v /\ v = -m /\ m # 0 /\ v # 0
    BY <1>1, <1>5 DEF Magnitude
  <2>2. -(m \div b) \in Ints
    BY <1>1, <1>3, IntsAre, SMT DEF Magnitudes
  <2>3. Remainder(v, b) = -(m % b) /\ Quotient(v, b) = -(m \div b)
    BY <1>1, <2>1, NegativeParts
  <2>4. Magnitude(-(m % b)) = m % b
    BY <1>3 DEF Magnitude
  <2>5. f[-(m \div b)] = Spelt(b, stops, m \div b, Flipped(chars))
    <3>1. CASE m \div b = 0
      <4>1. -(m \div b) = 0 /\ ~(0 < 0)
        BY <3>1
      <4>2. SpeltInt(b, stops, chars, 0) = <<>>
        BY <4>1 DEF SpeltInt, Spelt
      <4> QED BY <2>2, <3>1, <4>1, <4>2 DEF Spelt
    <3>2. CASE m \div b # 0
      <4>1. -(m \div b) < 0 /\ -(-(m \div b)) = m \div b
        BY <1>3, <3>2
      <4> QED BY <2>2, <4>1 DEF SpeltInt
    <3> QED BY <3>1, <3>2
  <2>6. SpeltInt(b, stops, chars, v) = Spelt(b, stops, m, Flipped(chars))
    BY <1>5, <2>1 DEF SpeltInt
  <2>7. Flipped(chars) \in Alphabets /\ Flipped(chars)[m % b] = chars[-(m % b)]
    <3>1. \A r \in -15 .. 15 : -r \in -15 .. 15
      OBVIOUS
    <3>2. m % b \in -15 .. 15
      BY <1>3
    <3> QED BY <3>1, <3>2 DEF Flipped, Alphabets
  <2> HIDE DEF m
  <2>8. Spelt(b, stops, m, Flipped(chars))
          = <<Flipped(chars)[m % b]>>
               \o IF m % b \in stops THEN <<>> ELSE Spelt(b, stops, m \div b, Flipped(chars))
    <3> DEFINE fl == Flipped(chars)
    <3> HIDE DEF fl
    <3>1. fl \in Alphabets /\ m \in Magnitudes /\ m # 0
      BY <1>1, <2>1, <2>7 DEF fl
    <3>2. Spelt(b, stops, m, fl)
            = <<fl[m % b]>> \o IF m % b \in stops THEN <<>> ELSE Spelt(b, stops, m \div b, fl)
      BY <3>1, SpeltStep
    <3> QED BY <3>2 DEF fl
  <2> QED BY <2>1, <2>3, <2>4, <2>5, <2>6, <2>7, <2>8 DEF Turn
<1> QED BY <1>1, <1>2, <1>4, <1>5

(* A loop writes this and nothing else: the least number written           *)
(* otherwise would have a quotient that was.                               *)
LEMMA TurnsSpell ==
  ASSUME NEW b \in Bases, NEW stops, NEW chars \in Alphabets, NEW v \in Ints, v >= 0
  PROVE  (CHOOSE f : f = Turns(b, stops, chars, f))[v] = Spelt(b, stops, v, chars)
<1> DEFINE g == [w \in Ints |-> SpeltInt(b, stops, chars, w)]
           h == CHOOSE f : f = Turns(b, stops, chars, f)
           Wrong == {w \in Ints : w >= 0 /\ h[w] # g[w]}
<1>1. g = Turns(b, stops, chars, g)
  <2>1. \A w \in Ints : g[w] = SpeltInt(b, stops, chars, w)
    OBVIOUS
  <2>2. \A w \in Ints : SpeltInt(b, stops, chars, w) = Turn(b, stops, chars, g, w)
    <3> HIDE DEF g
    <3> QED BY <2>1, SpeltTurns
  <2> QED BY <2>2 DEF Turns
<1>2. h = Turns(b, stops, chars, h)
  <2> HIDE DEF g
  <2> QED BY <1>1
<1>3. \A w \in Ints : h[w] = Turn(b, stops, chars, h, w) /\ g[w] = Turn(b, stops, chars, g, w)
  <2> HIDE DEF g, h
  <2> QED BY <1>1, <1>2 DEF Turns
<1> HIDE DEF g, h
<1>4. ASSUME Wrong # {} PROVE FALSE
  <2>1. Wrong \subseteq Nat
    BY MagnitudeTyped
  <2>2. PICK w \in Wrong : \A u \in Wrong : w <= u
    <3> HIDE DEF Wrong
    <3> QED BY <1>4, <2>1, LeastNatural
  <2>3. w # 0
    BY <1>3, <2>2 DEF Turn
  <2>4. w \in Magnitudes /\ w \in Nat /\ w \in Ints /\ h[w] # g[w]
    <3>1. Magnitude(w) = w
      BY <2>1, <2>2 DEF Magnitude
    <3> QED BY <2>1, <2>2, <3>1, MagnitudeTyped
  <2>5. Remainder(w, b) = w % b /\ Quotient(w, b) = w \div b
    BY <2>3, <2>4, NegativeParts
  <2>6. w \div b \in Nat /\ w \div b < w /\ w \div b \in Ints
    <3>1. w \div b \in Nat /\ w \div b < w
      <4>1. CASE b = 10
        BY <2>3, <2>4, <4>1
      <4>2. CASE b = 16
        BY <2>3, <2>4, <4>2
      <4> QED BY <4>1, <4>2 DEF Bases
    <3> QED BY <2>4, <3>1, IntsAre, SMT
  <2>7. w \div b \notin Wrong
    <3>1. ~(w <= w \div b)
      BY <2>4, <2>6
    <3> QED BY <2>2, <3>1
  <2>8. h[w \div b] = g[w \div b]
    BY <2>6, <2>7
  <2>9. Turn(b, stops, chars, h, w) = Turn(b, stops, chars, g, w)
    BY <2>5, <2>8 DEF Turn
  <2> QED BY <1>3, <2>4, <2>9
<1>5. h[v] = g[v]
  BY <1>4
<1>6. g[v] = SpeltInt(b, stops, chars, v)
  BY DEF g
<1>7. ~(v < 0)
  BY MagnitudeTyped
<1> QED BY <1>5, <1>6, <1>7 DEF h, SpeltInt

Numbers == [r \in -15 .. 15 |-> r]
HexChars == [r \in -15 .. 15 |-> HexChar(r)]

LEMMA AlphabetsTyped ==
  /\ Numbers \in Alphabets /\ HexChars \in Alphabets
  /\ \A r \in 0 .. 15 : Numbers[r] = r /\ HexChars[r] = HexChar(r)
BY DEF Numbers, HexChars, Alphabets, HexChar, Zero, LetterA

LEMMA DigitsTurns == Digits = CHOOSE f : f = Turns(10, {0}, Numbers, f)
<1>1. \A f : Turns(10, {0}, Numbers, f)
          = [whole \in Ints |->
                IF whole = 0 THEN <<>>
                ELSE LET r == Remainder(whole, 10)
                     IN <<r>> \o IF r = 0 THEN <<>> ELSE f[Quotient(whole, 10)]]
  <2> TAKE f
  <2> DEFINE Body(whole) == IF whole = 0 THEN <<>>
                            ELSE LET r == Remainder(whole, 10)
                                 IN <<r>> \o IF r = 0 THEN <<>> ELSE f[Quotient(whole, 10)]
  <2>1. ASSUME NEW whole \in Ints PROVE Turn(10, {0}, Numbers, f, whole) = Body(whole)
    <3>1. Remainder(whole, 10) \in -15 .. 15
      <4>1. whole \in Int
        BY MagnitudeTyped
      <4> QED BY <4>1 DEF Remainder
    <3>2. Numbers[Remainder(whole, 10)] = Remainder(whole, 10)
      BY <3>1 DEF Numbers
    <3>3. Magnitude(Remainder(whole, 10)) \in {0} <=> Remainder(whole, 10) = 0
      BY <3>1 DEF Magnitude
    <3> QED BY <3>2, <3>3 DEF Turn
  <2> HIDE DEF Body
  <2>2. Turns(10, {0}, Numbers, f) = [whole \in Ints |-> Body(whole)]
    BY <2>1 DEF Turns
  <2> QED BY <2>2 DEF Body
<1> QED BY <1>1 DEF Digits

LEMMA HexDigitsTurns == HexDigits = CHOOSE f : f = Turns(16, {0, 10}, HexChars, f)
<1>1. \A f : Turns(16, {0, 10}, HexChars, f)
          = [whole \in Ints |->
                IF whole = 0 THEN <<>>
                ELSE LET r == Remainder(whole, 16)
                     IN <<HexChar(r)>> \o IF r % 10 = 0 THEN <<>> ELSE f[Quotient(whole, 16)]]
  <2> TAKE f
  <2> DEFINE Body(whole) == IF whole = 0 THEN <<>>
                            ELSE LET r == Remainder(whole, 16)
                                 IN <<HexChar(r)>> \o IF r % 10 = 0 THEN <<>> ELSE f[Quotient(whole, 16)]
  <2>1. ASSUME NEW whole \in Ints PROVE Turn(16, {0, 10}, HexChars, f, whole) = Body(whole)
    <3>1. Remainder(whole, 16) \in -15 .. 15
      <4>1. whole \in Int
        BY MagnitudeTyped
      <4> QED BY <4>1 DEF Remainder
    <3>2. HexChars[Remainder(whole, 16)] = HexChar(Remainder(whole, 16))
      BY <3>1 DEF HexChars
    <3>3. Magnitude(Remainder(whole, 16)) \in {0, 10} <=> Remainder(whole, 16) % 10 = 0
      BY <3>1 DEF Magnitude
    <3> QED BY <3>2, <3>3 DEF Turn
  <2> HIDE DEF Body
  <2>2. Turns(16, {0, 10}, HexChars, f) = [whole \in Ints |-> Body(whole)]
    BY <2>1 DEF Turns
  <2> QED BY <2>2 DEF Body
<1> QED BY <1>1 DEF HexDigits

LEMMA DigitsSpell ==
  ASSUME NEW v \in Ints, v >= 0
  PROVE  /\ Digits[v] = Spelt(10, {0}, v, Numbers)
         /\ HexDigits[v] = Spelt(16, {0, 10}, v, HexChars)
<1>1. 10 \in Bases /\ 16 \in Bases
  BY DEF Bases
<1> QED BY <1>1, DigitsTurns, HexDigitsTurns, TurnsSpell, AlphabetsTyped

-----------------------------------------------------------------------------
(* What a buffer reads as.                                                 *)

LEMMA CharsOfDigits ==
  ASSUME NEW x \in 0 .. 15
  PROVE  /\ HexChar(x) \notin {Nul, Space, Plus, Minus}
         /\ HexChar(x) = Zero <=> x = 0
         /\ DigitOf(HexChar(x)) = x
         /\ x < 10 => HexChar(x) = x + Zero
<1>1. CASE x < 10
  BY <1>1 DEF HexChar, DigitOf, Nul, Space, Plus, Minus, Zero, LetterA
<1>2. CASE x >= 10
  <2>1. HexChar(x) = x + 55
    BY <1>2 DEF HexChar, LetterA
  <2> QED BY <1>2, <2>1 DEF DigitOf, Nul, Space, Plus, Minus, Zero, LetterA
<1> QED BY <1>1, <1>2

(* Blanks, a sign or one more blank, c digits, the terminator.             *)
Shape(buf, N, d, c, sign) ==
    /\ N \in Nat /\ c \in Nat /\ c + 2 <= N /\ Len(buf) = N
    /\ sign \in {Space, Plus, Minus}
    /\ \A k \in 1 .. N - c - 2 : buf[k] = Space
    /\ buf[N - c - 1] = sign
    /\ \A p \in 1 .. c : d[p] \in 0 .. 15 /\ buf[N - p] = HexChar(d[p])
    /\ buf[N] = Nul

LEMMA ShapeStarts ==
  ASSUME NEW buf, NEW N, NEW d, NEW c, NEW sign, Shape(buf, N, d, c, sign)
  PROVE  /\ Start(buf) = IF sign = Space THEN N - c ELSE N - c - 1
         /\ FirstDigit(buf) = N - c
         /\ buf[Start(buf)] = Minus <=> sign = Minus
         /\ sign # Space => buf[Start(buf)] = sign
<1> DEFINE s == IF sign = Space THEN N - c ELSE N - c - 1
<1>1. N \in Nat /\ c \in Nat /\ c + 2 <= N /\ Len(buf) = N
  BY DEF Shape
<1>2. buf[N - c] \notin {Space, Plus, Minus}
  <2>1. CASE c = 0
    BY <1>1, <2>1 DEF Shape, Nul, Space, Plus, Minus
  <2>2. CASE c # 0
    <3>1. c \in 1 .. c
      BY <1>1, <2>2
    <3>2. d[c] \in 0 .. 15 /\ buf[N - c] = HexChar(d[c])
      BY <3>1 DEF Shape
    <3> QED BY <3>2, CharsOfDigits
  <2> QED BY <2>1, <2>2
<1>3. s \in 1 .. Len(buf) /\ buf[s] # Space
  BY <1>1, <1>2 DEF Shape
<1>4. \A j \in 1 .. s - 1 : buf[j] = Space
  <2> TAKE j \in 1 .. s - 1
  <2>1. j \in 1 .. N - c - 2 \/ (j = N - c - 1 /\ sign = Space)
    BY <1>1
  <2> QED BY <2>1 DEF Shape
<1> HIDE DEF s
<1>5. \A k \in 1 .. Len(buf) : buf[k] # Space /\ (\A j \in 1 .. k - 1 : buf[j] = Space) => k = s
  <2> TAKE k \in 1 .. Len(buf)
  <2>1. k < s => k \in 1 .. s - 1
    BY <1>1, <1>3
  <2>2. s < k => s \in 1 .. k - 1
    BY <1>1, <1>3
  <2>3. k < s \/ s < k \/ k = s
    BY <1>1, <1>3
  <2> QED BY <1>3, <1>4, <2>1, <2>2, <2>3
<1>6. Start(buf) = s
  BY <1>3, <1>4, <1>5 DEF Start
<1>7. CASE sign = Space
  <2>1. s = N - c
    BY <1>7 DEF s
  <2> QED BY <1>2, <1>6, <1>7, <2>1 DEF FirstDigit, Space, Minus
<1>8. CASE sign # Space
  <2>1. s = N - c - 1 /\ s + 1 = N - c
    BY <1>1, <1>8 DEF s
  <2>2. buf[s] = sign /\ sign \in {Plus, Minus}
    BY <1>8, <2>1 DEF Shape
  <2> QED BY <1>6, <1>8, <2>1, <2>2 DEF FirstDigit
<1> QED BY <1>7, <1>8

(* The sum of Reads, turn by turn.                                         *)
SumTurn(buf, base, f, k) ==
    IF k < FirstDigit(buf) THEN 0 ELSE f[k - 1] * base + DigitOf(buf[k])
SumTurns(buf, base, f) == [k \in 0 .. Len(buf) - 1 |-> SumTurn(buf, base, f, k)]
Sums(buf, base) == CHOOSE f : f = SumTurns(buf, base, f)

LEMMA ReadsSums ==
  ASSUME NEW buf, NEW base
  PROVE  Reads(buf, base) = IF buf[Start(buf)] = Minus THEN -Sums(buf, base)[Len(buf) - 1]
                            ELSE Sums(buf, base)[Len(buf) - 1]
BY DEF Reads, Sums, SumTurns, SumTurn

(* g has the sums of the digits d from the left, and none behind the last. *)
Horner(g, d, c, b) ==
    /\ \A p \in 1 .. c + 1 : g[p] \in Int
    /\ g[c + 1] = 0
    /\ \A p \in 1 .. c : g[p] = g[p + 1] * b + d[p]

LEMMA SumIs ==
  ASSUME NEW buf, NEW N, NEW d, NEW c, NEW sign, Shape(buf, N, d, c, sign),
         NEW b \in Int, NEW g, Horner(g, d, c, b)
  PROVE  Sums(buf, b)[N - 1] = g[1]
<1> N \in Nat /\ c \in Nat /\ c + 1 <= N /\ Len(buf) = N
  BY DEF Shape
<1> FirstDigit(buf) = N - c
  BY ShapeStarts
<1> /\ \A p \in 1 .. c + 1 : g[p] \in Int
    /\ g[c + 1] = 0
    /\ \A p \in 1 .. c : g[p] = g[p + 1] * b + DigitOf(buf[N - p])
  BY CharsOfDigits DEF Shape, Horner
<1> DEFINE h == [k \in 0 .. N - 1 |-> IF k < N - c THEN 0 ELSE g[N - k]]
           f == Sums(buf, b)
           Wrong == {k \in 0 .. N - 1 : f[k] # h[k]}
<1>1. \A k \in 0 .. N - 1 : h[k] = IF k < N - c THEN 0 ELSE g[N - k]
  OBVIOUS
<1>2. h = [k \in 0 .. N - 1 |-> h[k]]
  OBVIOUS
<1> HIDE DEF h
<1>3. \A k \in 0 .. N - 1 : h[k] = SumTurn(buf, b, h, k)
  <2> TAKE k \in 0 .. N - 1
  <2>1. CASE k < N - c
    BY <1>1, <2>1 DEF SumTurn
  <2>2. CASE ~(k < N - c)
    <3>1. N - k \in 1 .. c /\ k - 1 \in 0 .. N - 1 /\ N - (N - k) = k /\ (N - k) + 1 = N - (k - 1)
      BY <2>2
    <3>2. h[k - 1] = g[(N - k) + 1]
      <4>1. CASE k - 1 < N - c
        <5>1. (N - k) + 1 = c + 1
          BY <2>2, <4>1
        <5> QED BY <1>1, <3>1, <4>1, <5>1
      <4>2. CASE ~(k - 1 < N - c)
        BY <1>1, <3>1, <4>2
      <4> QED BY <4>1, <4>2
    <3>3. g[N - k] = g[(N - k) + 1] * b + DigitOf(buf[N - (N - k)])
      BY <3>1
    <3>4. h[k] = g[N - k]
      BY <1>1, <2>2
    <3> QED BY <2>2, <3>1, <3>2, <3>3, <3>4 DEF SumTurn
  <2> QED BY <2>1, <2>2
<1>4. h = SumTurns(buf, b, h)
  BY <1>2, <1>3 DEF SumTurns
<1>5. f = SumTurns(buf, b, f)
  BY <1>4 DEF Sums
<1> HIDE DEF f
<1>6. \A k \in 0 .. N - 1 : f[k] = SumTurn(buf, b, f, k)
  BY <1>5 DEF SumTurns
<1>7. ASSUME Wrong # {} PROVE FALSE
  <2>1. Wrong \subseteq Nat
    OBVIOUS
  <2>2. PICK k \in Wrong : \A j \in Wrong : k <= j
    <3> HIDE DEF Wrong
    <3> QED BY <1>7, <2>1, LeastNatural
  <2>3. ~(k < N - c)
    BY <1>3, <1>6, <2>2 DEF SumTurn
  <2>4. k - 1 \in 0 .. N - 1 /\ ~(k <= k - 1)
    BY <2>2, <2>3
  <2>5. f[k - 1] = h[k - 1]
    BY <2>2, <2>4
  <2> QED BY <1>3, <1>6, <2>2, <2>5 DEF SumTurn
<1>8. N - 1 \in 0 .. N - 1 /\ N - (N - 1) = 1
  OBVIOUS
<1>9. f[N - 1] = h[N - 1]
  BY <1>7, <1>8
<1>10. h[N - 1] = g[1]
  <2>1. CASE c = 0
    BY <1>1, <1>8, <2>1
  <2>2. CASE c # 0
    BY <1>1, <1>8, <2>2
  <2> QED BY <2>1, <2>2
<1> QED BY <1>9, <1>10 DEF f

LEMMA ShapeReads ==
  ASSUME NEW buf, NEW N, NEW d, NEW c, NEW sign, Shape(buf, N, d, c, sign),
         NEW b \in Int, NEW g, Horner(g, d, c, b)
  PROVE  Reads(buf, b) = IF sign = Minus THEN -g[1] ELSE g[1]
<1>1. buf[Start(buf)] = Minus <=> sign = Minus
  BY ShapeStarts
<1>2. Len(buf) = N
  BY DEF Shape
<1>3. Sums(buf, b)[N - 1] = g[1]
  BY SumIs
<1> QED BY <1>1, <1>2, <1>3, ReadsSums

-----------------------------------------------------------------------------
(* The texts of the ints.                                                  *)

(* The lowest c digits of a number, and the numbers they stand for, from   *)
(* each place on.                                                          *)
Digs(b, m, c) == [p \in 1 .. c |-> Dig(b, m, p)]
Parts(b, m, c) == [p \in 1 .. c + 1 |-> (m \div Pow(b, p - 1)) % Pow(b, c - p + 1)]

LEMMA PartsAreSums ==
  ASSUME NEW b \in Bases, NEW m \in Magnitudes, NEW c \in 0 .. AllPlaces(b)
  PROVE  /\ \A p \in 1 .. c : Digs(b, m, c)[p] = Dig(b, m, p) /\ Dig(b, m, p) \in 0 .. b - 1
         /\ \A p \in 1 .. c : Digs(b, m, c)[p] \in 0 .. 15
         /\ Horner(Parts(b, m, c), Digs(b, m, c), c, b)
         /\ Parts(b, m, c)[1] = m % Pow(b, c)
<1> DEFINE d == Digs(b, m, c)
           g == Parts(b, m, c)
<1>1. m \in Nat /\ b \in Nat \ {0} /\ AllPlaces(b) \in 8 .. 10 /\ c \in Nat
  BY Powers DEF Bases
<1>2. \A n \in 0 .. c : Pow(b, n) \in Nat \ {0} /\ m \div Pow(b, n) \in Nat
  <2> TAKE n \in 0 .. c
  <2>1. n \in 0 .. AllPlaces(b)
    BY <1>1
  <2>2. Pow(b, n) \in Nat \ {0}
    BY <2>1, Powers
  <2> QED BY <1>1, <2>2, DivMod
<1>3. \A p \in 1 .. c : d[p] = Dig(b, m, p) /\ d[p] \in 0 .. b - 1 /\ d[p] \in 0 .. 15
  <2> TAKE p \in 1 .. c
  <2>1. p \in 1 .. AllPlaces(b)
    BY <1>1
  <2>2. Dig(b, m, p) \in 0 .. b - 1
    BY <2>1, DigTyped
  <2>3. Dig(b, m, p) \in 0 .. 15
    BY <2>2 DEF Bases
  <2> QED BY <2>2, <2>3 DEF Digs
<1>4. \A p \in 1 .. c + 1 : g[p] = (m \div Pow(b, p - 1)) % Pow(b, c - p + 1) /\ g[p] \in Int
  <2> TAKE p \in 1 .. c + 1
  <2>1. p - 1 \in 0 .. c /\ c - p + 1 \in 0 .. c
    BY <1>1
  <2>2. Pow(b, c - p + 1) \in Nat \ {0} /\ m \div Pow(b, p - 1) \in Nat
    BY <1>2, <2>1
  <2>3. (m \div Pow(b, p - 1)) % Pow(b, c - p + 1) \in Int
    BY <2>2, DivMod
  <2> QED BY <2>3 DEF Parts
<1>5. g[c + 1] = 0
  <2>1. c + 1 \in 1 .. c + 1 /\ (c + 1) - 1 = c /\ c - (c + 1) + 1 = 0 /\ c \in 0 .. c
    BY <1>1
  <2>2. Pow(b, 0) = 1 /\ m \div Pow(b, c) \in Nat
    BY <1>2, <2>1, Powers
  <2>3. g[c + 1] = (m \div Pow(b, c)) % 1
    BY <1>4, <2>1, <2>2
  <2> QED BY <2>2, <2>3
<1>6. \A p \in 1 .. c : g[p] = g[p + 1] * b + d[p]
  <2> TAKE p \in 1 .. c
  <2> DEFINE q == m \div Pow(b, p - 1)
             x == Pow(b, c - p)
  <2>1. /\ p - 1 \in 0 .. c /\ p \in 0 .. c /\ c - p \in 0 .. c
        /\ p \in 1 .. c + 1 /\ p + 1 \in 1 .. c + 1
        /\ p - 1 \in 0 .. AllPlaces(b) - 1 /\ c - p \in 0 .. AllPlaces(b) - 1
        /\ (p - 1) + 1 = p /\ (c - p) + 1 = c - p + 1
        /\ (p + 1) - 1 = p /\ c - (p + 1) + 1 = c - p
    BY <1>1
  <2>2. /\ q \in Nat /\ x \in Nat \ {0} /\ Pow(b, p - 1) \in Nat \ {0}
        /\ Pow(b, p) = b * Pow(b, p - 1) /\ Pow(b, c - p + 1) = b * x
    BY <1>2, <2>1, Powers
  <2>3. m \div Pow(b, p) = q \div b
    <3>1. q \div b = m \div (Pow(b, p - 1) * b)
      BY <1>1, <2>2, DivDiv
    <3>2. Pow(b, p - 1) * b = b * Pow(b, p - 1)
      BY <1>1, <2>2
    <3> QED BY <2>2, <3>1, <3>2
  <2>4. g[p] = q % (b * x)
    BY <1>4, <2>1, <2>2
  <2>5. g[p + 1] = (q \div b) % x
    BY <1>4, <2>1, <2>3
  <2>6. d[p] = q % b
    BY <1>3 DEF Dig
  <2> HIDE DEF q, x
  <2>7. b * ((q \div b) % x) + (q % b) = q % (b * x)
    BY <1>1, <2>2, LowPlaces
  <2>8. (q \div b) % x \in Int
    <3>1. q \div b \in Nat
      BY <1>1, <2>2, DivMod
    <3> QED BY <2>2, <3>1, DivMod
  <2>9. b * ((q \div b) % x) = ((q \div b) % x) * b
    BY <1>1, <2>8
  <2> QED BY <2>4, <2>5, <2>6, <2>7, <2>9
<1>7. g[1] = m % Pow(b, c)
  <2>1. 1 \in 1 .. c + 1 /\ 1 - 1 = 0 /\ c - 1 + 1 = c
    BY <1>1
  <2>2. Pow(b, 0) = 1 /\ m \div 1 = m
    BY <1>1, Powers
  <2> QED BY <1>4, <2>1, <2>2
<1> HIDE DEF d, g
<1>8. Horner(g, d, c, b)
  BY <1>4, <1>5, <1>6 DEF Horner
<1> QED BY <1>3, <1>7, <1>8 DEF d, g

LEMMA PaddedShape ==
  ASSUME NEW N \in Nat, NEW c \in Nat, c + 2 <= N, NEW v \in Int, NEW d, NEW text,
         \A p \in 1 .. c : d[p] \in 0 .. 15 /\ text[p] = HexChar(d[p]),
         Len(text) = IF v < 0 THEN c + 1 ELSE c, v < 0 => text[c + 1] = Minus
  PROVE  Shape(Padded(text, N), N, d, c, IF v < 0 THEN Minus ELSE Space)
<1> DEFINE buf == Padded(text, N)
           sign == IF v < 0 THEN Minus ELSE Space
<1>1. \A k \in 1 .. N : buf[k] = CASE k = N -> Nul
                                   [] N - k \in 1 .. Len(text) -> text[N - k]
                                   [] OTHER -> Space
  BY DEF Padded
<1>2. Len(buf) = N
  <2>1. buf = [k \in 1 .. N |-> buf[k]]
    BY DEF Padded
  <2> HIDE DEF buf
  <2> QED BY <2>1
<1> HIDE DEF buf
<1>3. buf[N] = Nul
  BY <1>1
<1>4. \A k \in 1 .. N - 1 : buf[k] = IF N - k \in 1 .. Len(text) THEN text[N - k] ELSE Space
  <2> TAKE k \in 1 .. N - 1
  <2>1. k \in 1 .. N /\ k # N
    OBVIOUS
  <2> QED BY <1>1, <2>1
<1>5. \A k \in 1 .. N - c - 2 : buf[k] = Space
  <2> TAKE k \in 1 .. N - c - 2
  <2>1. k \in 1 .. N - 1 /\ ~(N - k \in 1 .. Len(text))
    OBVIOUS
  <2> QED BY <1>4, <2>1
<1>6. buf[N - c - 1] = sign
  <2>1. N - c - 1 \in 1 .. N - 1 /\ N - (N - c - 1) = c + 1
    OBVIOUS
  <2>2. c + 1 \in 1 .. Len(text) <=> v < 0
    OBVIOUS
  <2> QED BY <1>4, <2>1, <2>2
<1>7. \A p \in 1 .. c : d[p] \in 0 .. 15 /\ buf[N - p] = HexChar(d[p])
  <2> TAKE p \in 1 .. c
  <2>1. N - p \in 1 .. N - 1 /\ N - (N - p) = p /\ p \in 1 .. Len(text)
    OBVIOUS
  <2> QED BY <1>4, <2>1
<1>8. sign \in {Space, Plus, Minus}
  OBVIOUS
<1> HIDE DEF sign
<1> QED BY <1>2, <1>3, <1>5, <1>6, <1>7, <1>8 DEF Shape, sign, buf

(* What is written of an int: as many digits as the loop finds.            *)
StopsOf(b) == IF b = 10 THEN {0} ELSE {0, 10}
Written(b, v) == Count(b, StopsOf(b), Magnitude(v))
TextOf(b, v, N) == IF b = 10 THEN int_to_ascii(v, N) ELSE int_to_ascii_hex(v, N)

LEMMA WrittenTyped ==
  ASSUME NEW b \in Bases, NEW v \in Ints
  PROVE  /\ Written(b, v) \in 1 .. AllPlaces(b) /\ Written(b, v) \in 1 .. 10
         /\ v = 0 => Written(b, v) = 1
<1>1. Magnitude(v) \in Magnitudes /\ (v = 0 => Magnitude(v) = 0)
  BY MagnitudeTyped
<1>2. AllPlaces(b) \in 8 .. 10
  BY Powers
<1>3. Written(b, v) \in 1 .. AllPlaces(b)
  BY <1>1, CountShifts DEF Written
<1>4. ASSUME v = 0 PROVE Written(b, v) = 1
  <2>1. 0 \div b = 0
    BY DEF Bases
  <2> QED BY <1>1, <1>4, <2>1, CountShifts DEF Written
<1> QED BY <1>2, <1>3, <1>4

LEMMA TextShape ==
  ASSUME NEW b \in Bases, NEW v \in Ints, v # Least, NEW N \in Nat, N >= 13
  PROVE  LET c == Written(b, v)
         IN Shape(TextOf(b, v, N), N, Digs(b, Magnitude(v), c), c, IF v < 0 THEN Minus ELSE Space)
<1> DEFINE m == Magnitude(v)
           c == Written(b, v)
           d == Digs(b, m, c)
           written == [p \in 1 .. c |-> HexChar(d[p])]
           text == IF v < 0 THEN Append(written, Minus) ELSE written
<1>1. /\ m \in Magnitudes /\ v \in Int /\ (v = 0 <=> m = 0) /\ abs(v) = m /\ m \in Ints
      /\ c \in 1 .. AllPlaces(b) /\ c \in 0 .. AllPlaces(b) /\ c \in 1 .. 10 /\ (v = 0 => c = 1)
  BY MagnitudeTyped, WrittenTyped, Powers
<1>2. m >= 0
  BY <1>1, Powers
<1>3. \A p \in 1 .. c : d[p] = Dig(b, m, p) /\ d[p] \in 0 .. b - 1 /\ d[p] \in 0 .. 15
  BY <1>1, PartsAreSums
<1>4. TextOf(b, v, N) = Padded(text, N)
  <2>1. CASE v = 0
    <3>1. Dig(b, m, 1) = 0
      <4>1. 0 % b = 0
        BY DEF Bases
      <4> QED BY <1>1, <2>1, <4>1, DigShifts
    <3>2. d[1] = 0 /\ c = 1
      BY <1>1, <1>3, <2>1, <3>1
    <3>3. HexChar(0) = Zero
      BY DEF HexChar, Zero
    <3>4. written = <<Zero>>
      <4> HIDE DEF d, c
      <4> QED BY <3>2, <3>3
    <3>5. text = <<Zero>>
      BY <1>1, <2>1, <3>4
    <3> HIDE DEF text
    <3> QED BY <2>1, <3>5 DEF TextOf, int_to_ascii, int_to_ascii_hex
  <2>2. CASE v # 0
    <3>1. m # 0
      BY <1>1, <2>2
    <3>2. CASE b = 10
      <4> DEFINE digits == Digits[m]
      <4>1. digits = Spelt(10, {0}, m, Numbers)
        BY <1>1, <1>2, DigitsSpell
      <4>2. Count(10, {0}, m) = c
        BY <3>2 DEF Written, StopsOf
      <4>3. digits = [k \in 1 .. c |-> Numbers[Dig(10, m, k)]]
        BY <3>1, <4>1, <4>2 DEF Spelt
      <4>4. \A k \in 1 .. c : digits[k] + Zero = HexChar(d[k])
        <5> TAKE k \in 1 .. c
        <5>1. Dig(10, m, k) \in 0 .. 9 /\ d[k] = Dig(10, m, k)
          BY <1>3, <3>2
        <5>2. Numbers[Dig(10, m, k)] = Dig(10, m, k)
          BY <5>1, AlphabetsTyped
        <5>3. HexChar(Dig(10, m, k)) = Dig(10, m, k) + Zero
          BY <5>1 DEF HexChar
        <5> QED BY <4>3, <5>1, <5>2, <5>3
      <4>5. Len(digits) = c
        <5> HIDE DEF digits, c
        <5> QED BY <1>1, <4>3
      <4> HIDE DEF digits, c, d
      <4>6. [k \in 1 .. Len(digits) |-> digits[k] + Zero] = written
        BY <4>4, <4>5
      <4>7. int_to_ascii(v, N) = Padded(Signed(v, [k \in 1 .. Len(digits) |-> digits[k] + Zero]), N)
        BY <1>1, <2>2 DEF int_to_ascii, digits
      <4> HIDE DEF written
      <4> QED BY <3>2, <4>6, <4>7 DEF TextOf, Signed
    <3>3. CASE b = 16
      <4>1. HexDigits[m] = Spelt(16, {0, 10}, m, HexChars)
        BY <1>1, <1>2, DigitsSpell
      <4>2. Count(16, {0, 10}, m) = c
        BY <3>3 DEF Written, StopsOf
      <4>3. HexDigits[m] = [k \in 1 .. c |-> HexChars[Dig(16, m, k)]]
        BY <3>1, <4>1, <4>2 DEF Spelt
      <4>4. \A k \in 1 .. c : HexChars[Dig(16, m, k)] = HexChar(d[k])
        BY <1>3, <3>3, AlphabetsTyped
      <4> HIDE DEF c, d
      <4>5. HexDigits[m] = written
        BY <4>3, <4>4
      <4>6. int_to_ascii_hex(v, N) = Padded(Signed(v, HexDigits[m]), N)
        BY <1>1, <2>2 DEF int_to_ascii_hex
      <4> HIDE DEF written
      <4> QED BY <3>3, <4>5, <4>6 DEF TextOf, Signed
    <3> QED BY <3>2, <3>3 DEF Bases
  <2> QED BY <2>1, <2>2
<1> HIDE DEF m, c, d
<1>5. \A p \in 1 .. c : written[p] = HexChar(d[p]) /\ HexChar(d[p]) \in Int
  <2> TAKE p \in 1 .. c
  <2>1. \A x \in 0 .. 15 : HexChar(x) \in Int
    BY DEF HexChar, Zero, LetterA
  <2> QED BY <1>3, <2>1
<1>6. written \in Seq(Int) /\ Len(written) = c
  BY <1>1, <1>5
<1> HIDE DEF written
<1>7. \A p \in 1 .. c : d[p] \in 0 .. 15 /\ text[p] = HexChar(d[p])
  BY <1>1, <1>3, <1>5, <1>6
<1>8. Len(text) = (IF v < 0 THEN c + 1 ELSE c) /\ (v < 0 => text[c + 1] = Minus)
  BY <1>1, <1>6
<1>9. c \in Nat /\ c + 2 <= N
  BY <1>1
<1> HIDE DEF text
<1>10. Shape(Padded(text, N), N, d, c, IF v < 0 THEN Minus ELSE Space)
  BY <1>1, <1>7, <1>8, <1>9, PaddedShape
<1> QED BY <1>4, <1>10 DEF c, d, m

(* How it reads: as the lowest places of the number.                       *)
LEMMA TextReads ==
  ASSUME NEW b \in Bases, NEW v \in Ints, v # Least, NEW N \in Nat, N >= 13
  PROVE  LET c == Written(b, v)
             low == Magnitude(v) % Pow(b, c)
         IN /\ Reads(TextOf(b, v, N), b) = IF v < 0 THEN -low ELSE low
            /\ low \in Nat
<1> DEFINE m == Magnitude(v)
           c == Written(b, v)
           d == Digs(b, m, c)
           g == Parts(b, m, c)
           sign == IF v < 0 THEN Minus ELSE Space
           buf == TextOf(b, v, N)
<1>1. m \in Magnitudes /\ c \in 0 .. AllPlaces(b) /\ b \in Int
  BY MagnitudeTyped, WrittenTyped, Powers DEF Bases
<1>2. Shape(buf, N, d, c, sign)
  BY TextShape
<1>3. Horner(g, d, c, b) /\ g[1] = m % Pow(b, c)
  BY <1>1, PartsAreSums
<1>4. m % Pow(b, c) \in Nat
  <2>1. Pow(b, c) \in Nat \ {0} /\ m \in Nat
    BY <1>1, Powers
  <2> QED BY <2>1, DivMod
<1>5. sign = Minus <=> v < 0
  BY DEF Minus, Space
<1> HIDE DEF m, c, d, g, sign, buf
<1>6. Reads(buf, b) = IF sign = Minus THEN -g[1] ELSE g[1]
  BY <1>1, <1>2, <1>3, ShapeReads
<1> QED BY <1>3, <1>4, <1>5, <1>6 DEF m, c, buf

(* A number without a digit that stops the loop is written to its last     *)
(* place.                                                                  *)
LEMMA ExactIsWhole ==
  ASSUME NEW b \in Bases, NEW v \in Ints, NEW stops, 0 \in stops, Exact(v, b, stops)
  PROVE  LET c == Count(b, stops, Magnitude(v))
         IN /\ Magnitude(v) % Pow(b, c) = Magnitude(v)
            /\ v # 0 => Dig(b, Magnitude(v), c) \notin stops
<1> DEFINE m == Magnitude(v)
           c == Count(b, stops, m)
<1>1. m \in Magnitudes /\ m \in Nat /\ (v = 0 <=> m = 0) /\ AllPlaces(b) \in 8 .. 10
  BY MagnitudeTyped, Powers
<1>2. \A k \in 0 .. AllPlaces(b) - 1 : ~(Pow(b, k) <= m /\ (m \div Pow(b, k)) % b \in stops)
  BY DEF Exact, Stops, Pow
<1>3. IsCount(b, stops, m, c)
  BY <1>1, CountIsFirst
<1> HIDE DEF m, c
<1>4. /\ c \in 1 .. AllPlaces(b) /\ Stopping(b, stops, m, c)
      /\ \A k \in 1 .. c - 1 : ~Stopping(b, stops, m, k)
  BY <1>3 DEF IsCount
<1>5. \A n \in 0 .. AllPlaces(b) : Pow(b, n) \in Nat \ {0}
  BY Powers
<1>6. ASSUME m # 0 PROVE Dig(b, m, c) \notin stops
  <2> SUFFICES ASSUME Dig(b, m, c) \in stops PROVE FALSE
    OBVIOUS
  <2>1. c - 1 \in 0 .. AllPlaces(b) - 1 /\ c - 1 \in 0 .. AllPlaces(b)
    BY <1>1, <1>4
  <2>2. ~(Pow(b, c - 1) <= m)
    BY <1>2, <2>1 DEF Dig
  <2>3. m \div Pow(b, c - 1) = 0
    <3>1. Pow(b, c - 1) \in Nat \ {0} /\ m < Pow(b, c - 1)
      BY <1>1, <1>5, <2>1, <2>2
    <3>2. Pow(b, c - 1) * 0 + m = m
      BY <1>1, <3>1
    <3> QED BY <1>1, <3>1, <3>2, DivModUnique
  <2>4. CASE c = 1
    <3>1. Pow(b, c - 1) = 1
      BY <2>4, Powers
    <3> QED BY <1>1, <1>6, <2>2, <3>1
  <2>5. CASE c # 1
    <3>1. c - 1 \in 1 .. c - 1
      BY <1>1, <1>4, <2>5
    <3> QED BY <1>4, <2>3, <3>1 DEF Stopping
  <2> QED BY <2>4, <2>5
<1>7. m % Pow(b, c) = m
  <2>1. Pow(b, c) \in Nat \ {0}
    BY <1>1, <1>4, <1>5
  <2>2. CASE m = 0
    BY <2>1, <2>2
  <2>3. CASE m # 0
    <3>1. m \div Pow(b, c) = 0
      BY <1>4, <1>6, <2>3 DEF Stopping
    <3> DEFINE q == Pow(b, c)
    <3> HIDE DEF q
    <3>2. q \in Nat \ {0} /\ m \div q = 0
      BY <2>1, <3>1 DEF q
    <3>3. m = q * (m \div q) + (m % q) /\ m % q \in 0 .. q - 1
      BY <1>1, <3>2, DivMod
    <3>4. m % q = m
      BY <1>1, <3>2, <3>3
    <3> QED BY <3>4 DEF q
  <2> QED BY <2>2, <2>3
<1> QED BY <1>1, <1>6, <1>7 DEF m, c

-----------------------------------------------------------------------------
(* The calls of the encoders.                                              *)
EncodeSpec == Init /\ [][EncodeNext]_vars

CallInv ==
    /\ call = "int_to_ascii" => value \in Ints /\ result = int_to_ascii(value, Length)
    /\ call = "int_to_ascii_hex" => value \in Ints /\ result = int_to_ascii_hex(value, Length)
    /\ call = "int_to_bcd" => value \in Ints /\ result = int_to_bcd(value)
    /\ call = "bcd_to_ascii" => value \in PackedDecimals /\ result = bcd_to_ascii(value)

LEMMA CallHolds == EncodeSpec => []CallInv
<1>1. Init => CallInv
  BY DEF Init, CallInv
<1>2. CallInv /\ [EncodeNext]_vars => CallInv'
  <2> SUFFICES ASSUME CallInv, [EncodeNext]_vars PROVE CallInv'
    OBVIOUS
  <2>1. CASE UNCHANGED vars
    BY <2>1 DEF vars, CallInv
  <2>2. ASSUME NEW v \in Values,
               \/ Call("int_to_ascii", v, int_to_ascii(v, Length))
               \/ Call("int_to_ascii_hex", v, int_to_ascii_hex(v, Length))
               \/ Call("int_to_bcd", v, int_to_bcd(v))
        PROVE  CallInv'
    <3>1. v \in Ints
      BY EncodeAssumption
    <3> QED BY <2>2, <3>1 DEF Call, CallInv
  <2>3. ASSUME NEW w \in Packed, Call("bcd_to_ascii", w, bcd_to_ascii(w))
        PROVE  CallInv'
    <3>1. w \in PackedDecimals
      BY EncodeAssumption
    <3> QED BY <2>3, <3>1 DEF Call, CallInv
  <2> QED BY <2>1, <2>2, <2>3 DEF EncodeNext
<1> QED BY <1>1, <1>2, PTL DEF EncodeSpec

(* What is written of any int but the least are the lowest places of the   *)
(* number, as many as are written (encode.c:97, 158).                      *)
LEMMA LowestOfText ==
  ASSUME NEW b \in Bases, NEW v \in Ints, v # Least, NEW N \in Nat, N >= 13
  PROVE  LET buf == TextOf(b, v, N)
         IN Magnitude(Reads(buf, b)) = Lowest(Magnitude(v), b, Len(buf) - FirstDigit(buf))
<1> DEFINE m == Magnitude(v)
           c == Written(b, v)
           buf == TextOf(b, v, N)
           low == m % Pow(b, c)
<1>1. m \in Magnitudes /\ m \in Nat /\ c \in 1 .. AllPlaces(b) /\ AllPlaces(b) \in 8 .. 10
  BY MagnitudeTyped, WrittenTyped, Powers
<1>2. Shape(buf, N, Digs(b, m, c), c, IF v < 0 THEN Minus ELSE Space)
  BY TextShape
<1>3. Reads(buf, b) = (IF v < 0 THEN -low ELSE low) /\ low \in Nat
  BY TextReads
<1> HIDE DEF m, c, buf
<1>4. Len(buf) - FirstDigit(buf) = c
  <2>1. FirstDigit(buf) = N - c
    BY <1>2, ShapeStarts
  <2>2. Len(buf) = N
    BY <1>2 DEF Shape
  <2> QED BY <1>1, <2>1, <2>2
<1>5. Magnitude(Reads(buf, b)) = low
  <2> HIDE DEF low
  <2> QED BY <1>3 DEF Magnitude
<1>6. Lowest(m, b, c) = low
  <2>1. CASE c < AllPlaces(b)
    BY <2>1 DEF Lowest, Pow
  <2>2. CASE ~(c < AllPlaces(b))
    <3>1. c = AllPlaces(b)
      BY <1>1, <2>2
    <3>2. m < Pow(b, c) /\ Pow(b, c) \in Nat \ {0}
      BY <1>1, <3>1, Powers
    <3>3. m % Pow(b, c) = m
      BY <1>1, <3>2
    <3> QED BY <2>2, <3>3 DEF Lowest
  <2> QED BY <2>1, <2>2
<1> QED BY <1>4, <1>5, <1>6 DEF m, buf

LEMMA LengthTyped == Length \in Nat /\ Length >= 13
BY EncodeAssumption

THEOREM NoWrongDigit == EncodeSpec => []LowestPlaces
<1>1. CallInv => LowestPlaces
  <2> SUFFICES ASSUME CallInv, NEW base \in {10, 16},
                      call = (IF base = 10 THEN "int_to_ascii" ELSE "int_to_ascii_hex"),
                      value # Least
               PROVE  LET places == Len(result) - FirstDigit(result)
                      IN Magnitude(Reads(result, base)) = Lowest(Magnitude(value), base, places)
    BY DEF LowestPlaces
  <2>1. value \in Ints /\ result = TextOf(base, value, Length)
    BY DEF CallInv, TextOf
  <2> QED BY <2>1, LowestOfText, LengthTyped DEF Bases
<1> QED BY <1>1, CallHolds, PTL

(* A number that has no digit the loop stops at is written as itself.      *)
LEMMA NumberOfText ==
  ASSUME NEW b \in Bases, NEW v \in Ints, Exact(v, b, StopsOf(b)), NEW N \in Nat, N >= 13
  PROVE  Canonical(TextOf(b, v, N), {Minus}, b) /\ Reads(TextOf(b, v, N), b) = v
<1> DEFINE m == Magnitude(v)
           c == Written(b, v)
           d == Digs(b, m, c)
           sign == IF v < 0 THEN Minus ELSE Space
           buf == TextOf(b, v, N)
<1>1. /\ m \in Magnitudes /\ m \in Nat /\ v \in Int /\ (v = 0 => c = 1) /\ v # Least
      /\ c \in 1 .. AllPlaces(b) /\ c \in 0 .. AllPlaces(b) /\ c \in 1 .. 10
  BY MagnitudeTyped, WrittenTyped, Powers DEF Exact
<1>2. m % Pow(b, c) = m /\ (v # 0 => Dig(b, m, c) # 0)
  <2>1. 0 \in StopsOf(b)
    BY DEF StopsOf
  <2> QED BY <2>1, ExactIsWhole DEF Written
<1>3. Reads(buf, b) = v
  <2>1. Reads(buf, b) = IF v < 0 THEN -m ELSE m
    BY <1>1, <1>2, TextReads
  <2> QED BY <1>1, <2>1 DEF Magnitude
<1>4. Shape(buf, N, d, c, sign)
  BY <1>1, TextShape
<1>5. \A p \in 1 .. c : d[p] = Dig(b, m, p) /\ d[p] \in 0 .. b - 1 /\ d[p] \in 0 .. 15
  BY <1>1, PartsAreSums
<1> HIDE DEF m, c, d, sign, buf
<1>6. /\ FirstDigit(buf) = N - c
      /\ Start(buf) = (IF sign = Space THEN N - c ELSE N - c - 1)
      /\ (sign # Space => buf[Start(buf)] = sign)
  BY <1>4, ShapeStarts
<1>7. Len(buf) = N /\ buf[N] = Nul /\ \A p \in 1 .. c : buf[N - p] = HexChar(d[p])
  BY <1>4 DEF Shape
<1>8. \A k \in FirstDigit(buf) .. Len(buf) - 1 : DigitOf(buf[k]) \in 0 .. b - 1
  <2> TAKE k \in FirstDigit(buf) .. Len(buf) - 1
  <2>1. N - k \in 1 .. c /\ N - (N - k) = k
    BY <1>1, <1>6, <1>7
  <2>2. d[N - k] \in 0 .. b - 1 /\ d[N - k] \in 0 .. 15
    BY <1>5, <2>1
  <2>3. buf[k] = HexChar(d[N - k])
    BY <1>7, <2>1
  <2>4. DigitOf(buf[k]) = d[N - k]
    BY <2>2, <2>3, CharsOfDigits
  <2> QED BY <2>2, <2>4
<1>9. FirstDigit(buf) <= Len(buf) - 1
  BY <1>1, <1>6, <1>7
<1>10. buf[FirstDigit(buf)] = Zero => FirstDigit(buf) = Len(buf) - 1
  <2> SUFFICES ASSUME buf[FirstDigit(buf)] = Zero PROVE c = 1
    BY <1>6, <1>7
  <2>1. c \in 1 .. c
    BY <1>1
  <2>2. HexChar(d[c]) = Zero
    BY <1>6, <1>7, <2>1
  <2>3. Dig(b, m, c) = 0
    BY <1>5, <2>1, <2>2, CharsOfDigits
  <2> QED BY <1>1, <1>2, <2>3
<1>11. buf[Start(buf)] \in {Minus} \/ FirstDigit(buf) = Start(buf)
  BY <1>6 DEF sign
<1> QED BY <1>3, <1>7, <1>8, <1>9, <1>10, <1>11 DEF Canonical, buf

(* ... right-justified, its sign next to it, blanks before it              *)
(* (encode.c:57).                                                          *)
THEOREM WrittenAsItself == EncodeSpec => []TextIsNumber
<1>1. CallInv => TextIsNumber
  <2> SUFFICES ASSUME CallInv PROVE TextIsNumber
    OBVIOUS
  <2>1. 10 \in Bases /\ 16 \in Bases /\ StopsOf(10) = {0} /\ StopsOf(16) = {0, 10}
    BY DEF Bases, StopsOf
  <2>2. ASSUME call = "int_to_ascii", Exact(value, 10, {0})
        PROVE  Canonical(result, {Minus}, 10) /\ Reads(result, 10) = value
    <3>1. value \in Ints /\ result = TextOf(10, value, Length)
      BY <2>2 DEF CallInv, TextOf
    <3> QED BY <2>1, <2>2, <3>1, NumberOfText, LengthTyped
  <2>3. ASSUME call = "int_to_ascii_hex", Exact(value, 16, {0, 10})
        PROVE  Canonical(result, {Minus}, 16) /\ Reads(result, 16) = value
    <3>1. value \in Ints /\ result = TextOf(16, value, Length)
      BY <2>3 DEF CallInv, TextOf
    <3> QED BY <2>1, <2>3, <3>1, NumberOfText, LengthTyped
  <2> QED BY <2>2, <2>3 DEF TextIsNumber
<1> QED BY <1>1, CallHolds, PTL

-----------------------------------------------------------------------------
(* Packed decimals, and their texts.                                       *)

(* The highest place that is not zero, or none.                            *)
IsHighest(w, h) == /\ h \in 0 .. 7
                   /\ \A p \in h + 1 .. 7 : w[p + 1] = 0
                   /\ h # 0 => w[h + 1] # 0

LEMMA HighestIs ==
  ASSUME NEW w
  PROVE  \E h : IsHighest(w, h)
<1> DEFINE S == {k \in 0 .. 7 : \A p \in k + 1 .. 7 : w[p + 1] = 0}
<1>1. S \subseteq Nat /\ 7 \in S
  OBVIOUS
<1>2. PICK h \in S : \A k \in S : h <= k
  <2> HIDE DEF S
  <2> QED BY <1>1, LeastNatural
<1>3. ASSUME h # 0, w[h + 1] = 0 PROVE FALSE
  <2>1. h - 1 \in 0 .. 7 /\ \A p \in (h - 1) + 1 .. 7 : p = h \/ p \in h + 1 .. 7
    BY <1>2, <1>3
  <2>2. h - 1 \in S
    BY <1>2, <1>3, <2>1
  <2>3. ~(h <= h - 1)
    BY <1>2
  <2> QED BY <1>2, <2>2, <2>3
<1> QED BY <1>2, <1>3 DEF IsHighest

Nonzero(w) == w[1] \in {12, 13} /\ \A k \in 2 .. 8 : w[k] \in 0 .. 9

LEMMA NotNibblesOfZero ==
  ASSUME NEW w, Nonzero(w)
  PROVE  w # Nibbles(0)
<1>1. Nibbles(0)[1] = (0 \div Pow(16, 1 - 1)) % 16
  BY DEF Nibbles, Pow
<1>2. Pow(16, 1 - 1) = 1
  BY PowersOfSixteen, SMT
<1>3. Nibbles(0)[1] = 0
  BY <1>1, <1>2
<1> QED BY <1>3 DEF Nonzero

LEMMA Joined ==
  ASSUME NEW X, NEW s \in Seq(X), NEW t \in Seq(X)
  PROVE  /\ s \o t \in Seq(X) /\ Len(s \o t) = Len(s) + Len(t)
         /\ \A k \in 1 .. Len(s) : (s \o t)[k] = s[k]
         /\ \A k \in 1 .. Len(t) : (s \o t)[Len(s) + k] = t[k]
<1>1. /\ s \o t \in Seq(X) /\ Len(s \o t) = Len(s) + Len(t)
      /\ \A k \in 1 .. Len(s) + Len(t) : (s \o t)[k] = IF k <= Len(s) THEN s[k] ELSE t[k - Len(s)]
  BY ConcatProperties
<1>2. \A k \in 1 .. Len(s) : k \in 1 .. Len(s) + Len(t) /\ k <= Len(s)
  OBVIOUS
<1>3. \A k \in 1 .. Len(t) : /\ Len(s) + k \in 1 .. Len(s) + Len(t) /\ ~(Len(s) + k <= Len(s))
                             /\ (Len(s) + k) - Len(s) = k
  OBVIOUS
<1> QED BY <1>1, <1>2, <1>3

LEMMA ListTyped ==
  ASSUME NEW X, NEW n \in Nat, NEW f, \A k \in 1 .. n : f[k] \in X
  PROVE  [k \in 1 .. n |-> f[k]] \in Seq(X) /\ Len([k \in 1 .. n |-> f[k]]) = n
OBVIOUS

(* The text before its zeros are stripped.                                 *)
Unstripped(w) ==
    <<IF w[1] = 13 THEN Minus ELSE Plus>> \o [k \in 1 .. 7 |-> w[9 - k] + Zero] \o <<Nul>>

LEMMA UnstrippedIs ==
  ASSUME NEW w, Nonzero(w)
  PROVE  /\ Unstripped(w) \in Seq(Int) /\ Len(Unstripped(w)) = 9
         /\ Unstripped(w)[1] = (IF w[1] = 13 THEN Minus ELSE Plus)
         /\ \A k \in 2 .. 8 : Unstripped(w)[k] = w[10 - k] + Zero
         /\ Unstripped(w)[9] = Nul
<1> DEFINE sign == IF w[1] = 13 THEN Minus ELSE Plus
           mid == [k \in 1 .. 7 |-> w[9 - k] + Zero]
           front == <<sign>> \o mid
<1>1. \A k \in 1 .. 7 : 9 - k \in 2 .. 8 /\ w[9 - k] + Zero \in Int
  BY DEF Nonzero, Zero
<1>2. mid = [k \in 1 .. 7 |-> mid[k]] /\ \A k \in 1 .. 7 : mid[k] = w[9 - k] + Zero
  OBVIOUS
<1>3. sign \in Int /\ Nul \in Int
  BY DEF Minus, Plus, Nul
<1> HIDE DEF sign, mid
<1>4. mid \in Seq(Int) /\ Len(mid) = 7
  <2>1. \A k \in 1 .. 7 : mid[k] \in Int
    BY <1>1, <1>2
  <2>2. [k \in 1 .. 7 |-> mid[k]] \in Seq(Int) /\ Len([k \in 1 .. 7 |-> mid[k]]) = 7
    BY <2>1, ListTyped
  <2> QED BY <1>2, <2>2
<1>5. /\ <<sign>> \in Seq(Int) /\ Len(<<sign>>) = 1 /\ <<sign>>[1] = sign
      /\ <<Nul>> \in Seq(Int) /\ Len(<<Nul>>) = 1 /\ <<Nul>>[1] = Nul
  BY <1>3
<1>6. /\ front \in Seq(Int) /\ Len(front) = 8 /\ front[1] = sign
      /\ \A k \in 1 .. 7 : front[1 + k] = mid[k]
  <2> DEFINE s == <<sign>>
  <2> HIDE DEF s
  <2>1. s \in Seq(Int) /\ Len(s) = 1 /\ s[1] = sign /\ front = s \o mid
    BY <1>5 DEF s
  <2> HIDE DEF front
  <2>2. /\ s \o mid \in Seq(Int) /\ Len(s \o mid) = Len(s) + Len(mid)
        /\ \A k \in 1 .. Len(s) : (s \o mid)[k] = s[k]
        /\ \A k \in 1 .. Len(mid) : (s \o mid)[Len(s) + k] = mid[k]
    <3>1. s \in Seq(Int) /\ mid \in Seq(Int)
      BY <1>4, <2>1
    <3> QED BY <3>1, Joined
  <2>3. (s \o mid)[1] = s[1]
    <3>1. 1 \in 1 .. Len(s)
      BY <2>1
    <3> QED BY <2>2, <3>1
  <2>4. Len(s \o mid) = 8 /\ \A k \in 1 .. 7 : (s \o mid)[1 + k] = mid[k]
    <3>1. Len(s) = 1 /\ Len(mid) = 7
      BY <1>4, <2>1
    <3>2. \A k \in 1 .. 7 : (s \o mid)[Len(s) + k] = mid[k]
      BY <2>2, <3>1, Zenon
    <3>3. Len(s \o mid) = Len(s) + Len(mid)
      BY <2>2, Zenon
    <3>4. Len(s \o mid) = 8
      BY <3>1, <3>3
    <3>5. \A k \in 1 .. 7 : (s \o mid)[1 + k] = mid[k]
      BY <3>1, <3>2, Zenon
    <3> QED BY <3>4, <3>5, Zenon
  <2> QED BY <2>1, <2>2, <2>3, <2>4, Zenon
<1> HIDE DEF front
<1>7. /\ front \o <<Nul>> \in Seq(Int) /\ Len(front \o <<Nul>>) = 9
      /\ \A k \in 1 .. 8 : (front \o <<Nul>>)[k] = front[k]
      /\ (front \o <<Nul>>)[9] = Nul
  <2> DEFINE t == <<Nul>>
  <2> HIDE DEF t
  <2>1. t \in Seq(Int) /\ Len(t) = 1 /\ t[1] = Nul
    BY <1>5 DEF t
  <2>2. /\ front \o t \in Seq(Int) /\ Len(front \o t) = Len(front) + Len(t)
        /\ \A k \in 1 .. Len(front) : (front \o t)[k] = front[k]
        /\ \A k \in 1 .. Len(t) : (front \o t)[Len(front) + k] = t[k]
    <3>1. front \in Seq(Int) /\ t \in Seq(Int)
      BY <1>6, <2>1
    <3> QED BY <3>1, Joined
  <2>3. (front \o t)[9] = t[1]
    <3>1. 1 \in 1 .. Len(t) /\ Len(front) + 1 = 9
      BY <1>6, <2>1
    <3> QED BY <2>2, <3>1
  <2>4. Len(front \o t) = 9 /\ \A k \in 1 .. 8 : (front \o t)[k] = front[k]
    <3>1. Len(front) = 8 /\ Len(t) = 1
      BY <1>6, <2>1
    <3>2. \A k \in 1 .. 8 : (front \o t)[k] = front[k]
      BY <2>2, <3>1, Zenon
    <3>3. Len(front \o t) = Len(front) + Len(t)
      BY <2>2, Zenon
    <3>4. Len(front \o t) = 9
      BY <3>1, <3>3
    <3> QED BY <3>2, <3>4, Zenon
  <2> QED BY <2>1, <2>2, <2>3, <2>4, Zenon DEF t
<1>8. Unstripped(w) = front \o <<Nul>>
  BY DEF Unstripped, front, sign, mid
<1>9. ASSUME NEW k \in 2 .. 8 PROVE front[k] = w[10 - k] + Zero
  <2>1. k - 1 \in 1 .. 7 /\ 9 - (k - 1) = 10 - k /\ 1 + (k - 1) = k
    OBVIOUS
  <2> QED BY <1>2, <1>6, <2>1
<1>10. (front \o <<Nul>>)[1] = sign
  BY <1>6, <1>7
<1>11. ASSUME NEW k \in 2 .. 8 PROVE (front \o <<Nul>>)[k] = w[10 - k] + Zero
  <2>1. k \in 1 .. 8
    OBVIOUS
  <2> QED BY <1>7, <1>9, <2>1
<1> QED BY <1>7, <1>8, <1>10, <1>11 DEF sign

(* The sign moves in front of the highest digit that is not zero.          *)
LEMMA StrippedFrom ==
  ASSUME NEW w, Nonzero(w), NEW h, IsHighest(w, h)
  PROVE  FirstOther(Unstripped(w)) = 9 - h
<1> DEFINE buf == Unstripped(w)
           first == 9 - h
<1>1. h \in 0 .. 7 /\ first \in 2 .. 9
  BY DEF IsHighest
<1>2. /\ Len(buf) = 9 /\ buf[9] = Nul
      /\ \A k \in 2 .. 8 : buf[k] = w[10 - k] + Zero
  BY UnstrippedIs
<1> HIDE DEF buf
<1>3. buf[first] # Zero
  <2>1. CASE h = 0
    BY <1>2, <2>1 DEF Nul, Zero
  <2>2. CASE h # 0
    <3>1. first \in 2 .. 8 /\ 10 - first = h + 1 /\ h + 1 \in 2 .. 8
      BY <1>1, <2>2
    <3>2. buf[first] = w[h + 1] + Zero /\ w[h + 1] # 0 /\ w[h + 1] \in 0 .. 9
      BY <1>2, <2>2, <3>1 DEF IsHighest, Nonzero
    <3> QED BY <3>2 DEF Zero
  <2> QED BY <2>1, <2>2
<1>4. \A j \in 2 .. first - 1 : buf[j] = Zero
  <2> TAKE j \in 2 .. first - 1
  <2>1. j \in 2 .. 8 /\ 9 - j \in h + 1 .. 7 /\ (9 - j) + 1 = 10 - j
    BY <1>1
  <2>2. w[10 - j] = 0
    BY <2>1 DEF IsHighest
  <2> QED BY <1>2, <2>1, <2>2 DEF Zero
<1> HIDE DEF first
<1>5. \A i \in 2 .. Len(buf) : buf[i] # Zero /\ (\A j \in 2 .. i - 1 : buf[j] = Zero) => i = first
  <2> TAKE i \in 2 .. Len(buf)
  <2>1. i < first => i \in 2 .. first - 1
    BY <1>1, <1>2
  <2>2. first < i => first \in 2 .. i - 1
    BY <1>1, <1>2
  <2>3. i < first \/ first < i \/ i = first
    BY <1>1, <1>2
  <2> QED BY <1>3, <1>4, <2>1, <2>2, <2>3
<1>6. first \in 2 .. Len(buf)
  BY <1>1, <1>2
<1>7. FirstOther(buf) = first
  BY <1>3, <1>4, <1>5, <1>6 DEF FirstOther
<1> QED BY <1>7 DEF buf, first

LEMMA PackedShape ==
  ASSUME NEW w, Nonzero(w), NEW h, IsHighest(w, h), NEW d,
         \A p \in 1 .. h : d[p] = w[p + 1]
  PROVE  Shape(bcd_to_ascii(w), 9, d, h, IF w[1] = 13 THEN Minus ELSE Plus)
<1> DEFINE sign == IF w[1] = 13 THEN Minus ELSE Plus
           raw == Unstripped(w)
           strip == zeroStrip(raw)
           buf == spacePad(strip)
<1>1. bcd_to_ascii(w) = buf
  BY NotNibblesOfZero DEF bcd_to_ascii, Unstripped
<1>2. /\ Len(raw) = 9 /\ raw[1] = sign /\ raw[9] = Nul
      /\ \A k \in 2 .. 8 : raw[k] = w[10 - k] + Zero
  BY UnstrippedIs
<1>3. h \in 0 .. 7 /\ FirstOther(raw) = 9 - h
  BY StrippedFrom DEF IsHighest
<1> HIDE DEF raw
<1>4. strip = [k \in 1 .. 9 |-> CASE k < 8 - h -> Nul
                                  [] k = 8 - h -> raw[1]
                                  [] OTHER -> raw[k]]
  <2>1. (9 - h) - 1 = 8 - h
    BY <1>3
  <2> QED BY <1>2, <1>3, <2>1 DEF zeroStrip
<1>5. Len(strip) = 9
  <2> HIDE DEF strip
  <2>1. strip = [k \in 1 .. 9 |-> strip[k]]
    BY <1>4
  <2> QED BY <2>1
<1>6. /\ \A k \in 1 .. 9 : k < 8 - h => strip[k] = Nul
      /\ 8 - h \in 1 .. 9 /\ strip[8 - h] = sign
      /\ \A k \in 1 .. 9 : k > 8 - h => strip[k] = raw[k]
  <2> HIDE DEF strip
  <2>1. 8 - h \in 1 .. 9 /\ \A k \in 1 .. 9 : k > 8 - h => ~(k < 8 - h) /\ k # 8 - h
    BY <1>3
  <2>2. ~(8 - h < 8 - h)
    BY <1>3
  <2> QED BY <1>2, <1>4, <2>1, <2>2
<1> HIDE DEF strip
<1>7. buf = [k \in 1 .. 9 |-> IF k <= 7 /\ strip[k] = Nul THEN Space ELSE strip[k]]
  BY <1>5 DEF spacePad
<1> HIDE DEF buf
<1>8. Len(buf) = 9
  <2>1. buf = [k \in 1 .. 9 |-> buf[k]]
    BY <1>7
  <2> QED BY <2>1
<1>9. \A k \in 1 .. 9 - h - 2 : buf[k] = Space
  <2> TAKE k \in 1 .. 9 - h - 2
  <2>1. k \in 1 .. 9 /\ k < 8 - h /\ k <= 7
    BY <1>3
  <2> QED BY <1>6, <1>7, <2>1
<1>10. buf[9 - h - 1] = sign
  <2>1. 9 - h - 1 = 8 - h
    BY <1>3
  <2>2. sign # Nul
    BY DEF Minus, Plus, Nul
  <2> QED BY <1>6, <1>7, <2>1, <2>2
<1>11. \A p \in 1 .. h : d[p] \in 0 .. 15 /\ buf[9 - p] = HexChar(d[p])
  <2> TAKE p \in 1 .. h
  <2>1. /\ 9 - p \in 1 .. 9 /\ 9 - p > 8 - h /\ 9 - p \in 2 .. 8 /\ 10 - (9 - p) = p + 1
        /\ p + 1 \in 2 .. 8
    BY <1>3
  <2>2. d[p] = w[p + 1] /\ w[p + 1] \in 0 .. 9
    BY <2>1 DEF Nonzero
  <2>3. strip[9 - p] = w[p + 1] + Zero
    BY <1>2, <1>6, <2>1
  <2>4. strip[9 - p] # Nul
    BY <2>2, <2>3 DEF Zero, Nul
  <2>5. buf[9 - p] = strip[9 - p]
    BY <1>7, <2>1, <2>4
  <2>6. HexChar(d[p]) = d[p] + Zero /\ d[p] \in 0 .. 15
    BY <2>2 DEF HexChar
  <2> QED BY <2>2, <2>3, <2>5, <2>6
<1>12. buf[9] = Nul
  <2>1. 9 \in 1 .. 9 /\ 9 > 8 - h /\ ~(9 <= 7)
    BY <1>3
  <2> QED BY <1>2, <1>6, <1>7, <2>1
<1>13. 9 \in Nat /\ h \in Nat /\ h + 2 <= 9 /\ sign \in {Space, Plus, Minus}
  BY <1>3
<1> HIDE DEF sign
<1>14. Shape(buf, 9, d, h, sign)
  BY <1>8, <1>9, <1>10, <1>11, <1>12, <1>13 DEF Shape
<1> QED BY <1>1, <1>14 DEF sign

(* The number a packed decimal stands for, from the left and from the      *)
(* right.                                                                  *)
Weighed(w) == [p \in 1 .. 8 |->
    CASE p = 8 -> 0
      [] p = 7 -> w[8]
      [] p = 6 -> w[7] + 10 * w[8]
      [] p = 5 -> w[6] + 10 * w[7] + 100 * w[8]
      [] p = 4 -> w[5] + 10 * w[6] + 100 * w[7] + 1000 * w[8]
      [] p = 3 -> w[4] + 10 * w[5] + 100 * w[6] + 1000 * w[7] + 10000 * w[8]
      [] p = 2 -> w[3] + 10 * w[4] + 100 * w[5] + 1000 * w[6] + 10000 * w[7] + 100000 * w[8]
      [] p = 1 -> w[2] + 10 * w[3] + 100 * w[4] + 1000 * w[5] + 10000 * w[6]
                     + 100000 * w[7] + 1000000 * w[8]]

LEMMA WeighedSteps ==
  ASSUME NEW w, Nonzero(w)
  PROVE  /\ \A p \in 1 .. 8 : Weighed(w)[p] \in Int
         /\ Weighed(w)[8] = 0
         /\ \A p \in 1 .. 7 : Weighed(w)[p] = Weighed(w)[p + 1] * 10 + w[p + 1]
<1>1. /\ w[2] \in Int /\ w[3] \in Int /\ w[4] \in Int /\ w[5] \in Int
      /\ w[6] \in Int /\ w[7] \in Int /\ w[8] \in Int
  BY DEF Nonzero
<1>2. \A p \in 1 .. 8 : Weighed(w)[p] \in Int
  BY <1>1, SMT DEF Weighed
<1>3. Weighed(w)[8] = 0
  BY SMT DEF Weighed
<1>4. \A p \in 1 .. 7 : Weighed(w)[p] = Weighed(w)[p + 1] * 10 + w[p + 1]
  <2>1. Weighed(w)[1] = Weighed(w)[2] * 10 + w[2]
    BY <1>1, SMT DEF Weighed
  <2>2. Weighed(w)[2] = Weighed(w)[3] * 10 + w[3]
    BY <1>1, SMT DEF Weighed
  <2>3. Weighed(w)[3] = Weighed(w)[4] * 10 + w[4]
    BY <1>1, SMT DEF Weighed
  <2>4. Weighed(w)[4] = Weighed(w)[5] * 10 + w[5]
    BY <1>1, SMT DEF Weighed
  <2>5. Weighed(w)[5] = Weighed(w)[6] * 10 + w[6]
    BY <1>1, SMT DEF Weighed
  <2>6. Weighed(w)[6] = Weighed(w)[7] * 10 + w[7]
    BY <1>1, SMT DEF Weighed
  <2>7. Weighed(w)[7] = Weighed(w)[8] * 10 + w[8]
    BY <1>1, SMT DEF Weighed
  <2> QED BY <2>1, <2>2, <2>3, <2>4, <2>5, <2>6, <2>7
<1> QED BY <1>2, <1>3, <1>4

(* Above the highest place nothing is left.                                *)
LEMMA WeighedAbove ==
  ASSUME NEW w, Nonzero(w), NEW h, IsHighest(w, h)
  PROVE  Weighed(w)[h + 1] = 0
<1> DEFINE S == {k \in 0 .. 7 - h : Weighed(w)[8 - k] # 0}
<1>1. h \in 0 .. 7 /\ \A p \in h + 1 .. 7 : w[p + 1] = 0
  BY DEF IsHighest
<1>2. ASSUME S # {} PROVE FALSE
  <2>1. S \subseteq Nat
    BY <1>1
  <2>2. PICK k \in S : \A j \in S : k <= j
    <3> HIDE DEF S
    <3> QED BY <1>2, <2>1, LeastNatural
  <2>3. k # 0
    BY <2>2, WeighedSteps
  <2>4. /\ k - 1 \in 0 .. 7 - h /\ ~(k <= k - 1) /\ 8 - k \in 1 .. 7 /\ 8 - k \in h + 1 .. 7
        /\ (8 - k) + 1 = 8 - (k - 1)
    BY <1>1, <2>2, <2>3
  <2>5. Weighed(w)[8 - (k - 1)] = 0
    BY <2>2, <2>4
  <2>6. Weighed(w)[8 - k] = Weighed(w)[8 - (k - 1)] * 10 + w[(8 - k) + 1]
    BY <2>4, WeighedSteps
  <2>7. w[(8 - k) + 1] = 0
    BY <1>1, <2>4
  <2>8. Weighed(w)[8 - k] = 0
    BY <2>5, <2>6, <2>7
  <2> QED BY <2>2, <2>8
<1>3. 7 - h \in 0 .. 7 - h /\ 8 - (7 - h) = h + 1
  BY <1>1
<1> QED BY <1>2, <1>3

PlaceTurns(w, f) == [k \in 1 .. 8 |-> IF k = 1 THEN 0 ELSE f[k - 1] + w[k] * Pow(10, k - 2)]
PlaceSums(w) == CHOOSE f : f = PlaceTurns(w, f)

LEMMA PlacesAdd ==
  ASSUME NEW w, Nonzero(w)
  PROVE  PlaceSums(w)[8] = Weighed(w)[1]
<1> DEFINE e == [k \in 1 .. 8 |->
    CASE k = 1 -> 0
      [] k = 2 -> w[2]
      [] k = 3 -> w[2] + 10 * w[3]
      [] k = 4 -> w[2] + 10 * w[3] + 100 * w[4]
      [] k = 5 -> w[2] + 10 * w[3] + 100 * w[4] + 1000 * w[5]
      [] k = 6 -> w[2] + 10 * w[3] + 100 * w[4] + 1000 * w[5] + 10000 * w[6]
      [] k = 7 -> w[2] + 10 * w[3] + 100 * w[4] + 1000 * w[5] + 10000 * w[6] + 100000 * w[7]
      [] k = 8 -> Weighed(w)[1]]
           f == PlaceSums(w)
<1>1. /\ w[2] \in Int /\ w[3] \in Int /\ w[4] \in Int /\ w[5] \in Int
      /\ w[6] \in Int /\ w[7] \in Int /\ w[8] \in Int
  BY DEF Nonzero
<1>2. Weighed(w)[1] = w[2] + 10 * w[3] + 100 * w[4] + 1000 * w[5] + 10000 * w[6]
                         + 100000 * w[7] + 1000000 * w[8]
  BY SMT DEF Weighed
<1>3. /\ Pow(10, 2 - 2) = 1 /\ Pow(10, 3 - 2) = 10 /\ Pow(10, 4 - 2) = 100
      /\ Pow(10, 5 - 2) = 1000 /\ Pow(10, 6 - 2) = 10000 /\ Pow(10, 7 - 2) = 100000
      /\ Pow(10, 8 - 2) = 1000000
  BY PowersOfTen, SMT
<1>4. \A k \in 1 .. 8 : e[k] = IF k = 1 THEN 0 ELSE e[k - 1] + w[k] * Pow(10, k - 2)
  BY <1>1, <1>2, <1>3, SMT
<1>5. e = [k \in 1 .. 8 |-> e[k]]
  BY SMT
<1>6. e[8] = Weighed(w)[1]
  BY SMT
<1> HIDE DEF e
<1>7. e = PlaceTurns(w, e)
  BY <1>4, <1>5 DEF PlaceTurns
<1>8. f = PlaceTurns(w, f)
  BY <1>7 DEF PlaceSums
<1> HIDE DEF f
<1>9. \A k \in 1 .. 8 : f[k] = IF k = 1 THEN 0 ELSE f[k - 1] + w[k] * Pow(10, k - 2)
  BY <1>8 DEF PlaceTurns
<1>10. ASSUME {k \in 1 .. 8 : f[k] # e[k]} # {} PROVE FALSE
  <2> DEFINE Wrong == {k \in 1 .. 8 : f[k] # e[k]}
  <2>1. Wrong \subseteq Nat
    OBVIOUS
  <2>2. PICK k \in Wrong : \A j \in Wrong : k <= j
    <3>1. Wrong # {}
      BY <1>10
    <3> HIDE DEF Wrong
    <3> QED BY <2>1, <3>1, LeastNatural
  <2>3. k # 1
    BY <1>4, <1>9, <2>2
  <2>4. k - 1 \in 1 .. 8 /\ ~(k <= k - 1)
    BY <2>2, <2>3
  <2>5. f[k - 1] = e[k - 1]
    BY <2>2, <2>4
  <2> QED BY <1>4, <1>9, <2>2, <2>5
<1>11. f[8] = e[8]
  <2>1. 8 \in 1 .. 8
    OBVIOUS
  <2> QED BY <1>10, <2>1
<1> QED BY <1>6, <1>11 DEF f

LEMMA PackedTyped ==
  ASSUME NEW w \in PackedDecimals
  PROVE  Nonzero(w)
<1>1. w \in Seq(0 .. 15) /\ Len(w) = 8 /\ w[1] \in {12, 13} /\ \A k \in 2 .. 8 : w[k] <= 9
  BY DEF PackedDecimals
<1>2. \A k \in 2 .. 8 : w[k] \in 0 .. 15
  <2> TAKE k \in 2 .. 8
  <2>1. k \in 1 .. Len(w)
    BY <1>1
  <2> QED BY <1>1, <2>1, ElementOfSeq
<1>3. \A k \in 2 .. 8 : w[k] \in 0 .. 9
  BY <1>1, <1>2
<1> QED BY <1>1, <1>3 DEF Nonzero

(* What a packed decimal's text is.                                        *)
LEMMA TextOfPacked ==
  ASSUME NEW w \in PackedDecimals, NEW n \in 2 .. 8, w[n] # 0
  PROVE  LET buf == bcd_to_ascii(w)
         IN /\ Len(buf) = 9
            /\ Canonical(buf, {Plus, Minus}, 10)
            /\ buf[Start(buf)] \in {Plus, Minus}
            /\ Reads(buf, 10) = IF w[1] = 13 THEN -(PlaceSums(w)[8]) ELSE PlaceSums(w)[8]
<1>1. Nonzero(w)
  BY PackedTyped
<1>2. PICK h : IsHighest(w, h)
  BY HighestIs
<1>3. h \in 1 .. 7 /\ w[h + 1] # 0 /\ \A p \in 1 .. h : w[p + 1] \in 0 .. 9
  <2>1. h \in 0 .. 7 /\ (\A p \in h + 1 .. 7 : w[p + 1] = 0) /\ (h # 0 => w[h + 1] # 0)
    BY <1>2 DEF IsHighest
  <2>2. h # 0
    <3>1. n - 1 \in 1 .. 7 /\ (n - 1) + 1 = n
      OBVIOUS
    <3> QED BY <2>1, <3>1
  <2>3. \A p \in 1 .. h : p + 1 \in 2 .. 8
    BY <2>1
  <2> QED BY <1>1, <2>1, <2>2, <2>3 DEF Nonzero
<1> DEFINE d == [p \in 1 .. h |-> w[p + 1]]
           sign == IF w[1] = 13 THEN Minus ELSE Plus
           buf == bcd_to_ascii(w)
           g == Weighed(w)
<1>4. \A p \in 1 .. h : d[p] = w[p + 1]
  OBVIOUS
<1> HIDE DEF d
<1>5. Shape(buf, 9, d, h, sign)
  BY <1>1, <1>2, <1>4, PackedShape
<1>6. Horner(g, d, h, 10)
  <2>1. \A p \in 1 .. h + 1 : p \in 1 .. 8
    BY <1>3
  <2>2. \A p \in 1 .. h : p \in 1 .. 7
    BY <1>3
  <2>3. g[h + 1] = 0
    BY <1>1, <1>2, WeighedAbove
  <2>4. /\ \A p \in 1 .. 8 : g[p] \in Int
        /\ \A p \in 1 .. 7 : g[p] = g[p + 1] * 10 + w[p + 1]
    BY <1>1, WeighedSteps
  <2> HIDE DEF g
  <2> QED BY <1>4, <2>1, <2>2, <2>3, <2>4 DEF Horner
<1>7. sign \in {Plus, Minus} /\ sign # Space /\ (sign = Minus <=> w[1] = 13)
  BY DEF Plus, Minus, Space
<1> HIDE DEF sign, buf, g
<1>8. Reads(buf, 10) = IF sign = Minus THEN -g[1] ELSE g[1]
  <2>1. 10 \in Int
    OBVIOUS
  <2> QED BY <1>5, <1>6, <2>1, ShapeReads
<1>9. g[1] = PlaceSums(w)[8]
  BY <1>1, PlacesAdd DEF g
<1>10. FirstDigit(buf) = 9 - h /\ buf[Start(buf)] = sign
  BY <1>5, <1>7, ShapeStarts
<1>11. Len(buf) = 9 /\ buf[9] = Nul /\ \A p \in 1 .. h : buf[9 - p] = HexChar(d[p])
  BY <1>5 DEF Shape
<1>12. \A k \in FirstDigit(buf) .. Len(buf) - 1 : DigitOf(buf[k]) \in 0 .. 10 - 1 /\ buf[k] = HexChar(w[10 - k])
  <2> TAKE k \in FirstDigit(buf) .. Len(buf) - 1
  <2>1. 9 - k \in 1 .. h /\ 9 - (9 - k) = k /\ (9 - k) + 1 = 10 - k
    BY <1>3, <1>10, <1>11
  <2>2. d[9 - k] = w[10 - k] /\ w[10 - k] \in 0 .. 9
    BY <1>3, <1>4, <2>1
  <2>3. buf[k] = HexChar(w[10 - k])
    BY <1>11, <2>1, <2>2
  <2>4. w[10 - k] \in 0 .. 15 /\ w[10 - k] \in 0 .. 10 - 1
    BY <2>2
  <2> QED BY <2>3, <2>4, CharsOfDigits
<1>13. buf[FirstDigit(buf)] # Zero
  <2>1. 9 - h \in FirstDigit(buf) .. Len(buf) - 1 /\ 10 - (9 - h) = h + 1 /\ h \in 1 .. h
    BY <1>3, <1>10, <1>11
  <2>2. w[h + 1] \in 0 .. 15
    BY <1>3, <2>1
  <2> QED BY <1>3, <1>10, <1>12, <2>1, <2>2, CharsOfDigits
<1>14. FirstDigit(buf) <= Len(buf) - 1
  BY <1>3, <1>10, <1>11
<1>15. Canonical(buf, {Plus, Minus}, 10)
  BY <1>7, <1>10, <1>11, <1>12, <1>13, <1>14 DEF Canonical
<1> QED BY <1>7, <1>8, <1>9, <1>10, <1>11, <1>15 DEF buf

(* Every packed decimal but zero is written without leading zeros, its     *)
(* sign next to it, in nine places, and reads as what it stands for        *)
(* (encode.c:349, 370).                                                    *)
THEOREM PackedIsText == EncodeSpec => []PackedText
<1>1. CallInv => PackedText
  <2> SUFFICES ASSUME CallInv, call = "bcd_to_ascii", NEW n \in 2 .. 8, value[n] # 0
               PROVE  /\ Len(result) = 9
                      /\ Canonical(result, {Plus, Minus}, 10)
                      /\ result[Start(result)] \in {Plus, Minus}
                      /\ Reads(result, 10) = IF value[1] = 13 THEN -(PlaceSums(value)[8])
                                             ELSE PlaceSums(value)[8]
    BY DEF PackedText, PlaceSums, PlaceTurns, Pow
  <2>1. value \in PackedDecimals /\ result = bcd_to_ascii(value)
    BY DEF CallInv
  <2> QED BY <2>1, TextOfPacked
<1> QED BY <1>1, CallHolds, PTL

(* What int_to_bcd() makes of a number of at most seven digits.            *)
LEMMA PackingIs ==
  ASSUME NEW v \in Ints, v # 0, v # Least, NEW limit \in Nat, ~(Magnitude(v) > limit),
         Magnitude(v) < Pow(10, 7)
  PROVE  LET w == Packing(v, limit)
             c == Count(10, {0}, Magnitude(v))
         IN /\ w \in PackedDecimals /\ (w[1] = 13 <=> v < 0)
            /\ c \in 1 .. 7
            /\ \A p \in 1 .. 7 : w[p + 1] = IF p <= c THEN Dig(10, Magnitude(v), p) ELSE 0
<1> DEFINE w == Packing(v, limit)
           m == Magnitude(v)
           c == Count(10, {0}, m)
           digits == Digits[m]
<1>1. /\ m \in Magnitudes /\ m \in Nat /\ m # 0 /\ v \in Int /\ abs(v) = m /\ m \in Ints /\ m >= 0
      /\ 10 \in Bases /\ AllPlaces(10) = 10
  BY MagnitudeTyped, Powers DEF Bases, AllPlaces
<1>2. IsCount(10, {0}, m, c)
  BY <1>1, CountIsFirst
<1> HIDE DEF c, m
<1>3. c \in 1 .. 10 /\ \A k \in 1 .. c - 1 : ~Stopping(10, {0}, m, k)
  BY <1>1, <1>2 DEF IsCount
<1>4. Stopping(10, {0}, m, 7)
  <2> DEFINE q == Pow(10, 7)
  <2>1. q \in Nat \ {0} /\ m < q
    BY <1>1, Powers DEF m
  <2> HIDE DEF q
  <2>2. q * 0 + m = m
    BY <1>1, <2>1
  <2>3. m \div q = 0
    BY <1>1, <2>1, <2>2, DivModUnique
  <2> QED BY <2>3 DEF q, Stopping
<1>5. c \in 1 .. 7
  <2>1. c > 7 => 7 \in 1 .. c - 1
    BY <1>3
  <2> QED BY <1>3, <1>4, <2>1
<1>6. \A p \in 1 .. c : Dig(10, m, p) \in 0 .. 9
  <2> TAKE p \in 1 .. c
  <2>1. p \in 1 .. AllPlaces(10)
    BY <1>1, <1>5
  <2>2. Dig(10, m, p) \in 0 .. 10 - 1
    BY <1>1, <2>1, DigTyped
  <2> QED BY <2>2
<1>7. digits = [k \in 1 .. c |-> Numbers[Dig(10, m, k)]]
  <2>1. digits = Spelt(10, {0}, m, Numbers)
    BY <1>1, DigitsSpell
  <2> QED BY <1>1, <2>1 DEF Spelt, c
<1>8. Len(digits) = c /\ \A k \in 1 .. c : digits[k] = Dig(10, m, k)
  <2> HIDE DEF digits
  <2>1. Len(digits) = c
    BY <1>5, <1>7
  <2>2. \A k \in 1 .. c : Dig(10, m, k) \in 0 .. 15
    BY <1>6
  <2> QED BY <1>7, <2>1, <2>2, AlphabetsTyped
<1>9. w = [k \in 1 .. 8 |-> CASE k = 1 -> IF v > 0 THEN 12 ELSE 13
                              [] k - 1 \in 1 .. Len(digits) -> digits[k - 1]
                              [] OTHER -> 0]
  BY <1>1 DEF Packing, m
<1> HIDE DEF w, digits
<1>10. w[1] = (IF v > 0 THEN 12 ELSE 13) /\ (v > 0 \/ v < 0)
  BY <1>1, <1>9
<1>11. \A p \in 1 .. 7 : w[p + 1] = IF p <= c THEN Dig(10, m, p) ELSE 0
  <2> TAKE p \in 1 .. 7
  <2>1. p + 1 \in 1 .. 8 /\ p + 1 # 1 /\ (p + 1) - 1 = p
    OBVIOUS
  <2>2. w[p + 1] = CASE p \in 1 .. Len(digits) -> digits[p] [] OTHER -> 0
    BY <1>9, <2>1
  <2>3. p \in 1 .. Len(digits) <=> p <= c
    BY <1>5, <1>8
  <2> QED BY <1>5, <1>8, <2>2, <2>3
<1>12. \A k \in 2 .. 8 : w[k] \in 0 .. 9
  <2> TAKE k \in 2 .. 8
  <2>1. k - 1 \in 1 .. 7 /\ (k - 1) + 1 = k
    OBVIOUS
  <2>2. k - 1 <= c => Dig(10, m, k - 1) \in 0 .. 9
    BY <1>6
  <2> QED BY <1>11, <2>1, <2>2
<1>13. w \in PackedDecimals
  <2>1. \A k \in 1 .. 8 : w[k] \in 0 .. 15
    <3> TAKE k \in 1 .. 8
    <3>1. k = 1 \/ k \in 2 .. 8
      OBVIOUS
    <3> QED BY <1>10, <1>12, <3>1
  <2>2. w = [k \in 1 .. 8 |-> w[k]]
    BY <1>9
  <2>3. [k \in 1 .. 8 |-> w[k]] \in Seq(0 .. 15) /\ Len([k \in 1 .. 8 |-> w[k]]) = 8
    BY <2>1, ListTyped
  <2>4. w \in Seq(0 .. 15) /\ Len(w) = 8
    BY <2>2, <2>3
  <2>5. \A k \in 2 .. 8 : w[k] <= 9
    BY <1>12
  <2> QED BY <1>10, <2>4, <2>5 DEF PackedDecimals
<1>14. w[1] = 13 <=> v < 0
  BY <1>1, <1>10
<1> QED BY <1>5, <1>11, <1>13, <1>14 DEF w, c, m

(* The text of such a packed decimal.                                      *)
LEMMA TextOfPacking ==
  ASSUME NEW v \in Ints, v # 0, v # Least, NEW limit \in Nat, ~(Magnitude(v) > limit),
         Magnitude(v) < Pow(10, 7)
  PROVE  LET w == Packing(v, limit)
             text == bcd_to_ascii(w)
             places == Len(text) - FirstDigit(text)
         IN /\ w \in PackedDecimals
            /\ text[Start(text)] = IF v < 0 THEN Minus ELSE Plus
            /\ Magnitude(Reads(text, 10)) = Lowest(Magnitude(v), 10, places)
            /\ Exact(v, 10, {0}) => Reads(text, 10) = v
<1> DEFINE w == Packing(v, limit)
           m == Magnitude(v)
           c == Count(10, {0}, m)
           text == bcd_to_ascii(w)
           sign == IF w[1] = 13 THEN Minus ELSE Plus
<1>1. /\ w \in PackedDecimals /\ (w[1] = 13 <=> v < 0) /\ c \in 1 .. 7
      /\ \A p \in 1 .. 7 : w[p + 1] = IF p <= c THEN Dig(10, m, p) ELSE 0
  BY PackingIs
<1>2. m \in Magnitudes /\ m \in Nat /\ v \in Int /\ 10 \in Bases /\ AllPlaces(10) = 10
  BY MagnitudeTyped, Powers DEF Bases, AllPlaces
<1>3. Exact(v, 10, {0}) => m % Pow(10, c) = m /\ Dig(10, m, c) # 0
  <2>1. 0 \in {0}
    OBVIOUS
  <2> QED BY <1>2, <2>1, ExactIsWhole
<1>4. m = IF v < 0 THEN -v ELSE v
  BY DEF Magnitude
<1> HIDE DEF w, m, c
<1>5. Nonzero(w)
  BY <1>1, PackedTyped
<1>6. PICK h : IsHighest(w, h)
  BY HighestIs
<1>7. h \in 0 .. 7 /\ (\A p \in h + 1 .. 7 : w[p + 1] = 0) /\ (h # 0 => w[h + 1] # 0)
  BY <1>6 DEF IsHighest
<1>8. h \in 0 .. c /\ h \in 0 .. AllPlaces(10)
  <2>1. h # 0 => h \in 1 .. 7 /\ h <= c
    BY <1>1, <1>7
  <2> QED BY <1>1, <1>2, <1>7, <2>1
<1> DEFINE d == Digs(10, m, h)
           g == Parts(10, m, h)
           low == m % Pow(10, h)
<1>9. /\ \A p \in 1 .. h : d[p] = Dig(10, m, p)
      /\ Horner(g, d, h, 10) /\ g[1] = low
  BY <1>2, <1>8, PartsAreSums
<1>10. low \in Nat
  <2> DEFINE q == Pow(10, h)
  <2>1. q \in Nat \ {0}
    BY <1>2, <1>8, Powers
  <2> HIDE DEF q
  <2>2. m % q \in Nat
    BY <1>2, <2>1, DivMod
  <2> QED BY <2>2 DEF q
<1> HIDE DEF d, g
<1>11. \A p \in 1 .. h : d[p] = w[p + 1]
  <2> TAKE p \in 1 .. h
  <2>1. p \in 1 .. 7 /\ p <= c
    BY <1>1, <1>7, <1>8
  <2> QED BY <1>1, <1>9, <2>1
<1>12. Shape(text, 9, d, h, sign)
  BY <1>5, <1>6, <1>11, PackedShape
<1>13. sign = (IF v < 0 THEN Minus ELSE Plus) /\ sign # Space /\ (sign = Minus <=> v < 0)
  BY <1>1 DEF Plus, Minus, Space
<1> HIDE DEF text, sign
<1>14. Reads(text, 10) = IF sign = Minus THEN -g[1] ELSE g[1]
  <2>1. 10 \in Int
    OBVIOUS
  <2> QED BY <1>9, <1>12, <2>1, ShapeReads
<1>15. Len(text) - FirstDigit(text) = h /\ text[Start(text)] = sign
  <2>1. FirstDigit(text) = 9 - h /\ text[Start(text)] = sign
    BY <1>12, <1>13, ShapeStarts
  <2>2. Len(text) = 9
    BY <1>12 DEF Shape
  <2> QED BY <1>7, <2>1, <2>2
<1>16. Reads(text, 10) = IF v < 0 THEN -low ELSE low
  BY <1>9, <1>13, <1>14
<1>17. Magnitude(Reads(text, 10)) = Lowest(m, 10, h)
  <2>1. Lowest(m, 10, h) = low
    <3>1. h < AllPlaces(10)
      BY <1>2, <1>7
    <3> QED BY <3>1 DEF Lowest, Pow
  <2>2. Magnitude(Reads(text, 10)) = low
    <3> HIDE DEF low
    <3> QED BY <1>10, <1>16 DEF Magnitude
  <2> QED BY <2>1, <2>2
<1>18. ASSUME Exact(v, 10, {0}) PROVE Reads(text, 10) = v
  <2>1. h = c
    <3>1. w[c + 1] # 0
      <4>1. c <= c /\ c \in 1 .. 7
        BY <1>1
      <4> QED BY <1>1, <1>3, <1>18, <4>1
    <3>2. h < c => c \in h + 1 .. 7
      BY <1>1, <1>8
    <3> QED BY <1>1, <1>7, <1>8, <3>1, <3>2
  <2>2. low = m
    BY <1>3, <1>18, <2>1
  <2> QED BY <1>2, <1>4, <1>16, <2>2
<1> QED BY <1>1, <1>13, <1>15, <1>17, <1>18 DEF w, m, text

(* Any number within seven digits but zero becomes a packed decimal that   *)
(* reads as its sign and its lowest places, all of them when none is zero; *)
(* one that does not fit is returned as it is (encode.c:169, 370).         *)
THEOREM PackedAndBack == EncodeSpec => []PackedRoundTrip
<1> DEFINE most == 9999999
<1>1. most \in Nat
  BY SMT
<1>2. \A x \in Nat : ~(x > most) => x < Pow(10, 7)
  <2>1. Pow(10, 7) = 10000000
    BY PowersOfTen, SMT
  <2> QED BY <2>1, SMT
<1> HIDE DEF most
<1>3. \A v : int_to_bcd(v) = Packing(v, most)
  BY SMT DEF int_to_bcd, most
<1>4. ASSUME NEW v \in Ints, v # 0, v # Least
      PROVE  IF Magnitude(v) > most THEN int_to_bcd(v) = Nibbles(v)
             ELSE LET text == bcd_to_ascii(int_to_bcd(v))
                      places == Len(text) - FirstDigit(text)
                  IN /\ int_to_bcd(v) \in PackedDecimals
                     /\ text[Start(text)] = IF v < 0 THEN Minus ELSE Plus
                     /\ Magnitude(Reads(text, 10)) = Lowest(Magnitude(v), 10, places)
                     /\ Exact(v, 10, {0}) => Reads(text, 10) = v
  <2>1. Magnitude(v) \in Nat /\ abs(v) = Magnitude(v)
    BY <1>4, MagnitudeTyped, Powers, 10 \in Bases DEF Bases
  <2>2. CASE Magnitude(v) > most
    <3>1. Packing(v, most) = Nibbles(v)
      BY <1>4, <2>1, <2>2 DEF Packing
    <3> QED BY <1>3, <2>2, <3>1
  <2>3. CASE ~(Magnitude(v) > most)
    <3>1. Magnitude(v) < Pow(10, 7)
      BY <1>2, <2>1, <2>3
    <3> QED BY <1>1, <1>3, <1>4, <2>3, <3>1, TextOfPacking
  <2> QED BY <2>2, <2>3
<1>5. CallInv => PackedRoundTrip
  <2> SUFFICES ASSUME CallInv, call = "int_to_bcd", value \notin {0, Least}
               PROVE  IF Magnitude(value) > most THEN result = Nibbles(value)
                      ELSE LET text == bcd_to_ascii(result)
                               places == Len(text) - FirstDigit(text)
                           IN /\ result \in PackedDecimals
                              /\ text[Start(text)] = IF value < 0 THEN Minus ELSE Plus
                              /\ Magnitude(Reads(text, 10)) = Lowest(Magnitude(value), 10, places)
                              /\ Exact(value, 10, {0}) => Reads(text, 10) = value
    BY SMT DEF PackedRoundTrip, most
  <2>1. value \in Ints /\ value # 0 /\ value # Least /\ result = int_to_bcd(value)
    BY DEF CallInv
  <2> QED BY <1>4, <2>1
<1> QED BY <1>5, CallHolds, PTL

-----------------------------------------------------------------------------
(* Floats: the places of their last bits are powers of two.                *)
LEMMA PowersOfTwo ==
  /\ Pow(2, 0) = 1 /\ Pow(2, 1) = 2 /\ Pow(2, 2) = 4 /\ Pow(2, 3) = 8 /\ Pow(2, 4) = 16
  /\ Pow(2, 5) = 32 /\ Pow(2, 6) = 64 /\ Pow(2, 7) = 128 /\ Pow(2, 8) = 256 /\ Pow(2, 9) = 512
  /\ Pow(2, 10) = 1024 /\ Pow(2, 11) = 2048 /\ Pow(2, 12) = 4096 /\ Pow(2, 13) = 8192
  /\ Pow(2, 14) = 16384 /\ Pow(2, 15) = 32768 /\ Pow(2, 16) = 65536 /\ Pow(2, 17) = 131072
  /\ Pow(2, 18) = 262144 /\ Pow(2, 19) = 524288 /\ Pow(2, 20) = 1048576
  /\ Pow(2, 21) = 2097152 /\ Pow(2, 22) = 4194304 /\ Pow(2, 23) = 8388608
  /\ Pow(2, 24) = 16777216 /\ Pow(2, 25) = 33554432 /\ Pow(2, 26) = 67108864
  /\ Pow(2, 27) = 134217728 /\ Pow(2, 28) = 268435456 /\ Pow(2, 29) = 536870912
  /\ Pow(2, 30) = 1073741824
BY SMT DEF Pow

Small == {1, 2, 4, 8, 16, 32, 64}
Large == {128, 256, 512, 1024, 2048, 4096, 8192, 16384, 32768, 65536, 131072, 262144,
          524288, 1048576, 2097152, 4194304, 8388608, 16777216, 33554432, 67108864,
          134217728, 268435456, 536870912, 1073741824}
Places == Small \cup Large

(* A float has 24 bits.                                                    *)
Top == 16777216

(* The unit of a part, and 2^24, as numbers.                               *)
LEMMA UnitIs == Unit = 1073741824 /\ Unit \in Nat /\ Unit = Pow(2, 30) /\ Top = 16777216 /\ Top \in Nat
BY SMT DEF Unit, Pow, Top

(* The same without the numbers.                                           *)
LEMMA UnitTyped == Unit \in Nat \ {0} /\ Top \in Nat
BY UnitIs, SMT

(* A place divides a whole.                                                *)
LEMMA PlacesDivide ==
  ASSUME NEW w \in Places
  PROVE  /\ w \in Nat \ {0} /\ w <= Unit /\ Unit \div w \in Nat /\ w * (Unit \div w) = Unit
<1>1. CASE w \in Small
  BY <1>1, UnitIs, SMT DEF Small
<1>2. CASE w \in Large
  BY <1>2, UnitIs, SMT DEF Large
<1> QED BY <1>1, <1>2 DEF Places

(* The powers of two that places are.                                      *)
LEMMA TwoTyped ==
  /\ \A k \in 0 .. 30 : Pow(2, k) \in Nat \ {0} /\ Pow(2, k) \in Places
  /\ \A k \in 0 .. 6 : Pow(2, k) \in Small
  /\ \A k \in 1 .. 24 : Pow(2, k + 6) \in Large /\ Pow(2, k + 6) = 64 * Pow(2, k)
  /\ \A k \in 1 .. 30 : Pow(2, k) = 2 * Pow(2, k - 1)
  /\ \A k \in 25 .. 30 : Pow(2, k) = Top * Pow(2, k - 24)
  /\ \A k \in 0 .. 24 : Pow(2, k) <= Top
  /\ \A k \in 24 .. 30 : Top <= Pow(2, k)
<1>1. \A k \in 0 .. 30 : Pow(2, k) \in Nat \ {0} /\ Pow(2, k) \in Places
  BY PowersOfTwo, SMT DEF Places, Small, Large
<1>2. \A k \in 0 .. 6 : Pow(2, k) \in Small
  BY PowersOfTwo, SMT DEF Small
<1>3. \A k \in 1 .. 24 : Pow(2, k + 6) \in Large /\ Pow(2, k + 6) = 64 * Pow(2, k)
  BY PowersOfTwo, SMT DEF Large
<1>4. \A k \in 1 .. 30 : Pow(2, k) = 2 * Pow(2, k - 1)
  BY PowersOfTwo, SMT
<1>5. \A k \in 25 .. 30 : Pow(2, k) = Top * Pow(2, k - 24)
  BY PowersOfTwo, SMT DEF Top
<1>6. \A k \in 0 .. 24 : Pow(2, k) <= Top
  BY PowersOfTwo, SMT DEF Top
<1>7. \A k \in 24 .. 30 : Top <= Pow(2, k)
  BY PowersOfTwo, SMT DEF Top
<1> QED BY <1>1, <1>2, <1>3, <1>4, <1>5, <1>6, <1>7

(* How many bits a number has.                                             *)
LEMMA BitsAre ==
  ASSUME NEW n \in Nat, n < Unit
  PROVE  /\ Bits(n) \in 0 .. 30 /\ n < Pow(2, Bits(n))
         /\ Bits(n) = 0 \/ Pow(2, Bits(n) - 1) <= n
<1> DEFINE S == {b \in 0 .. 30 : n < Pow(2, b)}
<1>1. S \subseteq Nat /\ 30 \in S
  BY UnitIs
<1>2. PICK b \in S : \A x \in S : b <= x
  <2> HIDE DEF S
  <2> QED BY <1>1, LeastNatural
<1>3. b \in 0 .. 30 /\ n < Pow(2, b)
  BY <1>2
<1>4. b = 0 \/ Pow(2, b - 1) <= n
  <2> SUFFICES ASSUME b # 0 PROVE Pow(2, b - 1) <= n
    OBVIOUS
  <2>1. b - 1 \in 0 .. 30 /\ ~(b <= b - 1)
    BY <1>3
  <2>2. b - 1 \notin S
    BY <1>2, <2>1
  <2>3. Pow(2, b - 1) \in Nat
    BY <2>1, TwoTyped
  <2> QED BY <2>1, <2>2, <2>3
<1>5. \E x \in 0 .. 30 : (x = 0 \/ Pow(2, x - 1) <= n) /\ n < Pow(2, x)
  BY <1>3, <1>4
<1>6. Bits(n) = CHOOSE x \in 0 .. 30 : (x = 0 \/ Pow(2, x - 1) <= n) /\ n < Pow(2, x)
  BY DEF Bits, Pow
<1> QED BY <1>5, <1>6

(* The place in a number of a float's last bit.                            *)
LEMMA ExcessIs ==
  ASSUME NEW n \in Nat, n < Unit
  PROVE  /\ Excess(n) \in Small /\ Excess(n) \in Nat /\ n < Top * Excess(n)
         /\ Excess(n) = 1 \/ Top * Excess(n) <= 2 * n
<1> DEFINE b == Bits(n)
<1>1. b \in 0 .. 30 /\ n < Pow(2, b) /\ (b = 0 \/ Pow(2, b - 1) <= n)
  BY BitsAre
<1>2. Excess(n) = Pow(2, IF b > 24 THEN b - 24 ELSE 0)
  BY DEF Excess, Pow
<1> HIDE DEF b
<1>3. CASE b > 24
  <2>1. b \in 25 .. 30 /\ b - 24 \in 0 .. 6 /\ b - 24 \in 0 .. 30 /\ b \in 1 .. 30 /\ b - 1 \in 0 .. 30
    BY <1>1, <1>3
  <2>2. /\ Pow(2, b) = Top * Pow(2, b - 24) /\ Pow(2, b) = 2 * Pow(2, b - 1)
        /\ Pow(2, b - 24) \in Small /\ Pow(2, b - 24) \in Nat /\ Pow(2, b - 1) \in Nat
    BY <2>1, TwoTyped
  <2>3. Excess(n) = Pow(2, b - 24)
    BY <1>2, <1>3
  <2> QED BY <1>1, <1>3, <2>2, <2>3, UnitIs
<1>4. CASE ~(b > 24)
  <2>1. Excess(n) = 1
    BY <1>2, <1>4, PowersOfTwo
  <2>2. n < Top
    <3>1. b \in 0 .. 24
      BY <1>1, <1>4
    <3>2. Pow(2, b) <= Top /\ Pow(2, b) \in Nat
      BY <1>1, <3>1, TwoTyped
    <3> QED BY <1>1, <3>2, UnitIs
  <2> QED BY <2>1, <2>2, UnitIs DEF Small
<1> QED BY <1>3, <1>4

(* The place in the part of a float's last bit: below one, its own; from   *)
(* one on, the more the greater the whole.                                 *)
LEMMA PlaceOfPart ==
  ASSUME NEW n \in Nat, n < Unit
  PROVE  /\ Place(0, n) \in Small /\ Place(0, n) \in Nat /\ n < Top * Place(0, n)
         /\ Place(0, n) = 1 \/ Top * Place(0, n) <= 2 * n
<1>1. Place(0, n) = Excess(n)
  BY DEF Place, Excess
<1> QED BY <1>1, ExcessIs

(* The last bit of a float that is not below one.                          *)
LEMMA PlaceOfWhole ==
  ASSUME NEW whole \in Nat, 0 < whole, whole < Top, NEW part
  PROVE  /\ Place(whole, part) \in Large /\ Place(whole, part) \in Nat
         /\ Place(whole, part) <= 128 * whole /\ 64 * (whole + 1) <= Place(whole, part)
<1> DEFINE b == Bits(whole)
<1>1. b \in 0 .. 30 /\ whole < Pow(2, b) /\ (b = 0 \/ Pow(2, b - 1) <= whole)
  BY BitsAre, UnitIs, SMT
<1>2. Place(whole, part) = Pow(2, b + 6)
  BY DEF Place, Pow
<1> HIDE DEF b
<1>3. b \in 1 .. 30 /\ b - 1 \in 0 .. 30
  <2>1. b # 0
    <3>1. Pow(2, 0) = 1
      BY PowersOfTwo
    <3> QED BY <1>1, <3>1
  <2> QED BY <1>1, <2>1
<1>4. Pow(2, b) = 2 * Pow(2, b - 1) /\ Pow(2, b - 1) \in Nat /\ Pow(2, b) \in Nat
  BY <1>1, <1>3, TwoTyped
<1>5. b \in 1 .. 24
  <2>1. CASE b > 24
    <3>1. b - 1 \in 24 .. 30
      BY <1>1, <2>1
    <3>2. Top <= Pow(2, b - 1)
      BY <3>1, TwoTyped
    <3> QED BY <1>1, <1>3, <1>4, <3>2, UnitIs
  <2> QED BY <1>3, <2>1
<1>6. Pow(2, b + 6) \in Large /\ Pow(2, b + 6) = 64 * Pow(2, b)
  BY <1>5, TwoTyped
<1> QED BY <1>1, <1>2, <1>3, <1>4, <1>6

(* The nearest multiple: an even one between two.                          *)
LEMMA NearestIs ==
  ASSUME NEW n \in Nat, NEW u \in Nat \ {0}
  PROVE  \E k \in Nat : /\ Nearest(n, u) = u * k /\ Nearest(n, u) \in Nat
                        /\ -u <= 2 * (u * k - n) /\ 2 * (u * k - n) <= u
                        /\ (2 * (u * k - n) = u \/ 2 * (u * k - n) = -u) => k % 2 = 0
                        /\ Nearest(n, u) \div u = k
<1> DEFINE q == n \div u
           r == n % u
<1>1. n = u * q + r /\ r \in 0 .. u - 1 /\ q \in Nat
  BY DivMod
<1>2. n - r = u * q
  BY <1>1
<1>3. (u * q) \div u = q /\ (u * (q + 1)) \div u = q + 1 /\ u * (q + 1) = u * q + u
      /\ u * q \in Nat /\ u * (q + 1) \in Nat
  <2>1. \A k \in Nat : (u * k + 0) \div u = k /\ u * k + 0 = u * k /\ u * k \in Nat
    BY DivModUnique
  <2> QED BY <1>1, <2>1
<1>4. Nearest(n, u) = IF 2 * r > u \/ (2 * r = u /\ q % 2 = 1) THEN u * (q + 1) ELSE u * q
  <2>1. Nearest(n, u) = LET low == u * q
                        IN IF 2 * (n - low) > u \/ (2 * (n - low) = u /\ (low \div u) % 2 = 1)
                           THEN low + u ELSE low
    BY <1>2 DEF Nearest
  <2>2. n - u * q = r
    BY <1>1, <1>3
  <2> HIDE DEF q, r
  <2> QED BY <1>3, <2>1, <2>2
<1> HIDE DEF q, r
<1>5. CASE 2 * r > u \/ (2 * r = u /\ q % 2 = 1)
  <2>1. Nearest(n, u) = u * (q + 1) /\ q + 1 \in Nat
    BY <1>1, <1>4, <1>5
  <2>2. q % 2 = 1 => (q + 1) % 2 = 0
    BY <1>1
  <2>3. 2 * (u * (q + 1) - n) = 2 * (u - r)
    BY <1>1, <1>3
  <2>4. /\ -u <= 2 * (u * (q + 1) - n) /\ 2 * (u * (q + 1) - n) <= u
        /\ (2 * (u * (q + 1) - n) = u \/ 2 * (u * (q + 1) - n) = -u) => (q + 1) % 2 = 0
    BY <1>1, <1>5, <2>2, <2>3
  <2> QED BY <1>3, <2>1, <2>4
<1>6. CASE ~(2 * r > u \/ (2 * r = u /\ q % 2 = 1))
  <2>1. Nearest(n, u) = u * q
    BY <1>4, <1>6
  <2>2. 2 * (u * q - n) = -(2 * r)
    BY <1>1, <1>3
  <2>3. q % 2 \in {0, 1}
    BY <1>1
  <2>4. /\ -u <= 2 * (u * q - n) /\ 2 * (u * q - n) <= u
        /\ (2 * (u * q - n) = u \/ 2 * (u * q - n) = -u) => q % 2 = 0
    BY <1>1, <1>6, <2>2, <2>3
  <2> QED BY <1>1, <1>3, <2>1, <2>4
<1> QED BY <1>5, <1>6

-----------------------------------------------------------------------------
(* remainder *= 10, and how far two digits are off.                        *)

(* A remainder x, with its last bit at u, times ten is a digit d and the   *)
(* remainder y, with its last bit at w, but for half of w; y is even if it *)
(* was halfway.                                                            *)
Tenfold(x, u, w, d, y) ==
    /\ w \in Places /\ d \in 0 .. 9 /\ y < Unit
    /\ \E n \in Nat : /\ y = w * n
                      /\ w <= 1024 /\ 2 * (10 * x - Unit * d - y) \in {w, -w} => n % 2 = 0
    /\ -w <= 2 * (10 * x - Unit * d - y) /\ 2 * (10 * x - Unit * d - y) <= w
    /\ 10 * x < Top * w /\ (w = u => 10 * x = Unit * d + y)
    /\ w = u \/ (w \in 2 .. 1024 /\ w \in {2 * u, 4 * u, 8 * u, 16 * u} /\ Top * w <= 20 * x)

(* Ten times a remainder has its last bit at a place, too.                 *)
LEMMA ProductPlaced ==
  ASSUME NEW u \in Places, NEW e \in {2, 4, 8, 16}, u * e < 1280
  PROVE  u * e \in Places /\ u * e \in 2 .. 1024
<1>1. u \in {1, 2, 4, 8, 16, 32, 64, 128, 256, 512}
  BY SMT DEF Places, Small, Large
<1>2. u * e \in {2, 4, 8, 16, 32, 64, 128, 256, 512, 1024}
  BY <1>1, SMT
<1> QED BY <1>2, SMT DEF Places, Small, Large

(* The next multiple.                                                      *)
LEMMA MultipleBelow ==
  ASSUME NEW u \in Nat \ {0}, NEW a \in Nat, NEW b \in Nat, u * a < u * b
  PROVE  u * a + u <= u * b /\ a < b
<1>1. a < b
  <2>1. b <= a => u * b <= u * a
    OBVIOUS
  <2>2. u * a \in Nat /\ u * b \in Nat
    OBVIOUS
  <2> QED BY <2>1, <2>2
<1>2. u * (a + 1) <= u * b
  BY <1>1
<1>3. u * (a + 1) = u * a + u
  OBVIOUS
<1> QED BY <1>1, <1>2, <1>3

(* remainder *= 10 gives a digit and such a remainder.                     *)
LEMMA Times10Is ==
  ASSUME NEW u \in Places, NEW m \in Nat, m <= Top, u * m < Unit
  PROVE  LET t == Times10([m |-> m, u |-> u])
         IN /\ Tenfold(u * m, u, t.u, t.digit, t.u * t.m)
            /\ t.u \in Places /\ t.digit \in 0 .. 9 /\ t.m \in Nat /\ t.m <= Top
            /\ t.u * t.m < Unit /\ t = [digit |-> t.digit, m |-> t.m, u |-> t.u]
<1> DEFINE e == Excess(10 * m)
           w == u * e
           one == Unit \div w
           k == Nearest(10 * m, e) \div e
           d == k \div one
           n == k % one
           t == Times10([m |-> m, u |-> u])
<1>1. t = [digit |-> d, m |-> n, u |-> w]
  BY DEF Times10
<1>2. u \in Nat \ {0} /\ u <= Unit /\ u * (Unit \div u) = Unit /\ Unit \div u \in Nat /\ u * m \in Nat
  BY PlacesDivide
<1>3. 10 * m \in Nat /\ 10 * m < Unit
  BY UnitIs, SMT
<1>4. /\ e \in Small /\ e \in Nat /\ 10 * m < Top * e
      /\ e = 1 \/ Top * e <= 20 * m
  BY <1>3, ExcessIs
<1> HIDE DEF e
<1>5. e \in {1, 2, 4, 8, 16} /\ e \in Nat \ {0}
  <2>1. e \notin {32, 64}
    BY <1>4, UnitIs, SMT
  <2> QED BY <1>4, <2>1 DEF Small
<1>6. w = u \/ (w \in 2 .. 1024 /\ w \in {2 * u, 4 * u, 8 * u, 16 * u} /\ Top * w <= 20 * (u * m) /\ w \in Places)
  <2>1. CASE e = 1
    BY <1>2, <2>1
  <2>2. CASE e # 1
    <3>1. Top * e <= 20 * m /\ e \in {2, 4, 8, 16}
      BY <1>4, <1>5, <2>2
    <3>2. Top * w <= 20 * (u * m)
      <4>1. u * (Top * e) <= u * (20 * m)
        BY <1>2, <1>5, <3>1, UnitIs
      <4>2. u * (Top * e) = Top * w /\ u * (20 * m) = 20 * (u * m)
        BY <1>2, <1>5, UnitIs
      <4> QED BY <4>1, <4>2
    <3>3. w \in Nat
      BY <1>2, <1>5
    <3>4. w < 1280
      <4> HIDE DEF w
      <4>1. Top * w < 20 * Unit
        BY <1>2, <3>2, <3>3, UnitIs, SMT
      <4> QED BY <3>3, <4>1, UnitIs, SMT
    <3>5. w \in Places /\ w \in 2 .. 1024
      BY <3>1, <3>4, ProductPlaced
    <3>6. w \in {2 * u, 4 * u, 8 * u, 16 * u}
      BY <1>2, <3>1
    <3> QED BY <3>2, <3>5, <3>6
  <2> QED BY <2>1, <2>2
<1>7. w \in Places /\ w \in Nat \ {0} /\ one \in Nat /\ w * one = Unit
  <2>1. w \in Places
    BY <1>6
  <2> HIDE DEF w
  <2> QED BY <2>1, PlacesDivide
<1>8. one \in Nat \ {0}
  <2> HIDE DEF w, one
  <2>1. one # 0
    BY <1>7, UnitIs, SMT
  <2> QED BY <1>7, <2>1
<1>9. /\ k \in Nat /\ -e <= 2 * (e * k - 10 * m) /\ 2 * (e * k - 10 * m) <= e
      /\ (2 * (e * k - 10 * m) = e \/ 2 * (e * k - 10 * m) = -e) => k % 2 = 0
  <2> DEFINE a == 10 * m
  <2>1. a \in Nat
    BY <1>3
  <2> HIDE DEF a
  <2>2. /\ Nearest(a, e) \div e \in Nat
        /\ -e <= 2 * (e * (Nearest(a, e) \div e) - a) /\ 2 * (e * (Nearest(a, e) \div e) - a) <= e
        /\ (2 * (e * (Nearest(a, e) \div e) - a) = e \/ 2 * (e * (Nearest(a, e) \div e) - a) = -e)
              => (Nearest(a, e) \div e) % 2 = 0
    BY <1>5, <2>1, NearestIs
  <2> QED BY <2>2 DEF a
<1> HIDE DEF k
<1>10. k <= Top
  BY <1>4, <1>5, <1>9, UnitIs, SMT
<1> HIDE DEF w, one
<1>11. k = one * d + n /\ n \in 0 .. one - 1 /\ d \in Nat
  BY <1>8, <1>9, DivMod
<1> HIDE DEF d, n
<1>12. n \in Nat /\ n <= Top
  <2>1. one * d \in Nat
    BY <1>8, <1>11
  <2> QED BY <1>8, <1>9, <1>10, <1>11, <2>1, UnitIs
<1>13. w * k = Unit * d + w * n /\ w * n \in Nat /\ w * n < Unit
  <2>1. w * k = (w * one) * d + w * n
    BY <1>7, <1>8, <1>11
  <2>2. w * (n + 1) <= w * one
    <3>1. n + 1 <= one /\ n \in Nat
      BY <1>8, <1>11
    <3> QED BY <1>7, <1>8, <3>1
  <2>3. w * (n + 1) = w * n + w /\ w * n \in Nat
    BY <1>7, <1>12
  <2> QED BY <1>7, <2>1, <2>2, <2>3
<1>14. -w <= 2 * (10 * (u * m) - w * k) /\ 2 * (10 * (u * m) - w * k) <= w
  <2>1. w * k = u * (e * k) /\ w = u * e
    BY <1>2, <1>5, <1>9 DEF w
  <2>2. -(u * e) <= 2 * (10 * (u * m) - u * (e * k)) /\ 2 * (10 * (u * m) - u * (e * k)) <= u * e
    <3> DEFINE z == 2 * (e * k - 10 * m)
    <3>1. z \in Int /\ -e <= z /\ z <= e
      BY <1>5, <1>9
    <3>2. u * (-e) <= u * z /\ u * z <= u * e
      <4> HIDE DEF z
      <4> QED BY <1>2, <1>5, <3>1
    <3>3. u * z = 2 * (u * (e * k) - 10 * (u * m)) /\ u * (-e) = -(u * e)
      BY <1>2, <1>5, <1>9
    <3> QED BY <1>2, <1>5, <1>9, <3>2, <3>3
  <2> QED BY <2>1, <2>2
<1>15. 10 * (u * m) < Top * w
  <2>1. u * (10 * m) < u * (Top * e)
    <3>1. 10 * m + 1 <= Top * e
      BY <1>4, <1>5, UnitIs
    <3>2. u * (10 * m + 1) <= u * (Top * e)
      BY <1>2, <1>5, <3>1, UnitIs
    <3>3. u * (10 * m + 1) = u * (10 * m) + u
      BY <1>2
    <3> QED BY <1>2, <1>5, <3>2, <3>3, UnitIs
  <2>2. u * (10 * m) = 10 * (u * m) /\ u * (Top * e) = Top * w
    BY <1>2, <1>5, UnitIs DEF w
  <2> QED BY <2>1, <2>2
<1>16. d \in 0 .. 9
  <2>1. u * m <= Unit - u
    <3> DEFINE all == Unit \div u
    <3>1. all \in Nat /\ u * all = Unit
      BY <1>2
    <3> HIDE DEF all
    <3> QED BY <1>2, <3>1, MultipleBelow
  <2>2. w <= 16 * u
    BY <1>2, <1>6, <1>7
  <2>3. Unit * d < Unit * 10
    BY <1>2, <1>7, <1>11, <1>13, <1>14, <2>1, <2>2, UnitIs, SMT
  <2>4. d < 10
    BY <1>11, <2>3, UnitIs, SMT
  <2> QED BY <1>11, <2>4
<1>17. w <= 1024 => one % 2 = 0
  <2>1. \A p \in Places : p <= 1024 => (Unit \div p) % 2 = 0
    BY UnitIs, SMT DEF Places, Small, Large
  <2> QED BY <1>7, <2>1 DEF one
<1>18. w <= 1024 /\ 2 * (10 * (u * m) - w * k) \in {w, -w} => n % 2 = 0
  <2> SUFFICES ASSUME w <= 1024, 2 * (10 * (u * m) - w * k) \in {w, -w} PROVE n % 2 = 0
    OBVIOUS
  <2> DEFINE z == 2 * (e * k - 10 * m)
  <2>1. w * k = u * (e * k) /\ w = u * e
    BY <1>2, <1>5, <1>9 DEF w
  <2>2. z \in Int /\ u * z = 2 * (w * k - 10 * (u * m))
    BY <1>2, <1>5, <1>9, <2>1
  <2>3. u * z = u * e \/ u * z = u * (-e)
    BY <1>2, <1>5, <1>7, <1>9, <1>13, <2>1, <2>2
  <2> HIDE DEF z
  <2>4. z = e \/ z = -e
    BY <1>2, <1>5, <2>2, <2>3
  <2>5. k % 2 = 0
    BY <1>9, <2>4 DEF z
  <2>6. PICK h \in Nat : one = 2 * h
    BY <1>8, <1>17
  <2>7. k = 2 * (h * d) + n /\ h * d \in Nat
    BY <1>8, <1>11, <2>6
  <2> QED BY <1>9, <1>12, <2>5, <2>7
<1>19. Tenfold(u * m, u, w, d, w * n)
  <2> DEFINE x == u * m
  <2>1. 10 * x - Unit * d - w * n = 10 * x - w * k
    <3>1. x \in Nat /\ Unit \in Int /\ d \in Nat /\ w \in Nat /\ w * k \in Int /\ Unit * d \in Int
      BY <1>2, <1>7, <1>9, <1>11, UnitIs
    <3> QED BY <1>13, <3>1
  <2>2. \E i \in Nat : /\ w * n = w * i
                       /\ w <= 1024 /\ 2 * (10 * x - Unit * d - w * n) \in {w, -w} => i % 2 = 0
    BY <1>12, <1>18, <2>1
  <2>3. -w <= 2 * (10 * x - Unit * d - w * n) /\ 2 * (10 * x - Unit * d - w * n) <= w
    BY <1>14, <2>1
  <2>4. w = u => 10 * x = Unit * d + w * n
    <3> SUFFICES ASSUME w = u PROVE 10 * x = Unit * d + w * n
      OBVIOUS
    <3>1. e = 1
      <4>1. w = u * e
        BY DEF w
      <4> QED BY <1>2, <1>5, <4>1
    <3>2. k = 10 * m
      BY <1>9, <3>1
    <3>3. w * k = 10 * x
      BY <1>2, <3>2
    <3> QED BY <1>13, <3>3
  <2> QED BY <1>6, <1>7, <1>13, <1>15, <1>16, <2>2, <2>3, <2>4 DEF Tenfold
<1> QED BY <1>1, <1>7, <1>12, <1>13, <1>16, <1>19

(* Two digits are near enough, but for the distance to the next float.     *)
Close(part, next, cents) ==
    /\ Unit * (2 * cents - 1) < 200 * (part + next)
    /\ 200 * (part - next) <= Unit * (2 * cents + 1)

(* A float below one, with its last bit at u, and half a hundredth rounded *)
(* to a multiple of w.                                                     *)
Binade(n, u) == n \in Nat /\ n <= Top * u /\ (u = 1 \/ Top * u <= 2 * n)
Raised(part, u, x, w) ==
    /\ Binade(part, u) /\ Binade(part + HalfCent, w) /\ part + HalfCent < Unit
    /\ \E j \in Nat : part = u * j
    /\ \E m \in Nat : x = w * m
    /\ x < Unit /\ -w <= 2 * (x - part - HalfCent) /\ 2 * (x - part - HalfCent) <= w

(* The last bit moves by one at most.                                      *)
LEMMA SmallPairs ==
  ASSUME NEW part, NEW u \in Small, NEW w \in Small, NEW x, Raised(part, u, x, w)
  PROVE  w = u \/ w = 2 * u
BY UnitIs, SMT DEF Raised, Binade, Small, HalfCent

Twos == {2, 4, 8, 16, 32, 64, 128, 256, 512, 1024}

(* Its two digits are near enough: the roundings are too few to be all at  *)
(* their worst.                                                            *)
LEMMA SmallClose ==
  ASSUME NEW part, NEW u \in Small, NEW w \in Small, NEW x, Raised(part, u, x, w),
         NEW v \in {w, 2 * w}, NEW w1, NEW d1, NEW y1, Tenfold(x, v, w1, d1, y1),
         NEW w2, NEW d2, NEW y2, Tenfold(y1, w1, w2, d2, y2)
  PROVE  Close(part, u, 10 * d1 + d2)
<1>1. PICK j \in Nat : part = u * j
  BY DEF Raised
<1>2. PICK m \in Nat : x = w * m
  BY DEF Raised
<1>3. PICK n1 \in Nat : /\ y1 = w1 * n1
                        /\ w1 <= 1024 /\ 2 * (10 * x - Unit * d1 - y1) \in {w1, -w1} => n1 % 2 = 0
  BY DEF Tenfold
<1>4. PICK n2 \in Nat : y2 = w2 * n2
  BY DEF Tenfold
<1>5. /\ Binade(part, u) /\ Binade(part + HalfCent, w) /\ part + HalfCent < Unit
      /\ x < Unit /\ -w <= 2 * (x - part - HalfCent) /\ 2 * (x - part - HalfCent) <= w
  BY DEF Raised
<1>6. w1 \in Twos /\ Top * w1 <= 20 * x /\ 10 * x < Top * w1
  <2>1. w1 \in Places /\ 10 * x < Top * w1
        /\ (w1 = v \/ (w1 \in 2 .. 1024 /\ Top * w1 <= 20 * x))
    BY DEF Tenfold
  <2>2. w1 # v
    BY <1>2, <1>5, <2>1, UnitIs, SMTT(60) DEF Binade, Small, HalfCent
  <2>3. w1 \in Twos
    BY <2>1, <2>2, SMTT(60) DEF Places, Small, Large, Twos
  <2> QED BY <2>1, <2>2, <2>3
<1>7. /\ d1 \in 0 .. 9 /\ y1 < Unit
      /\ -w1 <= 2 * (10 * x - Unit * d1 - y1) /\ 2 * (10 * x - Unit * d1 - y1) <= w1
  BY DEF Tenfold
<1>8. w2 \in Twos /\ (w2 = w1 \/ Top * w2 <= 20 * y1) /\ 10 * y1 < Top * w2
  <2>1. w2 \in Places /\ 10 * y1 < Top * w2
        /\ (w2 = w1 \/ (w2 \in 2 .. 1024 /\ Top * w2 <= 20 * y1))
    BY DEF Tenfold
  <2>2. w2 \in Twos
    BY <1>6, <2>1, SMTT(60) DEF Places, Small, Large, Twos
  <2> QED BY <2>1, <2>2
<1>9. /\ d2 \in 0 .. 9 /\ y2 < Unit
      /\ -w2 <= 2 * (10 * y1 - Unit * d2 - y2) /\ 2 * (10 * y1 - Unit * d2 - y2) <= w2
  BY DEF Tenfold
<1>10. CASE u = 1 /\ w = 1
  BY <1>1, <1>2, <1>3, <1>4, <1>5, <1>6, <1>7, <1>8, <1>9, <1>10, UnitIs, SMT DEF Binade, HalfCent, Twos, Close
<1>11. CASE u = 1 /\ w = 2
  <2>1. w1 = 16
    BY <1>1, <1>2, <1>5, <1>6, <1>11, UnitIs, SMT DEF Binade, HalfCent, Twos
  <2>2. w2 \in {128, 256}
    BY <1>1, <1>2, <1>3, <1>4, <1>5, <1>6, <1>7, <1>8, <1>9, <1>11, <2>1, UnitIs, SMT DEF Binade, HalfCent, Twos
  <2>3. PICK i \in Nat : n1 = 2 * i \/ n1 = 2 * i + 1
    <3>1. n1 = 2 * (n1 \div 2) + (n1 % 2) /\ n1 % 2 \in 0 .. 1 /\ n1 \div 2 \in Nat
      BY SMT
    <3> QED BY <3>1
  <2>4. /\ part = j /\ x = 2 * m /\ y1 = 16 * n1
        /\ j <= Top /\ Top <= j + 5368709
        /\ -1 <= 2 * m - j - 5368709 /\ 2 * m - j - 5368709 <= 1
        /\ 20 * m - Unit * d1 - 16 * n1 \in {8, -8} => n1 = 2 * i
        /\ -8 <= 20 * m - Unit * d1 - 16 * n1 /\ 20 * m - Unit * d1 - 16 * n1 <= 8
    <3>1. 20 * m - Unit * d1 - 16 * n1 \in {8, -8} => n1 = 2 * i
      BY <1>2, <1>3, <1>7, <1>11, <2>1, <2>3, UnitIs, SMT
    <3> QED BY <1>1, <1>2, <1>3, <1>5, <1>7, <1>11, <2>1, <3>1, UnitIs, SMT DEF Binade, HalfCent
  <2>5. CASE w2 = 128
    <3>1. /\ y2 = 128 * n2 /\ 0 <= y2 /\ y2 < Unit /\ 10 * y1 < Top * 128
          /\ -64 <= 10 * y1 - Unit * d2 - y2 /\ 10 * y1 - Unit * d2 - y2 <= 64
      BY <1>3, <1>4, <1>7, <1>8, <1>9, <2>1, <2>5, UnitIs, SMT
    <3> QED BY <1>7, <1>9, <1>11, <2>4, <3>1, UnitIs, SMT DEF Close
  <2>6. CASE w2 = 256
    <3>1. /\ y2 = 256 * n2 /\ 0 <= y2 /\ y2 < Unit /\ Top * 256 <= 20 * y1
          /\ -128 <= 10 * y1 - Unit * d2 - y2 /\ 10 * y1 - Unit * d2 - y2 <= 128
      BY <1>3, <1>4, <1>7, <1>8, <1>9, <2>1, <2>6, UnitIs, SMT
    <3> QED BY <1>7, <1>9, <1>11, <2>3, <2>4, <3>1, UnitIs, SMT DEF Close
  <2> QED BY <2>2, <2>5, <2>6
<1>12. CASE u = 2 /\ w = 2
  BY <1>1, <1>2, <1>3, <1>4, <1>5, <1>6, <1>7, <1>8, <1>9, <1>12, UnitIs, SMT DEF Binade, HalfCent, Twos, Close
<1>13. CASE u = 2 /\ w = 4
  BY <1>1, <1>2, <1>3, <1>4, <1>5, <1>6, <1>7, <1>8, <1>9, <1>13, UnitIs, SMT DEF Binade, HalfCent, Twos, Close
<1>14. CASE u = 4 /\ w = 4
  BY <1>1, <1>2, <1>3, <1>4, <1>5, <1>6, <1>7, <1>8, <1>9, <1>14, UnitIs, SMT DEF Binade, HalfCent, Twos, Close
<1>15. CASE u = 4 /\ w = 8
  BY <1>1, <1>2, <1>3, <1>4, <1>5, <1>6, <1>7, <1>8, <1>9, <1>15, UnitIs, SMT DEF Binade, HalfCent, Twos, Close
<1>16. CASE u = 8 /\ w = 8
  BY <1>1, <1>2, <1>3, <1>4, <1>5, <1>6, <1>7, <1>8, <1>9, <1>16, UnitIs, SMT DEF Binade, HalfCent, Twos, Close
<1>17. CASE u = 8 /\ w = 16
  BY <1>1, <1>2, <1>3, <1>4, <1>5, <1>6, <1>7, <1>8, <1>9, <1>17, UnitIs, SMT DEF Binade, HalfCent, Twos, Close
<1>18. CASE u = 16 /\ w = 16
  BY <1>1, <1>2, <1>3, <1>4, <1>5, <1>6, <1>7, <1>8, <1>9, <1>18, UnitIs, SMT DEF Binade, HalfCent, Twos, Close
<1>19. CASE u = 16 /\ w = 32
  BY <1>1, <1>2, <1>3, <1>4, <1>5, <1>6, <1>7, <1>8, <1>9, <1>19, UnitIs, SMT DEF Binade, HalfCent, Twos, Close
<1>20. CASE u = 32 /\ w = 32
  BY <1>1, <1>2, <1>3, <1>4, <1>5, <1>6, <1>7, <1>8, <1>9, <1>20, UnitIs, SMT DEF Binade, HalfCent, Twos, Close
<1>21. CASE u = 32 /\ w = 64
  BY <1>1, <1>2, <1>3, <1>4, <1>5, <1>6, <1>7, <1>8, <1>9, <1>21, UnitIs, SMT DEF Binade, HalfCent, Twos, Close
<1>22. CASE u = 64 /\ w = 64
  BY <1>1, <1>2, <1>3, <1>4, <1>5, <1>6, <1>7, <1>8, <1>9, <1>22, UnitIs, SMT DEF Binade, HalfCent, Twos, Close
<1>23. w = u \/ w = 2 * u
  BY SmallPairs
<1> QED BY <1>10, <1>11, <1>12, <1>13, <1>14, <1>15, <1>16, <1>17, <1>18, <1>19, <1>20, <1>21, <1>22, <1>23, SMT DEF Small

(* From one on, and where half a hundredth carries into the whole.         *)
LEMMA WideClose ==
  ASSUME NEW part \in Nat, NEW u \in Large, NEW x \in Nat,
         -u <= 2 * (x - part - HalfCent), 2 * (x - part - HalfCent) <= u,
         NEW w1, NEW d1, NEW y1, Tenfold(x, u, w1, d1, y1),
         NEW w2, NEW d2, NEW y2, Tenfold(y1, w1, w2, d2, y2)
  PROVE  Close(part, u, 10 * d1 + d2)
<1>1. u \in Nat /\ 128 <= u
  BY SMT DEF Large
<1>2. PICK n1 \in Nat : y1 = w1 * n1
  BY DEF Tenfold
<1>3. PICK n2 \in Nat : y2 = w2 * n2
  BY DEF Tenfold
<1>4. /\ w1 \in Nat /\ (w1 = u \/ w1 <= 1024) /\ d1 \in 0 .. 9
      /\ -w1 <= 2 * (10 * x - Unit * d1 - y1) /\ 2 * (10 * x - Unit * d1 - y1) <= w1
  <2>1. w1 \in Nat
    BY PlacesDivide DEF Tenfold
  <2> QED BY <2>1 DEF Tenfold
<1>5. /\ w2 \in Nat /\ (w2 = w1 \/ w2 <= 1024) /\ d2 \in 0 .. 9 /\ y2 < Unit
      /\ -w2 <= 2 * (10 * y1 - Unit * d2 - y2) /\ 2 * (10 * y1 - Unit * d2 - y2) <= w2
  <2>1. w2 \in Nat
    BY PlacesDivide DEF Tenfold
  <2> QED BY <2>1 DEF Tenfold
<1>6. w1 <= 8 * u /\ w2 <= 8 * u
  BY <1>1, <1>4, <1>5
<1>7. y1 \in Nat /\ y2 \in Nat
  BY <1>2, <1>3, <1>4, <1>5
<1> QED BY <1>1, <1>4, <1>5, <1>6, <1>7, UnitIs, SMT DEF Close, HalfCent

(* What is left of half a hundredth after a carry has no digits.           *)
LEMMA CarriedDigits ==
  ASSUME NEW u \in Large, NEW x \in Nat, x <= HalfCent,
         NEW w1, NEW d1, NEW y1, Tenfold(x, u, w1, d1, y1),
         NEW w2, NEW d2, NEW y2, Tenfold(y1, w1, w2, d2, y2)
  PROVE  d1 = 0 /\ d2 = 0
<1>1. u \in Nat /\ 128 <= u
  BY SMT DEF Large
<1>2. PICK n1 \in Nat : y1 = w1 * n1
  BY DEF Tenfold
<1>3. PICK n2 \in Nat : y2 = w2 * n2
  BY DEF Tenfold
<1>4. /\ w1 \in Nat /\ w2 \in Nat /\ d1 \in 0 .. 9 /\ d2 \in 0 .. 9
      /\ w1 = u \/ (w1 \in {2 * u, 4 * u, 8 * u, 16 * u} /\ Top * w1 <= 20 * x)
      /\ w1 = u => 10 * x = Unit * d1 + y1
      /\ w2 = w1 \/ (w2 \in {2 * w1, 4 * w1, 8 * w1, 16 * w1} /\ Top * w2 <= 20 * y1)
      /\ w2 = w1 => 10 * y1 = Unit * d2 + y2
  <2>1. w1 \in Nat /\ w2 \in Nat
    BY PlacesDivide DEF Tenfold
  <2> QED BY <2>1 DEF Tenfold
<1>5. y1 \in Nat /\ y2 \in Nat
  BY <1>2, <1>3, <1>4
<1>6. w1 = u
  BY <1>1, <1>4, UnitIs, SMT DEF HalfCent
<1>7. d1 = 0 /\ y1 = 10 * x
  BY <1>4, <1>5, <1>6, UnitIs, SMT DEF HalfCent
<1>8. w2 = w1
  BY <1>1, <1>4, <1>6, <1>7, UnitIs, SMT DEF HalfCent
<1> QED BY <1>4, <1>5, <1>7, <1>8, UnitIs, SMT DEF HalfCent

-----------------------------------------------------------------------------
(* absolute += 0.005: what it leaves of a float.                           *)

(* A float: 24 bits, so its part is a multiple of the last one's place.    *)
IsFloat(v) == /\ v.negative \in BOOLEAN /\ v.whole \in Nat /\ v.whole < Top
              /\ v.part \in Nat /\ v.part < Unit /\ v.part % Place(v.whole, v.part) = 0

(* The floats that are encoded are floats.                                 *)
LEMMA FloatsAre == \A v \in Floats : IsFloat(v)
<1>1. 2 ^ 24 = Top
  BY SMT DEF Top
<1>2. SUFFICES ASSUME NEW v \in Floats PROVE IsFloat(v)
  OBVIOUS
<1>3. /\ v \in [negative : BOOLEAN, whole : 0 .. Top - 1, part : 0 .. Unit - 1]
      /\ v.part % Place(v.whole, v.part) = 0
  BY <1>1, FloatAssumption, Zenon
<1>4. v.whole \in 0 .. Top - 1 /\ v.part \in 0 .. Unit - 1 /\ v.negative \in BOOLEAN
  BY <1>3
<1>5. \A a, n : a \in Nat /\ n \in 0 .. a - 1 => n \in Nat /\ n < a
  OBVIOUS
<1>6. Unit \in Nat /\ Top \in Nat
  BY UnitIs, SMT
<1>7. v.whole \in Nat /\ v.whole < Top /\ v.part \in Nat /\ v.part < Unit
  BY <1>4, <1>5, <1>6, Zenon
<1> QED BY <1>3, <1>4, <1>7, Zenon DEF IsFloat

(* The place of its last bit divides a float's part.                       *)
LEMMA PlaceTyped ==
  ASSUME NEW whole \in Nat, whole < Top, NEW part \in Nat, part < Unit
  PROVE  /\ Place(whole, part) \in Places /\ Place(whole, part) \in Nat \ {0}
         /\ whole > 0 => Place(whole, part) \in Large
         /\ whole = 0 => Place(whole, part) \in Small /\ Binade(part, Place(whole, part))
                         /\ part < Top * Place(whole, part)
<1>1. CASE whole = 0
  <2>1. /\ Place(0, part) \in Small /\ Place(0, part) \in Nat /\ part < Top * Place(0, part)
        /\ Place(0, part) = 1 \/ Top * Place(0, part) <= 2 * part
    BY PlaceOfPart
  <2>2. Place(0, part) \in Places /\ Place(0, part) \in Nat \ {0}
    BY <2>1, PlacesDivide DEF Places
  <2>3. Binade(part, Place(0, part))
    BY <2>1, <2>2, UnitIs DEF Binade
  <2> QED BY <1>1, <2>1, <2>2, <2>3
<1>2. CASE whole > 0
  <2>1. Place(whole, part) \in Large
    BY <1>2, PlaceOfWhole, UnitIs
  <2>2. Place(whole, part) \in Places
    BY <2>1 DEF Places
  <2> QED BY <1>2, <2>1, <2>2, PlacesDivide
<1> QED BY <1>1, <1>2

(* A number below Unit is rounded to one that is not above.                *)
LEMMA RoundedBelow ==
  ASSUME NEW n \in Nat, n < Unit, NEW w \in Places
  PROVE  \E k \in Nat : /\ Nearest(n, w) = w * k /\ w * k \in Nat
                        /\ -w <= 2 * (w * k - n) /\ 2 * (w * k - n) <= w
                        /\ w * k = Unit \/ w * k + w <= Unit
<1>1. w \in Nat \ {0} /\ w <= Unit /\ Unit \div w \in Nat /\ w * (Unit \div w) = Unit
  BY PlacesDivide
<1>2. PICK k \in Nat : /\ Nearest(n, w) = w * k /\ Nearest(n, w) \in Nat
                       /\ -w <= 2 * (w * k - n) /\ 2 * (w * k - n) <= w
  BY <1>1, NearestIs
<1> DEFINE one == Unit \div w
<1>3. one \in Nat /\ w * one = Unit /\ w * k \in Nat
  BY <1>1, <1>2
<1> HIDE DEF one
<1>4. w * k = Unit \/ w * k + w <= Unit
  <2>1. w * k < w * one => w * k + w <= w * one
    BY <1>1, <1>3, MultipleBelow
  <2>2. w * one < w * k => w * one + w <= w * k
    BY <1>1, <1>3, MultipleBelow
  <2>3. w * k < Unit \/ w * k = Unit \/ Unit < w * k
    BY <1>3, UnitIs
  <2>4. ~(Unit < w * k)
    <3> SUFFICES ASSUME Unit < w * k PROVE FALSE
      OBVIOUS
    <3>1. Unit + w <= w * k
      BY <1>3, <2>2
    <3> QED BY <1>1, <1>2, <1>3, <3>1, UnitIs
  <2> QED BY <1>3, <2>1, <2>3, <2>4
<1> QED BY <1>2, <1>3, <1>4

(* What half a hundredth added to a float makes of it.                     *)
Carried(v, r) == /\ r.whole = v.whole + 1 /\ r.part <= HalfCent
                 /\ Unit <= v.part + Place(v.whole, v.part) + HalfCent
Wide(v, r) == LET u == Place(v.whole, v.part)
              IN /\ r.whole = v.whole /\ 0 < v.whole /\ Place(r.whole, r.part) = u
                 /\ -u <= 2 * (r.part - v.part - HalfCent) /\ 2 * (r.part - v.part - HalfCent) <= u
Narrow(v, r) == /\ r.whole = v.whole /\ v.whole = 0
                /\ \E w \in Small : /\ Raised(v.part, Place(0, v.part), r.part, w)
                                    /\ Place(0, r.part) \in {w, 2 * w}
Fits(r) == /\ r.whole \in Nat /\ r.whole < Top /\ r.part \in Nat /\ r.part < Unit
           /\ \E m \in Nat : r.part = Place(r.whole, r.part) * m /\ m <= Top

(* Rounding moves the last bit by one at most.                             *)
LEMMA NarrowPlace ==
  ASSUME NEW n \in Nat, NEW w \in Small, Binade(n, w), n < Top * w, NEW k \in Nat, w * k < Unit,
         -w <= 2 * (w * k - n), 2 * (w * k - n) <= w
  PROVE  /\ Place(0, w * k) \in {w, 2 * w}
         /\ \E m \in Nat : w * k = Place(0, w * k) * m /\ m <= Top
<1> DEFINE x == w * k
           u == Place(0, x)
<1>1. w \in Nat \ {0} /\ x \in Nat
  BY PlacesDivide DEF Places
<1>2. u \in Small /\ Binade(x, u) /\ x < Top * u
  BY <1>1, PlaceTyped, UnitIs
<1> HIDE DEF u
<1>3. k <= Top /\ (w = 1 \/ Top <= 2 * k)
  <2>1. n <= Top * w /\ (w = 1 \/ Top * w <= 2 * n)
    BY DEF Binade
  <2> QED BY <2>1, UnitIs, SMT DEF Small
<1>4. u \in {w, 2 * w} /\ (u = 2 * w => k = Top)
  BY <1>2, <1>3, UnitIs, SMT DEF Small, Binade
<1>5. CASE u = w
  BY <1>3, <1>5 DEF u
<1>6. CASE u = 2 * w
  <2>1. k = Top
    BY <1>4, <1>6
  <2>2. PICK h \in Nat : Top = 2 * h /\ h <= Top
    <3> DEFINE a == 8388608
    <3>1. a \in Nat /\ Top = 2 * a /\ a <= Top
      BY UnitIs, SMT
    <3> HIDE DEF a
    <3> QED BY <3>1
  <2>3. x = u * h
    BY <1>1, <1>6, <2>1, <2>2
  <2>4. \E m \in Nat : x = u * m /\ m <= Top
    BY <2>2, <2>3
  <2> QED BY <1>6, <2>4 DEF u
<1> QED BY <1>4, <1>5, <1>6

(* The three ways of adding half a hundredth.                              *)
Rounding(v, r) == Fits(r) /\ (Carried(v, r) \/ Wide(v, r) \/ Narrow(v, r))

(* A float's part is a multiple of its last bit.                           *)
LEMMA FloatParts ==
  ASSUME NEW v, IsFloat(v)
  PROVE  LET u == Place(v.whole, v.part)
         IN /\ u \in Places /\ u \in Nat \ {0} /\ u <= Unit
            /\ \E j \in Nat : v.part = u * j
            /\ v.part + u <= Unit
            /\ u = Unit => v.part = 0
<1> DEFINE P == v.part
           u == Place(v.whole, v.part)
           j == P \div u
           one == Unit \div u
<1>1. v.whole \in Nat /\ v.whole < Top /\ P \in Nat /\ P < Unit /\ P % u = 0
  BY DEF IsFloat
<1>2. u \in Places /\ u \in Nat \ {0}
  BY <1>1, PlaceTyped
<1> HIDE DEF P, u
<1>3. u <= Unit /\ one \in Nat /\ u * one = Unit
  BY <1>2, PlacesDivide
<1>4. P = u * j /\ j \in Nat
  <2>1. P = u * (P \div u) + (P % u) /\ P \div u \in Nat
    BY <1>1, <1>2, DivMod
  <2>2. u * j \in Nat
    BY <1>2, <2>1
  <2> HIDE DEF j
  <2>3. P = u * j + (P % u) /\ j \in Nat
    BY <2>1 DEF j
  <2> QED BY <1>1, <2>2, <2>3
<1> HIDE DEF j, one
<1>5. P + u <= Unit
  <2>1. u * j < u * one => u * j + u <= u * one
    BY <1>2, <1>3, <1>4, MultipleBelow
  <2> QED BY <1>1, <1>3, <1>4, <2>1
<1>6. u = Unit => P = 0
  BY <1>1, <1>2, <1>5
<1> QED BY <1>2, <1>3, <1>4, <1>5, <1>6 DEF P, u

(* Nothing carries into a whole that has all 24 bits.                      *)
LEMMA TopHasNoPart ==
  ASSUME NEW v, IsFloat(v), ~(v.whole + 1 < Top)
  PROVE  v.part = 0 /\ Place(v.whole, v.part) = Unit
<1> DEFINE u == Place(v.whole, v.part)
<1>1. v.whole \in Nat /\ v.whole < Top /\ v.part \in Nat /\ v.part < Unit
  BY DEF IsFloat
<1>2. v.whole > 0
  BY <1>1, UnitIs, SMT
<1>3. u \in Nat /\ 64 * (v.whole + 1) <= u
  BY <1>1, <1>2, PlaceOfWhole
<1>4. u <= Unit /\ (u = Unit => v.part = 0)
  BY FloatParts
<1> HIDE DEF u
<1>5. u = Unit
  BY <1>1, <1>3, <1>4, UnitIs, SMT
<1> QED BY <1>4, <1>5 DEF u

(* The last bit depends on the whole number alone, where there is one.     *)
LEMMA WholePlace ==
  ASSUME NEW whole \in Nat, whole > 0, NEW a, NEW b
  PROVE  Place(whole, a) = Place(whole, b)
BY DEF Place

(* Below one, with no carry into the whole before rounding.                *)
LEMMA RoundedNarrow ==
  ASSUME NEW v, IsFloat(v), v.whole = 0, v.part + HalfCent < Unit
  PROVE  Rounding(v, Rounded(v))
<1> DEFINE P == v.part
           S == P + HalfCent
           next == Place(0, P)
           w == Place(0, S)
           r == Rounded(v)
<1>1. P \in Nat /\ P < Unit /\ S \in Nat /\ S < Unit /\ HalfCent \in Nat
  BY UnitIs, SMT DEF IsFloat, HalfCent
<1>2. /\ w \in Places /\ w \in Small /\ w \in Nat \ {0} /\ Binade(S, w) /\ S < Top * w
      /\ next \in Small /\ next \in Nat \ {0} /\ Binade(P, next)
  BY <1>1, PlaceTyped, UnitIs
<1>3. PICK j \in Nat : P = next * j
  BY FloatParts
<1>4. PICK k \in Nat : /\ Nearest(S, w) = w * k /\ w * k \in Nat
                       /\ -w <= 2 * (w * k - S) /\ 2 * (w * k - S) <= w
                       /\ w * k = Unit \/ w * k + w <= Unit
  BY <1>1, <1>2, RoundedBelow
<1>5. S % Unit = S /\ S \div Unit = 0
  <2>1. Unit * 0 + S = S /\ Unit \in Nat \ {0}
    BY <1>1, UnitIs, SMT
  <2> QED BY <1>1, <2>1, DivModUnique
<1>6. r = [whole |-> 0 + (w * k) \div Unit, part |-> (w * k) % Unit]
  <2>1. r = [whole |-> (0 + S \div Unit) + Nearest(S % Unit, Place(0 + S \div Unit, S % Unit)) \div Unit,
             part |-> Nearest(S % Unit, Place(0 + S \div Unit, S % Unit)) % Unit]
    BY DEF Rounded
  <2>2. 0 + S \div Unit = 0
    BY <1>5
  <2> HIDE DEF S, w
  <2>3. Place(0, S) = w
    BY DEF w
  <2> QED BY <1>4, <1>5, <2>1, <2>2, <2>3
<1> HIDE DEF r, S, w, next, P
<1>7. CASE w * k + w <= Unit
  <2>1. w * k < Unit
    BY <1>2, <1>4, <1>7, UnitIs
  <2>2. (w * k) \div Unit = 0 /\ (w * k) % Unit = w * k
    <3>1. Unit * 0 + w * k = w * k /\ Unit \in Nat \ {0}
      BY <1>4, UnitIs, SMT
    <3> QED BY <1>4, <2>1, <3>1, DivModUnique
  <2>3. r.whole = 0 /\ r.part = w * k
    BY <1>6, <2>2
  <2>4. /\ Place(0, w * k) \in {w, 2 * w}
        /\ \E m \in Nat : w * k = Place(0, w * k) * m /\ m <= Top
    BY <1>1, <1>2, <1>4, <2>1, NarrowPlace
  <2>5. Raised(P, next, w * k, w)
    <3>1. w * k - P - HalfCent = w * k - S /\ S = P + HalfCent
      BY <1>1, <1>4 DEF S
    <3> QED BY <1>1, <1>2, <1>3, <1>4, <2>1, <3>1 DEF Raised
  <2>6. Narrow(v, r)
    BY <1>2, <2>3, <2>4, <2>5 DEF Narrow, P, next
  <2>7. Fits(r)
    BY <1>4, <2>1, <2>3, <2>4, UnitIs DEF Fits
  <2> QED BY <2>6, <2>7 DEF Rounding, r
<1>8. CASE w * k = Unit
  <2>1. (w * k) \div Unit = 1 /\ (w * k) % Unit = 0
    <3>1. Unit * 1 + 0 = w * k /\ Unit \in Nat \ {0} /\ 0 < Unit
      BY <1>8, UnitIs, SMT
    <3> QED BY <3>1, DivModUnique
  <2>2. r.whole = 1 /\ r.part = 0
    BY <1>6, <2>1
  <2>3. Unit <= P + next + HalfCent
    BY <1>1, <1>2, <1>4, <1>8, UnitIs, SMT DEF S, HalfCent, Small, Binade
  <2>4. Carried(v, r)
    <3>1. r.whole = v.whole + 1
      BY <2>2
    <3> QED BY <1>1, <2>2, <2>3, <3>1 DEF Carried, P, next
  <2>5. Place(1, 0) \in Nat
    BY PlaceOfWhole, UnitIs, SMT
  <2>6. Fits(r)
    <3>1. 0 = Place(1, 0) * 0 /\ 0 <= Top /\ 1 < Top /\ 0 < Unit
      BY <2>5, UnitIs, SMT
    <3> QED BY <2>2, <3>1 DEF Fits
  <2> QED BY <2>4, <2>6 DEF Rounding, r
<1> QED BY <1>4, <1>7, <1>8

(* A multiple of a place is few times it.                                  *)
LEMMA FewTimes ==
  ASSUME NEW w \in Large, NEW k \in Nat, w * k <= Unit
  PROVE  k <= Top
<1>1. 128 <= w /\ w \in Nat
  BY SMT DEF Large
<1>2. 128 * k <= w * k
  BY <1>1
<1>3. w * k \in Nat
  BY <1>1
<1> DEFINE x == w * k
<1> HIDE DEF x
<1>4. 128 * k <= x /\ x \in Nat /\ x <= Unit
  BY <1>2, <1>3 DEF x
<1> QED BY <1>4, UnitIs, SMT

(* From one on, with no carry into the whole before rounding.              *)
LEMMA RoundedWide ==
  ASSUME NEW v, IsFloat(v), v.whole > 0, v.part + HalfCent < Unit
  PROVE  Rounding(v, Rounded(v))
<1> DEFINE W == v.whole
           P == v.part
           S == P + HalfCent
           w == Place(W, S)
           r == Rounded(v)
<1>1. P \in Nat /\ P < Unit /\ S \in Nat /\ S < Unit /\ HalfCent \in Nat
      /\ W \in Nat /\ W > 0 /\ W < Top
  BY UnitIs, SMT DEF IsFloat, HalfCent
<1>2. w \in Large /\ w \in Places /\ w \in Nat \ {0} /\ Place(W, P) = w
  BY <1>1, PlaceTyped, WholePlace
<1>3. PICK k \in Nat : /\ Nearest(S, w) = w * k /\ w * k \in Nat
                       /\ -w <= 2 * (w * k - S) /\ 2 * (w * k - S) <= w
                       /\ w * k = Unit \/ w * k + w <= Unit
  BY <1>1, <1>2, RoundedBelow
<1>4. S % Unit = S /\ S \div Unit = 0
  <2>1. Unit * 0 + S = S /\ Unit \in Nat \ {0}
    BY <1>1, UnitTyped
  <2> QED BY <1>1, <2>1, DivModUnique
<1>5. r = [whole |-> W + (w * k) \div Unit, part |-> (w * k) % Unit]
  <2>1. r = [whole |-> (W + S \div Unit) + Nearest(S % Unit, Place(W + S \div Unit, S % Unit)) \div Unit,
             part |-> Nearest(S % Unit, Place(W + S \div Unit, S % Unit)) % Unit]
    BY DEF Rounded
  <2>2. W + S \div Unit = W
    BY <1>1, <1>4
  <2> HIDE DEF S, w, W
  <2>3. Place(W, S) = w
    BY DEF w
  <2> QED BY <1>3, <1>4, <2>1, <2>2, <2>3
<1> HIDE DEF r, S, w, P, W
<1>6. CASE w * k + w <= Unit
  <2>1. w * k < Unit /\ k <= Top
    <3>1. w * k < Unit /\ w * k <= Unit
      BY <1>2, <1>3, <1>6, UnitTyped
    <3> QED BY <1>2, <3>1, FewTimes
  <2>2. (w * k) \div Unit = 0 /\ (w * k) % Unit = w * k
    <3>1. Unit * 0 + w * k = w * k /\ Unit \in Nat \ {0}
      BY <1>3, UnitTyped
    <3> QED BY <1>3, <2>1, <3>1, DivModUnique
  <2>3. r.whole = W /\ r.part = w * k
    BY <1>1, <1>5, <2>2
  <2>4. Place(W, w * k) = w
    BY <1>1, <1>2, WholePlace
  <2>5. w * k - P - HalfCent = w * k - S
    BY <1>1, <1>3 DEF S
  <2>6. Wide(v, r)
    BY <1>1, <1>2, <1>3, <2>3, <2>4, <2>5 DEF Wide, P, W
  <2>7. Fits(r)
    BY <1>1, <1>3, <2>1, <2>3, <2>4 DEF Fits
  <2> QED BY <2>6, <2>7 DEF Rounding, r
<1>7. CASE w * k = Unit
  <2>1. (w * k) \div Unit = 1 /\ (w * k) % Unit = 0
    <3>1. Unit * 1 + 0 = w * k /\ Unit \in Nat \ {0} /\ 0 < Unit
      BY <1>7, UnitTyped
    <3> QED BY <3>1, DivModUnique
  <2>2. r.whole = W + 1 /\ r.part = 0
    BY <1>5, <2>1
  <2>3. Unit <= P + w + HalfCent
    BY <1>1, <1>2, <1>3, <1>7, UnitTyped DEF S
  <2>4. Carried(v, r)
    BY <1>1, <1>2, <2>2, <2>3 DEF Carried, P, W
  <2>5. W + 1 < Top
    <3> SUFFICES ASSUME ~(W + 1 < Top) PROVE FALSE
      OBVIOUS
    <3>1. P = 0 /\ w = Unit
      BY <1>2, TopHasNoPart DEF P, W
    <3>2. 2 * (Unit - HalfCent) <= Unit
      BY <1>1, <1>3, <1>7, <3>1, UnitTyped DEF S
    <3> QED BY <3>2, UnitIs, SMT DEF HalfCent
  <2>6. Place(W + 1, 0) \in Nat
    BY <1>1, <2>5, PlaceTyped, UnitTyped
  <2>7. 0 = Place(W + 1, 0) * 0 /\ 0 <= Top /\ 0 < Unit /\ W + 1 \in Nat
    BY <1>1, <2>6, UnitTyped
  <2>8. Fits(r)
    BY <2>2, <2>5, <2>7 DEF Fits
  <2> QED BY <2>4, <2>8 DEF Rounding, r
<1> QED BY <1>3, <1>6, <1>7

(* A carry into the whole before rounding.                                 *)
LEMMA RoundedCarried ==
  ASSUME NEW v, IsFloat(v), ~(v.part + HalfCent < Unit)
  PROVE  Rounding(v, Rounded(v))
<1> DEFINE W == v.whole
           P == v.part
           S == P + HalfCent
           rest == S - Unit
           next == Place(W, P)
           w == Place(W + 1, rest)
           r == Rounded(v)
<1>1. /\ P \in Nat /\ P < Unit /\ S \in Nat /\ rest \in Nat /\ rest < Unit /\ HalfCent \in Nat
      /\ rest = P + HalfCent - Unit /\ W \in Nat /\ W < Top
  BY UnitIs, SMT DEF IsFloat, HalfCent
<1>2. W + 1 < Top
  <2> SUFFICES ASSUME ~(W + 1 < Top) PROVE FALSE
    OBVIOUS
  <2>1. P = 0
    BY TopHasNoPart
  <2>2. HalfCent < Unit
    BY UnitIs, SMT DEF HalfCent
  <2> QED BY <1>1, <2>1, <2>2, UnitTyped
<1>3. w \in Large /\ w \in Places /\ w \in Nat \ {0} /\ w <= 128 * (W + 1)
  <2>1. W + 1 \in Nat /\ W + 1 > 0
    BY <1>1
  <2> HIDE DEF rest
  <2>2. Place(W + 1, rest) <= 128 * (W + 1)
    BY <1>2, <2>1, PlaceOfWhole, UnitIs, SMT
  <2> QED BY <1>1, <1>2, <2>1, <2>2, PlaceTyped
<1>4. next \in Nat \ {0} /\ P + next <= Unit
  BY FloatParts
<1>5. w <= 2 * next
  <2>1. CASE W = 0
    <3>1. next \in Small /\ Binade(P, next)
      BY <1>1, <2>1, PlaceTyped
    <3> HIDE DEF next, w, rest, S, P
    <3>2. next = 64
      BY <1>1, <3>1, UnitIs, SMT DEF HalfCent, Small, Binade
    <3> QED BY <1>3, <2>1, <3>2
  <2>2. CASE W > 0
    <3>1. 64 * (W + 1) <= next
      BY <1>1, <2>2, PlaceOfWhole, UnitIs, SMT
    <3> QED BY <1>1, <1>3, <1>4, <3>1
  <2> QED BY <1>1, <2>1, <2>2
<1>6. PICK k \in Nat : /\ Nearest(rest, w) = w * k /\ w * k \in Nat
                       /\ -w <= 2 * (w * k - rest) /\ 2 * (w * k - rest) <= w
  <2> HIDE DEF rest, w
  <2> QED BY <1>1, <1>3, RoundedBelow
<1>7. S % Unit = rest /\ S \div Unit = 1
  <2>1. Unit * 1 + rest = S /\ Unit \in Nat \ {0}
    BY <1>1, UnitTyped
  <2> HIDE DEF rest, S
  <2>2. 1 \in Nat /\ rest \in Nat /\ rest < Unit
    BY <1>1
  <2>3. (Unit * 1 + rest) % Unit = rest /\ (Unit * 1 + rest) \div Unit = 1
    BY <2>1, <2>2, DivModUnique, Zenon
  <2> QED BY <2>1, <2>3, Zenon
<1>8. w * k <= HalfCent /\ w * k < Unit
  <2>1. HalfCent < Unit
    BY UnitIs, SMT DEF HalfCent
  <2> DEFINE x == w * k
  <2>2. x \in Nat /\ 2 * (x - rest) <= w
    BY <1>6
  <2>3. rest + next <= HalfCent
    BY <1>1, <1>4, UnitTyped
  <2> HIDE DEF w, next, rest, S, P, x
  <2>4. x <= HalfCent
    BY <1>1, <1>3, <1>4, <1>5, <2>2, <2>3
  <2> QED BY <1>1, <2>1, <2>2, <2>4, UnitTyped DEF x
<1>9. r = [whole |-> W + 1, part |-> w * k]
  <2>1. r = [whole |-> (W + S \div Unit) + Nearest(S % Unit, Place(W + S \div Unit, S % Unit)) \div Unit,
             part |-> Nearest(S % Unit, Place(W + S \div Unit, S % Unit)) % Unit]
    BY DEF Rounded
  <2> HIDE DEF S, w, rest
  <2>2. Place(W + 1, rest) = w
    BY DEF w
  <2>3. r = [whole |-> (W + 1) + (w * k) \div Unit, part |-> (w * k) % Unit]
    BY <1>6, <1>7, <2>1, <2>2
  <2>4. (w * k) \div Unit = 0 /\ (w * k) % Unit = w * k
    <3>1. Unit * 0 + w * k = w * k /\ Unit \in Nat \ {0}
      BY <1>6, UnitTyped
    <3> QED BY <1>6, <1>8, <3>1, DivModUnique
  <2>5. (W + 1) + 0 = W + 1
    BY <1>1
  <2> QED BY <2>3, <2>4, <2>5
<1> HIDE DEF r, w
<1>10. Carried(v, r)
  BY <1>1, <1>4, <1>8, <1>9, UnitTyped DEF Carried
<1>11. Fits(r)
  <2>1. W + 1 \in Nat /\ W + 1 > 0 /\ k <= Top
    BY <1>1, <1>3, <1>6, <1>8, FewTimes, UnitTyped
  <2>2. Place(W + 1, w * k) = w
    BY <2>1, WholePlace DEF w
  <2> HIDE DEF W, P, S, rest, next
  <2> QED BY <1>2, <1>6, <1>8, <1>9, <2>1, <2>2 DEF Fits
<1> QED BY <1>10, <1>11 DEF Rounding, r

(* There is no other way.                                                  *)
LEMMA RoundedIs == ASSUME NEW v, IsFloat(v) PROVE Rounding(v, Rounded(v))
<1>1. v.whole \in Nat
  BY DEF IsFloat
<1>2. CASE ~(v.part + HalfCent < Unit)
  BY <1>2, RoundedCarried
<1>3. CASE v.part + HalfCent < Unit /\ v.whole = 0
  BY <1>3, RoundedNarrow
<1>4. CASE v.part + HalfCent < Unit /\ v.whole > 0
  BY <1>4, RoundedWide
<1> QED BY <1>1, <1>2, <1>3, <1>4

(* A number of halves of a hundredth, in units, is cut off.                *)
LEMMA HalvesAre ==
  ASSUME NEW n \in Int, NEW j \in Int
  PROVE  /\ Unit * j < 200 * n => Halves(j) < n
         /\ 200 * n <= Unit * j => n <= Halves(j)
<1> DEFINE q == (3 * j) \div 25
<1>1. q \in Int /\ 25 * q <= 3 * j /\ 3 * j < 25 * q + 25
  BY SMT
<1>2. Halves(j) = j * 5368709 + q
  BY SMT DEF Halves
<1> HIDE DEF q
<1>3. Unit * j = 200 * (j * 5368709) + 24 * j
  BY UnitIs, SMT
<1> DEFINE a == j * 5368709
<1>4. a \in Int /\ Halves(j) = a + q /\ Unit * j = 200 * a + 24 * j
  BY <1>2, <1>3, SMT
<1> HIDE DEF a
<1> QED BY <1>1, <1>4, SMT

(* The two digits behind the point, and the number of hundredths written.  *)
Tenths(v) == LET r == Rounded(v)
                 u == Place(r.whole, r.part)
             IN Times10([m |-> r.part \div u, u |-> u])
Cents(v) == Times10(Tenths(v))
Hundredths(v) == 100 * Rounded(v).whole + 10 * Tenths(v).digit + Cents(v).digit

(* A float is rounded to a hundredth that is as near as any other, but for *)
(* the distance to the next float.                                         *)
LEMMA FloatDigits ==
  ASSUME NEW v, IsFloat(v)
  PROVE  LET cents == Hundredths(v) - 100 * v.whole
             next == Place(v.whole, v.part)
         IN /\ Rounded(v).whole \in Nat /\ Rounded(v).whole < Top
            /\ Tenths(v).digit \in 0 .. 9 /\ Cents(v).digit \in 0 .. 9
            /\ Halves(2 * cents - 1) < v.part + next /\ v.part - next <= Halves(2 * cents + 1)
<1> DEFINE r == Rounded(v)
           u == Place(r.whole, r.part)
           x == r.part
           t == Tenths(v)
           c == Cents(v)
           d1 == t.digit
           d2 == c.digit
           y1 == t.u * t.m
           y2 == c.u * c.m
           W == v.whole
           P == v.part
           next == Place(W, P)
<1>1. Fits(r) /\ (Carried(v, r) \/ Wide(v, r) \/ Narrow(v, r))
  BY RoundedIs DEF Rounding
<1>2. /\ r.whole \in Nat /\ r.whole < Top /\ x \in Nat /\ x < Unit /\ W \in Nat /\ P \in Nat
      /\ P < Unit /\ W < Top
  BY <1>1 DEF Fits, IsFloat
<1>3. u \in Places /\ u \in Nat \ {0} /\ (r.whole > 0 => u \in Large) /\ next \in Nat
  BY <1>2, PlaceTyped
<1>4. PICK m \in Nat : x = u * m /\ m <= Top
  BY <1>1 DEF Fits
<1> HIDE DEF r, x, next, W, P
<1>5. t = Times10([m |-> m, u |-> u])
  <2>1. x \div u = m
    <3>1. u * m + 0 = u * m /\ 0 < u
      BY <1>3
    <3> QED BY <1>3, <1>4, <3>1, DivModUnique
  <2> QED BY <2>1 DEF Tenths, r, x
<1> HIDE DEF u
<1> HIDE DEF t
<1>6. /\ Tenfold(x, u, t.u, d1, y1) /\ t.u \in Places /\ d1 \in 0 .. 9 /\ t.m \in Nat
      /\ t.m <= Top /\ t.u * t.m < Unit /\ t = [digit |-> t.digit, m |-> t.m, u |-> t.u]
  BY <1>2, <1>3, <1>4, <1>5, Times10Is
<1>7. c = Times10([m |-> t.m, u |-> t.u])
  <2>1. c = Times10(t)
    BY DEF Cents, t
  <2> QED BY <1>6, <2>1 DEF Times10
<1> HIDE DEF c
<1>8. Tenfold(y1, t.u, c.u, d2, y2) /\ d2 \in 0 .. 9
  BY <1>6, <1>7, Times10Is
<1> DEFINE w1 == t.u
           w2 == c.u
           C == 10 * d1 + d2
<1> HIDE DEF d1, d2, y1, y2, w1, w2
<1>9. Tenfold(x, u, w1, d1, y1) /\ Tenfold(y1, w1, w2, d2, y2) /\ C \in Int
  BY <1>6, <1>8 DEF w1, w2
<1>10. ASSUME r.whole = W, Close(P, next, C)
       PROVE  LET cents == 100 * r.whole + 10 * d1 + d2 - 100 * W
              IN Halves(2 * cents - 1) < P + next /\ P - next <= Halves(2 * cents + 1)
  <2>1. 100 * r.whole + 10 * d1 + d2 - 100 * W = C
    BY <1>2, <1>6, <1>8, <1>10
  <2> HIDE DEF C
  <2>2. 2 * C - 1 \in Int /\ 2 * C + 1 \in Int /\ P + next \in Int /\ P - next \in Int
    BY <1>2, <1>3, <1>9
  <2> QED BY <1>10, <2>1, <2>2, HalvesAre DEF Close
<1>11. CASE Carried(v, r)
  <2>1. r.whole = W + 1 /\ x <= HalfCent /\ Unit <= P + next + HalfCent
    BY <1>11 DEF Carried, W, P, x, next
  <2>2. u \in Large
    BY <1>2, <1>3, <2>1
  <2>3. d1 = 0 /\ d2 = 0
    BY <1>2, <1>9, <2>1, <2>2, CarriedDigits
  <2>4. 100 * r.whole + 10 * d1 + d2 - 100 * W = 100
    BY <1>2, <2>1, <2>3
  <2>5. Unit * 199 < 200 * (P + next)
    BY <1>2, <1>3, <2>1, UnitIs, SMT DEF HalfCent
  <2>6. 200 * (P - next) <= Unit * 201
    BY <1>2, <1>3, UnitIs, SMT
  <2>7. Halves(199) < P + next /\ P - next <= Halves(201)
    <3>1. P + next \in Int /\ P - next \in Int /\ 199 \in Int /\ 201 \in Int
      BY <1>2, <1>3
    <3> QED BY <2>5, <2>6, <3>1, HalvesAre
  <2>8. 2 * 100 - 1 = 199 /\ 2 * 100 + 1 = 201
    OBVIOUS
  <2> QED BY <1>2, <1>6, <1>8, <2>4, <2>7, <2>8 DEF Hundredths, r, W, P, next, d1, d2, t, c
<1>12. CASE Wide(v, r)
  <2>1. r.whole = W /\ 0 < W /\ next = u /\ -next <= 2 * (x - P - HalfCent) /\ 2 * (x - P - HalfCent) <= next
    BY <1>12 DEF Wide, W, P, x, next, u
  <2>2. u \in Large
    BY <1>2, <1>3, <2>1
  <2>3. Close(P, u, C)
    BY <1>2, <1>9, <2>1, <2>2, WideClose
  <2> QED BY <1>2, <1>6, <1>8, <1>10, <2>1, <2>3 DEF Hundredths, r, W, P, next, d1, d2, t, c
<1>13. CASE Narrow(v, r)
  <2>1. r.whole = W /\ W = 0
    BY <1>13 DEF Narrow, W
  <2>2. PICK w \in Small : Raised(P, Place(0, P), x, w) /\ Place(0, x) \in {w, 2 * w}
    BY <1>13 DEF Narrow, P, x
  <2>3. next = Place(0, P) /\ u = Place(0, x) /\ next \in Small
    <3>1. next = Place(0, P) /\ u = Place(0, x)
      BY <2>1 DEF next, u, x
    <3> QED BY <1>2, <3>1, PlaceTyped, UnitTyped
  <2>4. Close(P, next, C)
    BY <1>9, <2>2, <2>3, SmallClose
  <2> QED BY <1>2, <1>6, <1>8, <1>10, <2>1, <2>4 DEF Hundredths, r, W, P, next, d1, d2, t, c
<1> QED BY <1>1, <1>11, <1>12, <1>13

-----------------------------------------------------------------------------
(* The text of a float.                                                    *)

(* The whole number's digits: a loop that nothing stops before the end.    *)
Codes == [r \in -15 .. 15 |-> r + Zero]

(* AllDigits is such a loop.                                               *)
LEMMA AllDigitsTurns == AllDigits = CHOOSE f : f = Turns(10, {}, Codes, f)
<1>1. \A f : Turns(10, {}, Codes, f)
          = [whole \in Ints |->
                IF whole = 0 THEN <<>>
                ELSE <<Remainder(whole, 10) + Zero>> \o f[Quotient(whole, 10)]]
  <2> TAKE f
  <2> DEFINE Body(whole) == IF whole = 0 THEN <<>>
                            ELSE <<Remainder(whole, 10) + Zero>> \o f[Quotient(whole, 10)]
  <2>1. ASSUME NEW whole \in Ints PROVE Turn(10, {}, Codes, f, whole) = Body(whole)
    <3>1. Remainder(whole, 10) \in -15 .. 15
      <4>1. whole \in Int
        BY MagnitudeTyped
      <4> QED BY <4>1 DEF Remainder
    <3>2. Codes[Remainder(whole, 10)] = Remainder(whole, 10) + Zero
      BY <3>1 DEF Codes
    <3>3. Magnitude(Remainder(whole, 10)) \notin {}
      OBVIOUS
    <3> QED BY <3>2, <3>3 DEF Turn
  <2> HIDE DEF Body
  <2>2. Turns(10, {}, Codes, f) = [whole \in Ints |-> Body(whole)]
    BY <2>1 DEF Turns
  <2> QED BY <2>2 DEF Body
<1> QED BY <1>1 DEF AllDigits

(* Its alphabet: the codes of the digits.                                  *)
LEMMA CodesTyped == Codes \in Alphabets /\ \A r \in 0 .. 9 : Codes[r] = r + Zero
BY DEF Codes, Alphabets, Zero

(* Below 2^24 there are at most eight digits; the highest is not zero.     *)
LEMMA WholeNumbers ==
  ASSUME NEW W \in Nat, W < Top
  PROVE  /\ W \in Ints /\ W \in Magnitudes /\ W < Pow(10, 8)
         /\ \A d1 \in 0 .. 9, d2 \in 0 .. 9 : 100 * W + 10 * d1 + d2 \in Magnitudes
<1>1. W < 16777216
  BY SMT DEF Top
<1>2. W \in Ints
  BY <1>1, IntsAre, SMT
<1>3. W \in Magnitudes
  BY <1>1, SMT DEF Magnitudes
<1>4. W < Pow(10, 8)
  BY <1>1, PowersOfTen, SMT
<1>5. \A d1 \in 0 .. 9, d2 \in 0 .. 9 : 100 * W + 10 * d1 + d2 \in Magnitudes
  BY <1>1, SMT DEF Magnitudes
<1> QED BY <1>2, <1>3, <1>4, <1>5, Zenon

(* The text of a whole number and how many places it has.                  *)
WholeText(W) == IF W = 0 THEN <<Zero>> ELSE AllDigits[W]
WholePlaces(W) == IF W = 0 THEN 1 ELSE Count(10, {}, W)

(* The whole number's text is its digits.                                  *)
LEMMA WholeIs ==
  ASSUME NEW W \in Nat, W < Top
  PROVE  LET c == WholePlaces(W)
         IN /\ c \in 1 .. 8 /\ WholeText(W) = [k \in 1 .. c |-> Dig(10, W, k) + Zero]
            /\ \A k \in 1 .. c : Dig(10, W, k) \in 0 .. 9
            /\ W < Pow(10, c)
            /\ W # 0 => Dig(10, W, c) # 0
<1>1. W \in Ints /\ W \in Magnitudes /\ W < Pow(10, 8)
  BY WholeNumbers, Zenon
<1>2. 10 \in Bases /\ AllPlaces(10) = 10
  BY DEF Bases, AllPlaces
<1>3. \A n \in 0 .. 10 : Pow(10, n) \in Nat \ {0}
  BY <1>2, Powers
<1>4. CASE W = 0
  <2>1. Dig(10, 0, 1) = 0
    <3>1. 0 \in Magnitudes /\ 0 % 10 = 0
      BY <1>1, <1>4
    <3> QED BY <1>2, <3>1, DigShifts
  <2>2. WholePlaces(W) = 1 /\ WholeText(W) = <<Zero>>
    BY <1>4 DEF WholePlaces, WholeText
  <2>3. 0 + Zero = Zero
    BY DEF Zero
  <2>4. <<Zero>> = [k \in 1 .. 1 |-> Dig(10, 0, k) + Zero]
    BY <2>1, <2>3
  <2>5. 0 < Pow(10, 1)
    BY <1>3
  <2>6. \A k \in 1 .. 1 : Dig(10, 0, k) = 0
    BY <2>1
  <2> DEFINE c == WholePlaces(W)
  <2>7. c = 1 /\ 1 \in 1 .. 8
    BY <2>2
  <2> HIDE DEF c
  <2>8. WholeText(W) = [k \in 1 .. c |-> Dig(10, W, k) + Zero]
    BY <1>4, <2>2, <2>4, <2>7
  <2>9. \A k \in 1 .. c : Dig(10, W, k) \in 0 .. 9
    BY <1>4, <2>6, <2>7
  <2>10. W < Pow(10, c)
    BY <1>4, <2>5, <2>7
  <2> QED BY <1>4, <2>7, <2>8, <2>9, <2>10 DEF c
<1>5. CASE W # 0
  <2> DEFINE c == Count(10, {}, W)
  <2>1. WholePlaces(W) = c /\ WholeText(W) = AllDigits[W]
    BY <1>5 DEF WholePlaces, WholeText
  <2>2. /\ c \in 1 .. 10 /\ Stopping(10, {}, W, c)
        /\ \A j \in 1 .. c - 1 : ~Stopping(10, {}, W, j)
    BY <1>1, <1>2, CountIsFirst DEF IsCount
  <2>3. W \div Pow(10, c) = 0 /\ \A j \in 1 .. c - 1 : W \div Pow(10, j) # 0
    BY <2>2 DEF Stopping
  <2>4. AllDigits[W] = Spelt(10, {}, W, Codes)
    BY <1>1, <1>2, AllDigitsTurns, TurnsSpell, CodesTyped
  <2>5. AllDigits[W] = [k \in 1 .. c |-> Codes[Dig(10, W, k)]]
    BY <1>5, <2>4 DEF Spelt
  <2> HIDE DEF c
  <2>6. \A k \in 1 .. c : Dig(10, W, k) \in 0 .. 9
    <3> TAKE k \in 1 .. c
    <3>1. k \in 1 .. AllPlaces(10)
      BY <1>2, <2>2
    <3>2. Dig(10, W, k) \in 0 .. 10 - 1
      BY <1>1, <1>2, <3>1, DigTyped
    <3> QED BY <3>2
  <2>7. \A k \in 1 .. c : Codes[Dig(10, W, k)] = Dig(10, W, k) + Zero
    BY <2>6, CodesTyped
  <2>8. AllDigits[W] = [k \in 1 .. c |-> Dig(10, W, k) + Zero]
    BY <2>5, <2>7
  <2>9. ASSUME NEW n \in 0 .. 10, W < Pow(10, n) PROVE W \div Pow(10, n) = 0
    <3> DEFINE q == Pow(10, n)
    <3>1. q \in Nat \ {0}
      BY <1>3
    <3> HIDE DEF q
    <3>2. W < q
      BY <2>9 DEF q
    <3>3. q * 0 + W = W
      BY <3>1
    <3>4. W \div q = 0
      BY <3>1, <3>2, <3>3, DivModUnique
    <3> QED BY <3>4 DEF q
  <2>10. c \in 1 .. 8
    <3>1. W \div Pow(10, 8) = 0
      BY <1>1, <2>9
    <3>2. 8 \notin 1 .. c - 1
      BY <2>3, <3>1
    <3> QED BY <2>2, <3>2
  <2>11. W < Pow(10, c)
    <3> DEFINE q == Pow(10, c)
    <3>1. q \in Nat \ {0} /\ W \div q = 0
      BY <1>3, <2>2, <2>3
    <3> HIDE DEF q
    <3>2. W = q * (W \div q) + (W % q) /\ W % q \in 0 .. q - 1
      BY <3>1, DivMod
    <3>3. W < q
      BY <3>1, <3>2
    <3> QED BY <3>3 DEF q
  <2>12. Dig(10, W, c) # 0
    <3> DEFINE q == W \div Pow(10, c - 1)
    <3>1. Pow(10, c - 1) \in Nat \ {0} /\ Pow(10, c) = 10 * Pow(10, c - 1)
      BY <1>2, <2>10, Powers
    <3>2. q \in Nat
      BY <3>1, DivMod
    <3>3. q # 0
      <4>1. CASE c = 1
        <5>1. Pow(10, c - 1) = 1 /\ W \div 1 = W
          BY <1>2, <4>1, Powers
        <5> QED BY <1>5, <5>1
      <4>2. CASE c # 1
        BY <2>3, <2>10, <4>2
      <4> QED BY <4>1, <4>2
    <3>4. q \div 10 = 0
      <4>1. q \div 10 = W \div (Pow(10, c - 1) * 10)
        BY <3>1, DivDiv
      <4>2. Pow(10, c - 1) * 10 = Pow(10, c)
        BY <3>1
      <4> QED BY <2>3, <4>1, <4>2
    <3> HIDE DEF q
    <3>5. q % 10 # 0
      BY <3>2, <3>3, <3>4
    <3> QED BY <3>5 DEF Dig, q
  <2> QED BY <2>1, <2>6, <2>8, <2>10, <2>11, <2>12
<1> QED BY <1>4, <1>5

(* The digits of a whole number of c places with two more behind it.       *)
TwoBehind(M, W, c, d1, d2) ==
    /\ M \in Magnitudes /\ M \in Nat /\ c + 2 \in 3 .. 10
    /\ Dig(10, M, 1) = d2 /\ Dig(10, M, 2) = d1
    /\ \A p \in 1 .. c : Dig(10, M, p + 2) = Dig(10, W, p)
    /\ M % Pow(10, c + 2) = M

(* Its places are those of the number, two further.                        *)
LEMMA TwoMore ==
  ASSUME NEW W \in Nat, W < Top, NEW d1 \in 0 .. 9, NEW d2 \in 0 .. 9,
         NEW M, M = 100 * W + 10 * d1 + d2
  PROVE  TwoBehind(M, W, WholePlaces(W), d1, d2)
<1> DEFINE c == WholePlaces(W)
           h == 10 * W + d1
<1>1. c \in 1 .. 8 /\ W < Pow(10, c)
  BY WholeIs
<1>2. M \in Magnitudes
  BY WholeNumbers, Zenon
<1>3. 10 \in Bases /\ AllPlaces(10) = 10
  BY DEF Bases, AllPlaces
<1>4. M \in Nat /\ h \in Nat /\ M = 10 * h + d2
  BY SMT
<1> HIDE DEF c
<1>5. h % 10 = d1 /\ h \div 10 = W
  BY DivModUnique
<1> HIDE DEF h
<1>6. M % 10 = d2 /\ M \div 10 = h
  BY <1>4, DivModUnique
<1>7. h \in Magnitudes
  BY <1>2, <1>3, <1>6, DigShifts, MagnitudeBelow
<1>8. Dig(10, M, 1) = d2
  BY <1>2, <1>3, <1>6, DigShifts
<1>9. \A k \in 1 .. 10 : Dig(10, M, k + 1) = Dig(10, h, k) /\ Dig(10, h, k + 1) = Dig(10, W, k)
  <2>1. \A k \in 1 .. AllPlaces(10) : Dig(10, M, k + 1) = Dig(10, h, k)
    BY <1>2, <1>3, <1>6, DigShifts
  <2>2. \A k \in 1 .. AllPlaces(10) : Dig(10, h, k + 1) = Dig(10, W, k)
    BY <1>3, <1>5, <1>7, DigShifts
  <2> QED BY <1>3, <2>1, <2>2
<1>10. Dig(10, M, 2) = d1
  <2>1. Dig(10, h, 1) = d1
    BY <1>3, <1>5, <1>7, DigShifts
  <2>2. 1 \in 1 .. 10 /\ 1 + 1 = 2
    OBVIOUS
  <2> QED BY <1>9, <2>1, <2>2
<1>11. \A p \in 1 .. c : Dig(10, M, p + 2) = Dig(10, W, p)
  <2> TAKE p \in 1 .. c
  <2>1. p \in 1 .. 10 /\ p + 1 \in 1 .. 10 /\ (p + 1) + 1 = p + 2
    BY <1>1
  <2>2. Dig(10, M, (p + 1) + 1) = Dig(10, h, p + 1) /\ Dig(10, h, p + 1) = Dig(10, W, p)
    BY <1>9, <2>1
  <2> QED BY <2>1, <2>2
<1>12. M % Pow(10, c + 2) = M
  <2> DEFINE q == Pow(10, c)
  <2>1. /\ c \in 0 .. AllPlaces(10) - 1 /\ c + 1 \in 0 .. AllPlaces(10) - 1
        /\ c \in 0 .. AllPlaces(10) /\ (c + 1) + 1 = c + 2
    BY <1>1, <1>3
  <2>2. /\ q \in Nat \ {0} /\ Pow(10, c + 1) = 10 * q
        /\ Pow(10, (c + 1) + 1) = 10 * Pow(10, c + 1)
    BY <1>3, <2>1, Powers
  <2>3. W < q
    BY <1>1
  <2> HIDE DEF q
  <2>4. Pow(10, c + 2) = 100 * q
    BY <2>1, <2>2
  <2>5. M < 100 * q
    BY <2>2, <2>3
  <2>6. M % (100 * q) = M
    <3> DEFINE e == 100 * q
    <3>1. e \in Nat \ {0} /\ M < e
      BY <2>2, <2>5
    <3> HIDE DEF e
    <3>2. M % e = M
      BY <1>4, <3>1
    <3> QED BY <3>2 DEF e
  <2> QED BY <2>4, <2>6
<1>13. c + 2 \in 3 .. 10
  BY <1>1
<1> QED BY <1>2, <1>4, <1>8, <1>10, <1>11, <1>12, <1>13 DEF TwoBehind, c

(* Two lists of numbers in one.                                            *)
LEMMA JoinedInts ==
  ASSUME NEW s \in Seq(Int), NEW t \in Seq(Int)
  PROVE  /\ s \o t \in Seq(Int) /\ Len(s \o t) = Len(s) + Len(t)
         /\ \A k \in 1 .. Len(s) : (s \o t)[k] = s[k]
         /\ \A k \in 1 .. Len(t) : (s \o t)[Len(s) + k] = t[k]
<1> DEFINE X == Int
<1> HIDE DEF X
<1>1. \A a, b : a \in Seq(X) /\ b \in Seq(X) =>
             /\ a \o b \in Seq(X) /\ Len(a \o b) = Len(a) + Len(b)
             /\ \A k \in 1 .. Len(a) : (a \o b)[k] = a[k]
             /\ \A k \in 1 .. Len(b) : (a \o b)[Len(a) + k] = b[k]
  BY Joined
<1>2. s \in Seq(X) /\ t \in Seq(X)
  BY DEF X
<1>3. /\ s \o t \in Seq(X) /\ Len(s \o t) = Len(s) + Len(t)
      /\ \A k \in 1 .. Len(s) : (s \o t)[k] = s[k]
      /\ \A k \in 1 .. Len(t) : (s \o t)[Len(s) + k] = t[k]
  BY <1>1, <1>2
<1> QED BY <1>3 DEF X

(* A padded text, place by place.                                          *)
LEMMA PaddedTyped ==
  ASSUME NEW N \in Nat, NEW text \in Seq(Int)
  PROVE  /\ Padded(text, N) \in Seq(Int) /\ Len(Padded(text, N)) = N
         /\ \A k \in 1 .. N : Padded(text, N)[k] = CASE k = N -> Nul
                                                     [] N - k \in 1 .. Len(text) -> text[N - k]
                                                     [] OTHER -> Space
<1> DEFINE buf == Padded(text, N)
<1>1. \A k \in 1 .. N : buf[k] = CASE k = N -> Nul
                                   [] N - k \in 1 .. Len(text) -> text[N - k]
                                   [] OTHER -> Space
  BY DEF Padded
<1>2. Space \in Int /\ Nul \in Int
  BY DEF Space, Nul
<1>3. buf = [k \in 1 .. N |-> buf[k]]
  BY DEF Padded
<1> HIDE DEF buf
<1>4. \A k \in 1 .. N : buf[k] \in Int
  <2> TAKE k \in 1 .. N
  <2>1. N - k \in 1 .. Len(text) => text[N - k] \in Int
    OBVIOUS
  <2> QED BY <1>1, <1>2, <2>1
<1>5. buf \in Seq(Int) /\ Len(buf) = N
  <2> DEFINE all == [k \in 1 .. N |-> buf[k]]
  <2>1. all \in Seq(Int) /\ Len(all) = N
    BY <1>4
  <2> HIDE DEF all
  <2>2. buf = all
    BY <1>3 DEF all
  <2> QED BY <2>1, <2>2
<1> QED BY <1>1, <1>5 DEF buf

(* A text of a float: two digits, a point, more digits and a sign.  What   *)
(* is left without the point.                                              *)
LEMMA Pointless ==
  ASSUME NEW N \in Nat, NEW n \in Nat, n + 2 <= N, n >= 2,
         NEW text \in Seq(Int), Len(text) = n + 1,
         NEW short \in Seq(Int), Len(short) = n, short[1] = text[1], short[2] = text[2],
         \A p \in 3 .. n : short[p] = text[p + 1]
  PROVE  /\ NoPoint(Padded(text, N)) = Padded(short, N)
         /\ Len(Padded(text, N)) = N /\ Padded(text, N)[N - 3] = text[3]
<1> DEFINE buf == Padded(text, N)
           low == SubSeq(buf, 1, N - 4)
           high == SubSeq(buf, N - 2, N)
           front == <<Space>> \o low
           bare == Padded(short, N)
<1>1. \A k \in 1 .. N : buf[k] = CASE k = N -> Nul
                                   [] N - k \in 1 .. n + 1 -> text[N - k]
                                   [] OTHER -> Space
  BY DEF Padded
<1>2. \A k \in 1 .. N : bare[k] = CASE k = N -> Nul
                                    [] N - k \in 1 .. n -> short[N - k]
                                    [] OTHER -> Space
  BY DEF Padded
<1>3. Space \in Int /\ Nul \in Int
  BY DEF Space, Nul
<1>6. buf \in Seq(Int) /\ Len(buf) = N
  BY PaddedTyped
<1>7. bare \in Seq(Int) /\ Len(bare) = N
  BY PaddedTyped
<1> HIDE DEF buf, bare
<1>8. low \in Seq(Int) /\ Len(low) = N - 4 /\ \A k \in 1 .. N - 4 : low[k] = buf[k]
  BY <1>6, SubSeqProperties
<1>9. high \in Seq(Int) /\ Len(high) = 3 /\ \A k \in 1 .. 3 : high[k] = buf[N - 3 + k]
  <2>1. /\ high \in Seq(Int) /\ Len(high) = N - (N - 2) + 1
        /\ \A k \in 1 .. N - (N - 2) + 1 : high[k] = buf[(N - 2) + k - 1]
    BY <1>6, SubSeqProperties
  <2>2. N - (N - 2) + 1 = 3 /\ \A k \in 1 .. 3 : (N - 2) + k - 1 = N - 3 + k
    OBVIOUS
  <2> QED BY <2>1, <2>2
<1>10. NoPoint(buf) = front \o high
  <2>1. NoPoint(buf) = (<<Space>> \o SubSeq(buf, 1, N - 4)) \o SubSeq(buf, N - 2, N)
    BY <1>6 DEF NoPoint
  <2> QED BY <2>1
<1> HIDE DEF low, high
<1>11. /\ <<Space>> \in Seq(Int) /\ Len(<<Space>>) = 1 /\ <<Space>>[1] = Space
  BY <1>3
<1>12. /\ front \in Seq(Int) /\ Len(front) = N - 3 /\ front[1] = Space
       /\ \A k \in 1 .. N - 4 : front[1 + k] = buf[k]
  <2> DEFINE s == <<Space>>
  <2>1. /\ s \in Seq(Int) /\ Len(s) = 1 /\ s[1] = Space
    BY <1>11
  <2> HIDE DEF s
  <2>2. /\ s \o low \in Seq(Int) /\ Len(s \o low) = Len(s) + Len(low)
        /\ \A k \in 1 .. Len(s) : (s \o low)[k] = s[k]
        /\ \A k \in 1 .. Len(low) : (s \o low)[Len(s) + k] = low[k]
    BY <1>8, <2>1, JoinedInts, Zenon
  <2>3. front = s \o low
    BY DEF s
  <2> HIDE DEF front
  <2> QED BY <1>8, <2>1, <2>2, <2>3
<1> HIDE DEF front
<1>13. /\ front \o high \in Seq(Int) /\ Len(front \o high) = N
       /\ \A k \in 1 .. N - 3 : (front \o high)[k] = front[k]
       /\ \A k \in 1 .. 3 : (front \o high)[N - 3 + k] = high[k]
  <2>1. /\ front \o high \in Seq(Int) /\ Len(front \o high) = Len(front) + Len(high)
        /\ \A k \in 1 .. Len(front) : (front \o high)[k] = front[k]
        /\ \A k \in 1 .. Len(high) : (front \o high)[Len(front) + k] = high[k]
    BY <1>9, <1>12, JoinedInts, Zenon
  <2>2. (N - 3) + 3 = N
    OBVIOUS
  <2> QED BY <1>9, <1>12, <2>1, <2>2
<1>14. \A k \in 1 .. N : (front \o high)[k] = bare[k]
  <2> TAKE k \in 1 .. N
  <2>1. CASE k = 1
    <3>1. (front \o high)[1] = Space
      BY <1>12, <1>13
    <3>2. bare[1] = Space
      <4>1. 1 # N /\ ~(N - 1 \in 1 .. n) /\ 1 \in 1 .. N
        OBVIOUS
      <4> QED BY <1>2, <4>1
    <3> QED BY <2>1, <3>1, <3>2
  <2>2. CASE k > 1 /\ k <= N - 3
    <3> DEFINE j == k - 1
    <3>1. /\ j \in 1 .. N - 4 /\ k = 1 + j /\ k \in 1 .. N - 3 /\ j \in 1 .. N /\ j # N /\ k # N
          /\ N - j = (N - k) + 1 /\ N - k \in Nat /\ N - k >= 3
      BY <2>2
    <3>2. (front \o high)[k] = buf[j]
      BY <1>12, <1>13, <3>1
    <3>3. CASE N - k \in 1 .. n
      <4>1. N - k \in 3 .. n /\ N - j \in 1 .. n + 1
        BY <3>1, <3>3
      <4>2. bare[k] = short[N - k] /\ buf[j] = text[(N - k) + 1]
        BY <1>1, <1>2, <3>1, <3>3, <4>1
      <4> QED BY <3>2, <4>1, <4>2
    <3>4. CASE ~(N - k \in 1 .. n)
      <4>1. ~(N - j \in 1 .. n + 1)
        BY <3>1, <3>4
      <4>2. bare[k] = Space /\ buf[j] = Space
        BY <1>1, <1>2, <3>1, <3>4, <4>1
      <4> QED BY <3>2, <4>2
    <3> QED BY <3>3, <3>4
  <2>3. CASE k > N - 3
    <3>1. k = N - 2 \/ k = N - 1 \/ k = N
      BY <2>3
    <3>2. (front \o high)[k] = buf[k]
      <4>1. k - (N - 3) \in 1 .. 3 /\ k = N - 3 + (k - (N - 3))
        BY <2>3
      <4> QED BY <1>9, <1>13, <4>1
    <3>3. CASE k = N
      BY <1>1, <1>2, <3>2, <3>3
    <3>4. CASE k # N
      <4>1. N - k \in 1 .. 2 /\ N - k \in 1 .. n /\ N - k \in 1 .. n + 1
        <5>1. N - k = 1 \/ N - k = 2
          BY <3>1, <3>4
        <5> QED BY <5>1
      <4>2. bare[k] = short[N - k] /\ buf[k] = text[N - k]
        BY <1>1, <1>2, <3>4, <4>1
      <4>3. short[N - k] = text[N - k]
        <5>1. N - k = 1 \/ N - k = 2
          BY <4>1
        <5> QED BY <5>1
      <4> QED BY <3>2, <4>2, <4>3
    <3> QED BY <3>3, <3>4
  <2>4. k = 1 \/ (k > 1 /\ k <= N - 3) \/ k > N - 3
    OBVIOUS
  <2> QED BY <2>1, <2>2, <2>3, <2>4, Zenon
<1>15. front \o high = bare
  BY <1>7, <1>13, <1>14, SeqEqual
<1>16. buf[N - 3] = text[3]
  <2>1. N - 3 \in 1 .. N /\ N - 3 # N /\ N - (N - 3) = 3 /\ 3 \in 1 .. n + 1
    OBVIOUS
  <2> QED BY <1>1, <2>1
<1> QED BY <1>6, <1>10, <1>15, <1>16 DEF buf, bare

(* The characters of a float, from right to left.                          *)
FloatChars(v) ==
    LET number == <<Cents(v).digit + Zero, Tenths(v).digit + Zero, Point>>
                     \o WholeText(Rounded(v).whole)
    IN IF BelowZero(v) THEN Append(number, Minus) ELSE number

(* float_to_ascii() pads these characters.                                 *)
LEMMA FloatPadded ==
  ASSUME NEW v, NEW N
  PROVE  float_to_ascii(v, N) = Padded(FloatChars(v), N)
BY Zenon DEF float_to_ascii, FloatChars, Cents, Tenths, WholeText

(* They are the digits of the hundredths, with the point third.            *)
LEMMA FloatCharsAre ==
  ASSUME NEW v, IsFloat(v)
  PROVE  LET c == WholePlaces(Rounded(v).whole) + 2
             M == Hundredths(v)
             text == FloatChars(v)
         IN /\ text \in Seq(Int) /\ text[3] = Point
            /\ Len(text) = IF BelowZero(v) THEN c + 2 ELSE c + 1
            /\ text[1] = Dig(10, M, 1) + Zero /\ text[2] = Dig(10, M, 2) + Zero
            /\ \A p \in 3 .. c : text[p + 1] = Dig(10, M, p) + Zero
            /\ BelowZero(v) => text[c + 2] = Minus
<1> DEFINE W == Rounded(v).whole
           d1 == Tenths(v).digit
           d2 == Cents(v).digit
           M == Hundredths(v)
           e == WholePlaces(W)
           whole == WholeText(W)
           ends == <<d2 + Zero, d1 + Zero, Point>>
           number == ends \o whole
           text == FloatChars(v)
<1>1. W \in Nat /\ W < Top /\ d1 \in 0 .. 9 /\ d2 \in 0 .. 9
  BY FloatDigits
<1>2. M = 100 * W + 10 * d1 + d2
  BY DEF Hundredths
<1> HIDE DEF W, d1, d2, M
<1>3. /\ Dig(10, M, 1) = d2 /\ Dig(10, M, 2) = d1
      /\ \A p \in 1 .. e : Dig(10, M, p + 2) = Dig(10, W, p)
  <2>1. TwoBehind(M, W, e, d1, d2)
    BY <1>1, <1>2, TwoMore
  <2> QED BY <2>1 DEF TwoBehind
<1>4. /\ e \in 1 .. 8 /\ whole = [k \in 1 .. e |-> Dig(10, W, k) + Zero]
      /\ \A k \in 1 .. e : Dig(10, W, k) \in 0 .. 9
  BY <1>1, WholeIs
<1> HIDE DEF e, whole
<1>5. Zero \in Int /\ Point \in Int /\ Minus \in Int
  BY DEF Zero, Point, Minus
<1>6. whole \in Seq(Int) /\ Len(whole) = e /\ \A k \in 1 .. e : whole[k] = Dig(10, W, k) + Zero
  <2>1. \A k \in 1 .. e : Dig(10, W, k) + Zero \in Int
    BY <1>4, <1>5
  <2> DEFINE f == [k \in 1 .. e |-> Dig(10, W, k) + Zero]
  <2>2. f \in Seq(Int) /\ Len(f) = e /\ \A k \in 1 .. e : f[k] = Dig(10, W, k) + Zero
    BY <1>4, <2>1
  <2> HIDE DEF f
  <2>3. whole = f
    BY <1>4 DEF f
  <2> QED BY <2>2, <2>3
<1>7. /\ ends \in Seq(Int) /\ Len(ends) = 3
      /\ ends[1] = d2 + Zero /\ ends[2] = d1 + Zero /\ ends[3] = Point
  BY <1>1, <1>5
<1> HIDE DEF ends
<1>8. /\ number \in Seq(Int) /\ Len(number) = 3 + e
      /\ \A k \in 1 .. 3 : number[k] = ends[k]
      /\ \A k \in 1 .. e : number[3 + k] = whole[k]
  <2>1. /\ number \in Seq(Int) /\ Len(number) = Len(ends) + Len(whole)
        /\ \A k \in 1 .. Len(ends) : number[k] = ends[k]
        /\ \A k \in 1 .. Len(whole) : number[Len(ends) + k] = whole[k]
    BY <1>6, <1>7, JoinedInts, Zenon
  <2> HIDE DEF number
  <2> QED BY <1>6, <1>7, <2>1
<1>9. text = IF BelowZero(v) THEN Append(number, Minus) ELSE number
  BY Zenon DEF FloatChars, ends, whole, W, d1, d2
<1> HIDE DEF number, text
<1>10. /\ text \in Seq(Int) /\ Len(text) = (IF BelowZero(v) THEN e + 4 ELSE e + 3)
       /\ \A k \in 1 .. e + 3 : text[k] = number[k]
       /\ BelowZero(v) => text[e + 4] = Minus
  <2>1. CASE BelowZero(v)
    <3>1. text = Append(number, Minus)
      BY <1>9, <2>1
    <3>2. /\ text \in Seq(Int) /\ Len(text) = Len(number) + 1
          /\ \A k \in 1 .. Len(number) : text[k] = number[k]
          /\ text[Len(number) + 1] = Minus
      BY <1>5, <1>8, <3>1
    <3>3. 3 + e = e + 3 /\ (3 + e) + 1 = e + 4
      BY <1>4
    <3> QED BY <1>8, <2>1, <3>2, <3>3
  <2>2. CASE ~BelowZero(v)
    BY <1>4, <1>8, <1>9, <2>2
  <2> QED BY <2>1, <2>2
<1> DEFINE c == e + 2
<1>11. \A p \in 3 .. c : text[p + 1] = Dig(10, M, p) + Zero
  <2> TAKE p \in 3 .. c
  <2>1. p - 2 \in 1 .. e /\ (p - 2) + 2 = p /\ 3 + (p - 2) = p + 1 /\ p + 1 \in 1 .. e + 3
    BY <1>4
  <2>2. text[p + 1] = whole[p - 2]
    BY <1>8, <1>10, <2>1
  <2>3. whole[p - 2] = Dig(10, W, p - 2) + Zero
    BY <1>6, <2>1
  <2>4. Dig(10, M, p) = Dig(10, W, p - 2)
    BY <1>3, <2>1
  <2> QED BY <2>2, <2>3, <2>4
<1>12. text[1] = d2 + Zero /\ text[2] = d1 + Zero /\ text[3] = Point
  <2>1. /\ 1 \in 1 .. 3 /\ 2 \in 1 .. 3 /\ 3 \in 1 .. 3
        /\ 1 \in 1 .. e + 3 /\ 2 \in 1 .. e + 3 /\ 3 \in 1 .. e + 3
    BY <1>4
  <2> QED BY <1>7, <1>8, <1>10, <2>1
<1>13. c + 1 = e + 3 /\ c + 2 = e + 4
  BY <1>4
<1> HIDE DEF c
<1>14. /\ text \in Seq(Int) /\ text[3] = Point
       /\ Len(text) = IF BelowZero(v) THEN c + 2 ELSE c + 1
       /\ text[1] = Dig(10, M, 1) + Zero /\ text[2] = Dig(10, M, 2) + Zero
       /\ \A p \in 3 .. c : text[p + 1] = Dig(10, M, p) + Zero
       /\ BelowZero(v) => text[c + 2] = Minus
  BY <1>3, <1>10, <1>11, <1>12, <1>13
<1> QED BY <1>14, Zenon DEF c, e, M, W, text

(* Without the point it is the hundredths that are written.                *)
LEMMA FloatShape ==
  ASSUME NEW v, IsFloat(v), NEW N \in Nat, N >= 13
  PROVE  LET c == WholePlaces(Rounded(v).whole) + 2
             buf == float_to_ascii(v, N)
         IN /\ Shape(NoPoint(buf), N, Digs(10, Hundredths(v), c), c,
                     IF BelowZero(v) THEN Minus ELSE Space)
            /\ buf[Len(buf) - 3] = Point
<1> DEFINE W == Rounded(v).whole
           M == Hundredths(v)
           c == WholePlaces(W) + 2
           d == Digs(10, M, c)
           text == FloatChars(v)
           n == IF BelowZero(v) THEN c + 1 ELSE c
           short == [p \in 1 .. n |-> IF p <= 2 THEN text[p] ELSE text[p + 1]]
           buf == float_to_ascii(v, N)
           s == IF BelowZero(v) THEN -1 ELSE 0
<1>1. W \in Nat /\ W < Top /\ Tenths(v).digit \in 0 .. 9 /\ Cents(v).digit \in 0 .. 9
  BY FloatDigits
<1>2. M = 100 * W + 10 * Tenths(v).digit + Cents(v).digit
  BY DEF Hundredths
<1>3. M \in Magnitudes /\ c \in 3 .. 10
  <2> HIDE DEF W, M
  <2>1. TwoBehind(M, W, WholePlaces(W), Tenths(v).digit, Cents(v).digit)
    BY <1>1, <1>2, TwoMore
  <2> QED BY <2>1 DEF TwoBehind
<1>4. /\ text \in Seq(Int) /\ text[3] = Point
      /\ Len(text) = (IF BelowZero(v) THEN c + 2 ELSE c + 1)
      /\ text[1] = Dig(10, M, 1) + Zero /\ text[2] = Dig(10, M, 2) + Zero
      /\ \A p \in 3 .. c : text[p + 1] = Dig(10, M, p) + Zero
      /\ BelowZero(v) => text[c + 2] = Minus
  BY FloatCharsAre, Zenon
<1>5. buf = Padded(text, N)
  BY FloatPadded
<1> HIDE DEF c, M, text, buf
<1>6. \A p \in 1 .. c : d[p] = Dig(10, M, p) /\ d[p] \in 0 .. 9
  <2>1. 10 \in Bases /\ AllPlaces(10) = 10
    BY DEF Bases, AllPlaces
  <2>2. c \in 0 .. AllPlaces(10)
    BY <1>3, <2>1
  <2>3. \A p \in 1 .. c : d[p] = Dig(10, M, p) /\ Dig(10, M, p) \in 0 .. 10 - 1
    BY <1>3, <2>1, <2>2, PartsAreSums
  <2> HIDE DEF d
  <2> QED BY <2>3
<1> HIDE DEF d
<1>7. n \in Nat /\ n + 2 <= N /\ n >= 2 /\ Len(text) = n + 1 /\ c \in 1 .. n
  BY <1>3, <1>4
<1>8. n = IF s < 0 THEN c + 1 ELSE c
  OBVIOUS
<1>9. s \in Int /\ (s < 0 <=> BelowZero(v))
  OBVIOUS
<1> HIDE DEF n, s
<1>10. short \in Seq(Int) /\ Len(short) = n
  <2>1. \A p \in 1 .. n : (IF p <= 2 THEN text[p] ELSE text[p + 1]) \in Int
    BY <1>4, <1>7
  <2> QED BY <1>7, <2>1
<1>11. short[1] = text[1] /\ short[2] = text[2] /\ \A p \in 3 .. n : short[p] = text[p + 1]
  BY <1>7
<1> HIDE DEF short
<1>12. NoPoint(buf) = Padded(short, N) /\ Len(buf) = N /\ buf[N - 3] = Point
  BY <1>4, <1>5, <1>7, <1>10, <1>11, Pointless
<1>13. \A p \in 1 .. c : d[p] \in 0 .. 15 /\ short[p] = HexChar(d[p])
  <2> TAKE p \in 1 .. c
  <2>1. d[p] = Dig(10, M, p) /\ d[p] \in 0 .. 9
    BY <1>6
  <2>2. HexChar(d[p]) = Dig(10, M, p) + Zero
    BY <2>1 DEF HexChar
  <2>3. p = 1 \/ p = 2 \/ (p \in 3 .. c /\ p \in 3 .. n)
    BY <1>3, <1>7
  <2>4. short[p] = Dig(10, M, p) + Zero
    BY <1>4, <1>11, <2>3
  <2> QED BY <2>1, <2>2, <2>4
<1>14. s < 0 => short[c + 1] = Minus
  <2> SUFFICES ASSUME s < 0 PROVE short[c + 1] = Minus
    OBVIOUS
  <2>1. n = c + 1 /\ c + 1 \in 3 .. n /\ (c + 1) + 1 = c + 2
    BY <1>3, <1>8
  <2> QED BY <1>4, <1>9, <1>11, <2>1
<1>15. Shape(Padded(short, N), N, d, c, IF s < 0 THEN Minus ELSE Space)
  <2>1. c \in Nat /\ c + 2 <= N
    BY <1>3
  <2> QED BY <1>8, <1>9, <1>10, <1>13, <1>14, <2>1, PaddedShape
<1>16. (IF s < 0 THEN Minus ELSE Space) = IF BelowZero(v) THEN Minus ELSE Space
  BY <1>9
<1>17. Shape(NoPoint(buf), N, d, c, IF BelowZero(v) THEN Minus ELSE Space) /\ buf[Len(buf) - 3] = Point
  BY <1>12, <1>15, <1>16
<1> QED BY <1>17, Zenon DEF buf, d, c, W, M

(* What NearestHundredth says of one text.                                 *)
NearlyAs(v, buf) ==
    LET text == NoPoint(buf)
        cents == Magnitude(Reads(text, 10)) - 100 * v.whole
        next == Place(v.whole, v.part)
    IN /\ buf[Len(buf) - 3] = Point
       /\ text[Start(text)] = Minus <=> BelowZero(v)
       /\ \A k \in FirstDigit(text) .. Len(text) - 1 : DigitOf(text[k]) \in 0 .. 9
       /\ FirstDigit(text) <= Len(text) - 3
       /\ text[FirstDigit(text)] = Zero => FirstDigit(text) = Len(text) - 3
       /\ Halves(2 * cents - 1) < v.part + next
       /\ v.part - next <= Halves(2 * cents + 1)

(* Every float is written so (encode.c:242, 282-310).                      *)
LEMMA NearestOfText ==
  ASSUME NEW v, IsFloat(v), NEW N \in Nat, N >= 13
  PROVE  NearlyAs(v, float_to_ascii(v, N))
<1> DEFINE buf == float_to_ascii(v, N)
           text == NoPoint(buf)
           W == Rounded(v).whole
           M == Hundredths(v)
           e == WholePlaces(W)
           c == e + 2
           d == Digs(10, M, c)
           g == Parts(10, M, c)
           sign == IF BelowZero(v) THEN Minus ELSE Space
<1>1. /\ W \in Nat /\ W < Top /\ Tenths(v).digit \in 0 .. 9 /\ Cents(v).digit \in 0 .. 9
      /\ Halves(2 * (M - 100 * v.whole) - 1) < v.part + Place(v.whole, v.part)
      /\ v.part - Place(v.whole, v.part) <= Halves(2 * (M - 100 * v.whole) + 1)
  BY FloatDigits
<1>2. M = 100 * W + 10 * Tenths(v).digit + Cents(v).digit
  BY DEF Hundredths
<1>3. Shape(text, N, d, c, sign) /\ buf[Len(buf) - 3] = Point
  BY FloatShape
<1> HIDE DEF M, W, buf, text
<1>4. TwoBehind(M, W, e, Tenths(v).digit, Cents(v).digit)
  BY <1>1, <1>2, TwoMore
<1>5. e \in 1 .. 8 /\ (W # 0 => Dig(10, W, e) # 0) /\ (W = 0 => e = 1)
  <2>1. e \in 1 .. 8 /\ (W # 0 => Dig(10, W, e) # 0)
    BY <1>1, WholeIs
  <2>2. W = 0 => e = 1
    BY DEF WholePlaces
  <2> QED BY <2>1, <2>2
<1> HIDE DEF e
<1>6. /\ M \in Magnitudes /\ M \in Nat /\ c \in 3 .. 10 /\ M % Pow(10, c) = M
      /\ \A p \in 1 .. e : Dig(10, M, p + 2) = Dig(10, W, p)
  BY <1>4 DEF TwoBehind
<1>7. 10 \in Bases /\ AllPlaces(10) = 10
  BY DEF Bases, AllPlaces
<1>8. Dig(10, M, c) = Dig(10, W, e)
  <2>1. e \in 1 .. e
    BY <1>5
  <2> QED BY <1>6, <2>1
<1>9. c = 3 <=> e = 1
  BY <1>5
<1> HIDE DEF c
<1>10. c \in 0 .. AllPlaces(10)
  BY <1>6, <1>7
<1>11. \A p \in 1 .. c : d[p] = Dig(10, M, p) /\ Dig(10, M, p) \in 0 .. 10 - 1
  BY <1>6, <1>7, <1>10, PartsAreSums
<1>12. Horner(g, d, c, 10) /\ g[1] = M
  BY <1>6, <1>7, <1>10, PartsAreSums
<1>13. (sign = Minus <=> BelowZero(v)) /\ sign \in {Minus, Space}
  BY DEF Minus, Space
<1> HIDE DEF d, g, sign
<1>14. /\ FirstDigit(text) = N - c
       /\ text[Start(text)] = Minus <=> sign = Minus
  BY <1>3, ShapeStarts
<1>15. Len(text) = N /\ c + 2 <= N /\ \A p \in 1 .. c : text[N - p] = HexChar(d[p])
  BY <1>3 DEF Shape
<1>16. Reads(text, 10) = IF sign = Minus THEN -g[1] ELSE g[1]
  BY <1>3, <1>12, ShapeReads
<1>17. Magnitude(Reads(text, 10)) = M
  BY <1>6, <1>12, <1>16 DEF Magnitude
<1>18. \A k \in FirstDigit(text) .. Len(text) - 1 : DigitOf(text[k]) \in 0 .. 9
  <2> TAKE k \in FirstDigit(text) .. Len(text) - 1
  <2>1. N - k \in 1 .. c /\ N - (N - k) = k
    BY <1>6, <1>14, <1>15
  <2>2. d[N - k] \in 0 .. 9 /\ d[N - k] \in 0 .. 15
    BY <1>11, <2>1
  <2>3. text[k] = HexChar(d[N - k])
    BY <1>15, <2>1
  <2>4. DigitOf(text[k]) = d[N - k]
    BY <2>2, <2>3, CharsOfDigits
  <2> QED BY <2>2, <2>4
<1>19. FirstDigit(text) <= Len(text) - 3
  BY <1>6, <1>14, <1>15
<1>20. text[FirstDigit(text)] = Zero => FirstDigit(text) = Len(text) - 3
  <2> SUFFICES ASSUME text[FirstDigit(text)] = Zero PROVE c = 3
    BY <1>14, <1>15
  <2>1. c \in 1 .. c
    BY <1>6
  <2>2. HexChar(d[c]) = Zero /\ d[c] = Dig(10, M, c) /\ d[c] \in 0 .. 15
    BY <1>11, <1>14, <1>15, <2>1
  <2>3. Dig(10, M, c) = 0
    BY <2>2, CharsOfDigits
  <2> QED BY <1>5, <1>8, <1>9, <2>3
<1>21. text[Start(text)] = Minus <=> BelowZero(v)
  BY <1>13, <1>14
<1>22. NearlyAs(v, buf)
  BY <1>1, <1>3, <1>17, <1>18, <1>19, <1>20, <1>21, Zenon DEF NearlyAs, text
<1> QED BY <1>22 DEF buf

(* The calls of float_to_ascii().                                          *)
FloatSpec == Init /\ [][FloatNext]_vars

FloatCall == call = "float_to_ascii" =>
                 IsFloat(value) /\ result = float_to_ascii(value, Length)

(* What a call leaves is the text of a float.                              *)
LEMMA FloatCallHolds == FloatSpec => []FloatCall
<1>1. Init => FloatCall
  BY DEF Init, FloatCall
<1>2. FloatCall /\ [FloatNext]_vars => FloatCall'
  <2> SUFFICES ASSUME FloatCall, [FloatNext]_vars PROVE FloatCall'
    OBVIOUS
  <2>1. CASE UNCHANGED vars
    BY <2>1 DEF vars, FloatCall
  <2>2. ASSUME NEW v \in Floats, Call("float_to_ascii", v, float_to_ascii(v, Length))
        PROVE  FloatCall'
    <3>1. IsFloat(v)
      BY FloatsAre
    <3>2. value' = v /\ result' = float_to_ascii(v, Length)
      BY <2>2 DEF Call
    <3>3. IsFloat(value)'
      BY <3>1, <3>2 DEF IsFloat
    <3> QED BY <3>2, <3>3 DEF FloatCall
  <2> QED BY <2>1, <2>2 DEF FloatNext
<1> QED BY <1>1, <1>2, PTL DEF FloatSpec

(* A float is written with its sign, no needless zero and two decimals,    *)
(* and rounded to a hundredth that is as near as any other, but for less   *)
(* than the distance to the next float (encode.c:242, 282-310).            *)
THEOREM RoundedNearly == FloatSpec => []NearestHundredth
<1>1. FloatCall => NearestHundredth
  <2> SUFFICES ASSUME FloatCall, call = "float_to_ascii" PROVE NearestHundredth
    BY DEF NearestHundredth
  <2>1. IsFloat(value) /\ result = float_to_ascii(value, Length)
    BY DEF FloatCall
  <2>2. NearlyAs(value, result)
    BY <2>1, NearestOfText, LengthTyped
  <2> QED BY <2>2, Zenon DEF NearlyAs, NearestHundredth
<1> QED BY <1>1, FloatCallHolds, PTL
=============================================================================
