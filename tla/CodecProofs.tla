---------------------------- MODULE CodecProofs -----------------------------
(***************************************************************************)
(* Proofs about the numbers of a record, for a byte of any even number of  *)
(* values, any bytes of the sensors and any pressures.                     *)
(***************************************************************************)
EXTENDS Codec, TLAPS

(***************************************************************************)
(* Arithmetic.                                                             *)
(***************************************************************************)
LEMMA DivMod ==
    ASSUME NEW n \in Int, NEW r \in Nat \ {0}
    PROVE  /\ n \div r \in Int /\ n % r \in 0..(r - 1)
           /\ n = r * (n \div r) + (n % r)
OBVIOUS

LEMMA Monotone ==
    ASSUME NEW a \in Int, NEW b \in Int, NEW r \in Nat, a <= b
    PROVE  r * a <= r * b
<1>1. (b - a) * r >= 0
  OBVIOUS
<1> QED BY <1>1

(* The quotient of a number below r * b is below b. *)
LEMMA DivBound ==
    ASSUME NEW n \in Nat, NEW r \in Nat \ {0}, NEW b \in Nat, n < r * b
    PROVE  n \div r \in 0..(b - 1)
<1>1. n \div r \in Int /\ n % r \in 0..(r - 1) /\ n = r * (n \div r) + (n % r)
  BY DivMod
<1> DEFINE q == n \div r
<1> HIDE DEF q
<1>2. q \in Int /\ r * q <= n /\ n < r * q + r
  BY <1>1 DEF q
<1>3. q < b
  <2> SUFFICES ASSUME b <= q PROVE FALSE
    BY <1>2
  <2>1. r * b <= r * q
    BY <1>2, Monotone
  <2> QED BY <1>2, <2>1
<1>4. q >= 0
  <2> SUFFICES ASSUME q + 1 <= 0 PROVE FALSE
    BY <1>2
  <2>1. r * (q + 1) <= r * 0
    BY <1>2, Monotone
  <2> QED BY <1>2, <2>1
<1> QED BY <1>2, <1>3, <1>4 DEF q

(* A number is what its quotient and remainder say. *)
LEMMA DivUnique ==
    ASSUME NEW r \in Nat \ {0}, NEW q \in Int, NEW d \in 0..(r - 1)
    PROVE  (r * q + d) \div r = q /\ (r * q + d) % r = d
OBVIOUS

-----------------------------------------------------------------------------
(***************************************************************************)
(* The bytes of a number.                                                  *)
(***************************************************************************)
R3 == Radix * Radix * Radix
HalfRadix == Radix \div 2

LEMMA RadixFacts ==
    /\ Radix \in Nat \ {0} /\ HalfRadix \in Nat \ {0} /\ Radix = 2 * HalfRadix
    /\ R3 \in Nat \ {0}
    /\ IntBound = R3 * HalfRadix /\ IntBound \in Nat \ {0}
    /\ 2 * IntBound = Radix * R3
<1>1. Radix \in Nat \ {0} /\ Radix % 2 = 0
  BY CodecAssumption
<1>2. HalfRadix \in Nat \ {0} /\ Radix = 2 * HalfRadix
  BY <1>1 DEF HalfRadix
<1> HIDE DEF HalfRadix
<1>3. ASSUME NEW a \in Nat \ {0}, NEW b \in Nat \ {0} PROVE a * b \in Nat \ {0}
  <2>1. b * 1 <= b * a
    BY <1>3, Monotone
  <2> QED BY <2>1
<1>4. R3 \in Nat \ {0}
  BY <1>1, <1>3 DEF R3
<1>5. Radix * Radix * Radix * Radix = 2 * (R3 * HalfRadix)
  BY <1>1, <1>2 DEF R3
<1> HIDE DEF R3
<1>6. R3 * HalfRadix \in Nat \ {0}
  BY <1>2, <1>3, <1>4
<1>7. IntBound = R3 * HalfRadix
  BY <1>5, <1>6 DEF IntBound
<1>8. 2 * IntBound = Radix * R3
  BY <1>2, <1>4, <1>7
<1> QED BY <1>1, <1>2, <1>4, <1>6, <1>7, <1>8

(* Wrap is the identity below the bound, and subtracts all the values of   *)
(* the type from it on.                                                    *)
LEMMA WrapValue ==
    ASSUME NEW bound \in Nat \ {0}, NEW n \in 0..(2 * bound - 1)
    PROVE  Wrap(n, bound) = IF n < bound THEN n ELSE n - 2 * bound
<1>1. CASE n < bound
  <2>1. (n + bound) % (2 * bound) = n + bound
    BY <1>1
  <2> QED BY <1>1, <2>1 DEF Wrap
<1>2. CASE n >= bound
  <2>1. n + bound = (2 * bound) * 1 + (n - bound) /\ n - bound \in 0..(2 * bound - 1)
    BY <1>2
  <2>2. (n + bound) % (2 * bound) = n - bound
    BY <2>1, DivUnique
  <2> QED BY <1>2, <2>2 DEF Wrap
<1> QED BY <1>1, <1>2

LEMMA WrapRange ==
    ASSUME NEW bound \in Nat \ {0}, NEW n \in Int
    PROVE  Wrap(n, bound) \in (-bound)..(bound - 1)
<1>1. (n + bound) % (2 * bound) \in 0..(2 * bound - 1)
  BY DivMod
<1> QED BY <1>1 DEF Wrap

(* The digits of a number of 32 bits, and what they add up to. *)
LEMMA Digits ==
    ASSUME NEW n \in 0..(2 * IntBound - 1)
    PROVE  /\ (n % Radix) \in Byte /\ (Shift8(n) % Radix) \in Byte
           /\ (Shift16(n) % Radix) \in Byte /\ Shift24(n) \in Byte
           /\ Shift24(n) % Radix = Shift24(n)
           /\ n = R3 * Shift24(n) + ((Shift16(n) % Radix) * Radix * Radix
                                      + (Shift8(n) % Radix) * Radix + (n % Radix))
<1> DEFINE q1 == Shift8(n)
           q2 == Shift16(n)
           q3 == Shift24(n)
<1>r. /\ Radix \in Nat \ {0} /\ R3 \in Nat \ {0} /\ 2 * IntBound = Radix * R3
      /\ Radix * Radix \in Nat /\ R3 = Radix * (Radix * Radix) /\ Byte = 0..(Radix - 1)
      /\ n \in Nat /\ n < Radix * R3
  <2>1. Radix \in Nat \ {0} /\ R3 \in Nat \ {0} /\ 2 * IntBound = Radix * R3 /\ IntBound \in Nat
    BY RadixFacts
  <2>2. Radix * Radix \in Nat /\ R3 = Radix * (Radix * Radix) /\ Byte = 0..(Radix - 1)
    BY <2>1 DEF R3, Byte
  <2> QED BY <2>1, <2>2
<1>m. ASSUME NEW m \in Nat
      PROVE  (m % Radix) \in 0..(Radix - 1) /\ m = Radix * (m \div Radix) + (m % Radix)
  <2>1. Radix \in Nat \ {0} /\ m \in Int
    BY <1>r, <1>m
  <2> QED BY <2>1
<1>1. q1 \in 0..(R3 - 1) /\ n = Radix * q1 + (n % Radix) /\ (n % Radix) \in Byte
  <2>1. q1 = n \div Radix
    BY DEF Shift8
  <2>2. q1 \in 0..(R3 - 1)
    BY <1>r, <2>1, DivBound
  <2>3. (n % Radix) \in 0..(Radix - 1) /\ n = Radix * (n \div Radix) + (n % Radix)
    BY <1>r, <1>m
  <2> QED BY <1>r, <2>1, <2>2, <2>3
<1> HIDE DEF q1
<1>2. /\ q2 \in 0..(Radix * Radix - 1) /\ q1 = Radix * q2 + (q1 % Radix)
      /\ (q1 % Radix) \in Byte
  <2>1. q2 = q1 \div Radix
    BY DEF q1, Shift16, Shift8
  <2>2. q1 < Radix * (Radix * Radix) /\ q1 \in Nat
    BY <1>1, <1>r
  <2>3. q2 \in 0..(Radix * Radix - 1)
    BY <1>r, <2>1, <2>2, DivBound
  <2>4. (q1 % Radix) \in 0..(Radix - 1) /\ q1 = Radix * (q1 \div Radix) + (q1 % Radix)
    BY <2>2, <1>m
  <2> QED BY <1>r, <2>1, <2>3, <2>4
<1> HIDE DEF q2
<1>3. q3 \in Byte /\ q2 = Radix * q3 + (q2 % Radix) /\ (q2 % Radix) \in Byte
  <2>1. q3 = q2 \div Radix
    BY DEF q2, Shift24, Shift8
  <2>2. q2 < Radix * Radix /\ q2 \in Nat
    BY <1>2, <1>r
  <2>3. q3 \in 0..(Radix - 1)
    BY <1>r, <2>1, <2>2, DivBound
  <2>4. (q2 % Radix) \in 0..(Radix - 1) /\ q2 = Radix * (q2 \div Radix) + (q2 % Radix)
    BY <2>2, <1>m
  <2> QED BY <1>r, <2>1, <2>3, <2>4
<1> HIDE DEF q3
<1>4. q3 % Radix = q3
  BY <1>3, <1>r DEF Byte
<1>5. ASSUME NEW d0 \in Int, NEW d1 \in Int, NEW d2 \in Int, NEW d3 \in Int, NEW r \in Int
      PROVE  r * (r * (r * d3 + d2) + d1) + d0 = (r * r * r) * d3 + (d2 * r * r + d1 * r + d0)
  OBVIOUS
<1>6. n = R3 * q3 + ((q2 % Radix) * Radix * Radix + (q1 % Radix) * Radix + (n % Radix))
  <2>1. /\ n % Radix \in Int /\ q1 % Radix \in Int /\ q2 % Radix \in Int /\ q3 \in Int
        /\ Radix \in Int
    BY <1>1, <1>2, <1>3, <1>r DEF Byte
  <2>2. n = Radix * (Radix * (Radix * q3 + (q2 % Radix)) + (q1 % Radix)) + (n % Radix)
    BY <1>1, <1>2, <1>3
  <2> QED BY <2>1, <2>2, <1>5 DEF R3
<1> QED BY <1>1, <1>2, <1>3, <1>4, <1>6 DEF q1, q2, q3

(* The three low bytes stay below the fourth; the fourth is a sign. *)
LEMMA LowBytes ==
    ASSUME NEW d0 \in Byte, NEW d1 \in Byte, NEW d2 \in Byte
    PROVE  d2 * Radix * Radix + d1 * Radix + d0 \in 0..(R3 - 1)
<1>r. Radix \in Nat \ {0}
  BY RadixFacts
<1>1. ASSUME NEW a \in Byte, NEW b \in Nat, NEW m \in Nat \ {0}, b < m
      PROVE  a * m + b \in 0..(Radix * m - 1)
  <2>1. a \in Nat /\ a + 1 <= Radix
    BY <1>r, <1>1 DEF Byte
  <2>2. m * (a + 1) <= m * Radix /\ m * 0 <= m * a
    BY <1>1, <1>r, <2>1, Monotone
  <2>3. m * (a + 1) = a * m + m /\ m * a = a * m /\ m * Radix = Radix * m
    BY <1>1, <1>r, <2>1
  <2>4. a * m \in Int /\ Radix * m \in Int
    BY <1>1, <1>r, <2>1
  <2> QED BY <1>1, <2>2, <2>3, <2>4
<1>2. d1 * Radix + d0 \in 0..(Radix * Radix - 1)
  BY <1>1, <1>r DEF Byte
<1>3. Radix * Radix \in Nat \ {0}
  <2>1. Radix * 1 <= Radix * Radix
    BY <1>r, Monotone
  <2> QED BY <2>1, <1>r
<1>4. d2 * (Radix * Radix) + (d1 * Radix + d0) \in 0..(Radix * (Radix * Radix) - 1)
  BY <1>1, <1>2, <1>3, <1>r
<1>5. d2 * (Radix * Radix) = d2 * Radix * Radix /\ Radix * (Radix * Radix) = R3
  BY <1>r DEF R3, Byte
<1> QED
  BY <1>4, <1>5, <1>r DEF Byte

LEMMA HighByte ==
    ASSUME NEW d \in Byte
    PROVE  /\ d * Radix * Radix * Radix = R3 * d
           /\ d < HalfRadix => Wrap(R3 * d, IntBound) = R3 * d /\ R3 * d \in Nat
           /\ d >= HalfRadix => Wrap(R3 * d, IntBound) \in Int /\ Wrap(R3 * d, IntBound) <= -R3
<1>r. /\ Radix \in Nat \ {0} /\ HalfRadix \in Nat \ {0} /\ Radix = 2 * HalfRadix
      /\ R3 \in Nat \ {0} /\ IntBound = R3 * HalfRadix /\ IntBound \in Nat \ {0}
      /\ 2 * IntBound = Radix * R3
  BY RadixFacts
<1>d. d \in Nat /\ d + 1 <= Radix
  BY <1>r DEF Byte
<1>1. d * Radix * Radix * Radix = R3 * d
  BY <1>r, <1>d DEF R3
<1>2. R3 * d \in Nat /\ R3 * d + R3 <= 2 * IntBound
  <2>1. R3 * (d + 1) <= R3 * Radix /\ R3 * 0 <= R3 * d
    BY <1>r, <1>d, Monotone
  <2>2. R3 * (d + 1) = R3 * d + R3 /\ R3 * Radix = 2 * IntBound /\ R3 * d \in Int
    BY <1>r, <1>d
  <2> QED BY <2>1, <2>2, <1>r
<1>3. Wrap(R3 * d, IntBound) = IF R3 * d < IntBound THEN R3 * d ELSE R3 * d - 2 * IntBound
  <2>1. R3 * d \in 0..(2 * IntBound - 1)
    BY <1>2, <1>r
  <2> QED BY <2>1, <1>r, WrapValue
<1>4. d < HalfRadix => R3 * d < IntBound
  <2>1. ASSUME d + 1 <= HalfRadix PROVE R3 * d < IntBound
    <3>1. R3 * (d + 1) <= R3 * HalfRadix
      BY <2>1, <1>r, <1>d, Monotone
    <3>2. R3 * (d + 1) = R3 * d + R3
      BY <1>r, <1>d
    <3> QED BY <3>1, <3>2, <1>r, <1>2
  <2> QED BY <2>1, <1>r, <1>d
<1>5. d >= HalfRadix => R3 * d >= IntBound
  BY <1>r, <1>d, Monotone
<1> QED BY <1>1, <1>2, <1>3, <1>4, <1>5, <1>r

-----------------------------------------------------------------------------
(***************************************************************************)
(* A value that was stored, and is read.                                   *)
(***************************************************************************)

(* y is what reading gives for a value x that was stored. *)
Returns(x, y) ==
    CASE x = NaN -> y = 0
      [] x # NaN -> /\ x \in 0..(IntBound - 1) => y = x
                    /\ x < 0 => y \in Byte
                    /\ x >= IntBound => y < 0

LEMMA ToUint32Value ==
    ASSUME NEW x \in Int \cup {NaN}
    PROVE  /\ ToUint32(x) \in 0..(2 * IntBound - 1)
           /\ x = NaN => ToUint32(x) = 0 /\ ToUint8(x) = {0}
           /\ x # NaN /\ x < 0 => ToUint32(x) = 0
           /\ x # NaN /\ x \in 0..(IntBound - 1) => ToUint32(x) = x /\ ToUint8(x) = {x % Radix}
           /\ x # NaN /\ x >= IntBound => ToUint32(x) >= IntBound
<1>1. IntBound \in Nat \ {0} /\ Radix \in Nat \ {0} /\ NaN \notin Int
  BY RadixFacts, CodecAssumption
<1>2. ASSUME NEW low \in Int, NEW high \in Int
      PROVE  Saturate(x, low, high) = IF x = NaN THEN 0 ELSE IF x < low THEN low
                                      ELSE IF x > high THEN high ELSE x
  BY DEF Saturate
<1>3. ToUint32(x) = IF x = NaN THEN 0 ELSE IF x < 0 THEN 0
                    ELSE IF x > 2 * IntBound - 1 THEN 2 * IntBound - 1 ELSE x
  BY <1>1, <1>2 DEF ToUint32
<1>4. x = NaN => ToUint8(x) = {0}
  <2>1. 0 % Radix = 0
    BY <1>1
  <2> QED BY <1>1, <1>2, <1>3, <2>1 DEF ToUint8
<1>5. x # NaN /\ x \in 0..(IntBound - 1) => ToUint8(x) = {x % Radix}
  <2>1. ASSUME x # NaN, x \in 0..(IntBound - 1)
        PROVE  ToUint32(x) = x /\ Saturate(x, -IntBound, IntBound - 1) = x
    BY <1>1, <1>2, <1>3, <2>1
  <2> QED BY <2>1 DEF ToUint8
<1> QED BY <1>1, <1>3, <1>4, <1>5

LEMMA LowByte ==
    ASSUME NEW x \in Int \cup {NaN}, NEW low \in ToUint8(x)
    PROVE  low \in Byte
<1>1. IntBound \in Nat \ {0} /\ Radix \in Nat \ {0} /\ NaN \notin Int
  BY RadixFacts, CodecAssumption
<1>2. ToUint32(x) \in Int
  BY <1>1, ToUint32Value
<1>3. Saturate(x, -IntBound, IntBound - 1) \in Int
  BY <1>1 DEF Saturate
<1>4. ASSUME NEW n \in Int PROVE n % Radix \in 0..(Radix - 1)
  BY <1>1, DivMod
<1> QED BY <1>2, <1>3, <1>4 DEF ToUint8, Byte

LEMMA StoredThenRead ==
    ASSUME NEW x \in Int \cup {NaN}, NEW low \in ToUint8(x), NEW b,
           \A k \in 1..4 : b[k] = Bytes(x, low)[k]
    PROVE  Number(b) \in Int /\ Returns(x, Number(b))
<1> DEFINE n == ToUint32(x)
           d0 == n % Radix
           d1 == Shift8(n) % Radix
           d2 == Shift16(n) % Radix
           d3 == Shift24(n)
           rest == d2 * Radix * Radix + d1 * Radix
<1>r. /\ Radix \in Nat \ {0} /\ HalfRadix \in Nat \ {0} /\ R3 \in Nat \ {0}
      /\ IntBound = R3 * HalfRadix /\ IntBound \in Nat \ {0} /\ NaN \notin Int
      /\ Byte = 0..(Radix - 1)
  BY RadixFacts, CodecAssumption DEF Byte
<1>n. n \in 0..(2 * IntBound - 1)
  BY ToUint32Value
<1>1. /\ d0 \in Byte /\ d1 \in Byte /\ d2 \in Byte /\ d3 \in Byte
      /\ Shift24(n) % Radix = d3
      /\ n = R3 * d3 + (rest + d0)
  BY <1>n, Digits
<1>2. low \in Byte
  BY LowByte
<1>3. b[1] = low /\ b[2] = d1 /\ b[3] = d2 /\ b[4] = d3
  <2>1. Bytes(x, low) = <<low, d1, d2, Shift24(n) % Radix>>
    BY DEF Bytes
  <2> QED BY <1>1, <2>1
<1> HIDE DEF d0, d1, d2, d3
<1>4. rest + low \in 0..(R3 - 1) /\ rest + d0 \in 0..(R3 - 1)
  BY <1>1, <1>2, LowBytes
<1>5. rest \in Int
  BY <1>1, <1>r
<1>6. Number(b) = rest + low + Wrap(R3 * d3, IntBound)
  <2>1. d3 * Radix * Radix * Radix = R3 * d3
    BY <1>1, HighByte
  <2>2. Wrap(R3 * d3, IntBound) \in Int
    BY <1>1, <1>r, HighByte DEF Byte
  <2>3. Number(b) = low + d1 * Radix + d2 * Radix * Radix + Wrap(R3 * d3, IntBound)
    BY <1>3, <2>1 DEF Number
  <2>4. d1 * Radix \in Int /\ d2 * Radix * Radix \in Int /\ low \in Int
    BY <1>1, <1>2, <1>r
  <2> QED BY <2>2, <2>3, <2>4
<1>7. /\ d3 < HalfRadix => Wrap(R3 * d3, IntBound) = R3 * d3 /\ R3 * d3 \in Nat
      /\ d3 >= HalfRadix => Wrap(R3 * d3, IntBound) \in Int /\ Wrap(R3 * d3, IntBound) <= -R3
  BY <1>1, HighByte
<1>8. d3 < HalfRadix <=> n < IntBound
  <2>1. d3 \in Int /\ R3 * d3 \in Int
    BY <1>1, <1>r
  <2>2. ASSUME d3 >= HalfRadix PROVE n >= IntBound
    <3>1. R3 * HalfRadix <= R3 * d3
      BY <1>r, <2>1, <2>2, Monotone
    <3> QED BY <3>1, <2>1, <1>1, <1>4, <1>r
  <2>3. ASSUME d3 + 1 <= HalfRadix PROVE n < IntBound
    <3>1. R3 * (d3 + 1) <= R3 * HalfRadix
      BY <1>r, <2>1, <2>3, Monotone
    <3>2. R3 * (d3 + 1) = R3 * d3 + R3
      BY <1>r, <2>1
    <3> QED BY <3>1, <3>2, <2>1, <1>1, <1>4, <1>r
  <2> QED BY <2>1, <2>2, <2>3, <1>n, <1>r
<1> HIDE DEF n, rest
<1>9. Number(b) \in Int
  BY <1>1, <1>2, <1>4, <1>5, <1>6, <1>7, <1>r
<1>10. CASE x # NaN /\ x >= IntBound
  <2>1. n >= IntBound
    BY <1>10, ToUint32Value DEF n
  <2>2. d3 >= HalfRadix
    BY <2>1, <1>1, <1>8, <1>n, <1>r
  <2>3. Number(b) < 0
    BY <2>2, <1>2, <1>4, <1>5, <1>6, <1>7, <1>r
  <2> QED BY <2>3, <1>9, <1>10, <1>r DEF Returns
<1>11. CASE x # NaN /\ x \in 0..(IntBound - 1)
  <2>1. n = x /\ low = d0
    BY <1>11, ToUint32Value DEF n, d0
  <2>2. d3 < HalfRadix
    BY <2>1, <1>1, <1>8, <1>11, <1>n, <1>r
  <2>3. Number(b) = x
    BY <2>1, <2>2, <1>1, <1>2, <1>4, <1>5, <1>6, <1>7, <1>r
  <2> QED BY <2>3, <1>9, <1>11, <1>r DEF Returns
<1>12. CASE x = NaN \/ (x # NaN /\ x < 0)
  <2>1. n = 0
    BY <1>12, ToUint32Value DEF n
  <2>2. d3 < HalfRadix
    BY <2>1, <1>1, <1>8, <1>r
  <2>3. rest + d0 + R3 * d3 = 0 /\ R3 * d3 \in Nat
    BY <2>1, <2>2, <1>1, <1>4, <1>5, <1>7, <1>r
  <2>4. d0 = 0
    BY <2>1, <1>r DEF d0
  <2>5. Number(b) = low
    BY <2>2, <2>3, <2>4, <1>2, <1>4, <1>5, <1>6, <1>7, <1>r
  <2>6. x = NaN => low = 0
    BY ToUint32Value
  <2>7. CASE x = NaN
    BY <2>5, <2>6, <2>7 DEF Returns
  <2>8. CASE x # NaN /\ x < 0
    <3>1. x \in Int /\ ~(x \in 0..(IntBound - 1)) /\ ~(x >= IntBound) /\ IntBound \in Int
      BY <2>8, <1>r
    <3>2. Number(b) \in Byte
      BY <2>5, <1>2
    <3>3. /\ x \in 0..(IntBound - 1) => Number(b) = x
          /\ x < 0 => Number(b) \in Byte
          /\ x >= IntBound => Number(b) < 0
      BY <3>1, <3>2, Zenon
    <3>4. Returns(x, Number(b))
      BY <3>3, <2>8, Zenon DEF Returns
    <3> QED BY <3>4, <1>9
  <2> QED BY <2>7, <2>8, <1>9, <1>12
<1> QED BY <1>9, <1>10, <1>11, <1>12, <1>r

-----------------------------------------------------------------------------
(***************************************************************************)
(* The record.                                                             *)
(***************************************************************************)
AxesInv == acc \in [1..3 -> Int16] /\ gyro \in [1..3 -> Int16]

(* The first two values are the roots of what int makes of the sums. *)
Roots  == pc \in {"store", "read"} =>
              /\ value[0] \in sqroot(Wrap(SumOfSquares(acc), IntBound))
              /\ value[1] \in sqroot(Wrap(SumOfSquares(gyro), IntBound))
Values == value \in [0..(N - 1) -> Int \cup {NaN}]
Loops  == /\ pc \in {"sample", "magnitude", "store", "read"} /\ j \in 0..N
          /\ DOMAIN data8 = 0..(4 * N - 1) /\ DOMAIN shown = 0..(N - 1)

(* The loops start at the first value. *)
AtRest == pc \in {"sample", "magnitude"} => j = 0

(* The bytes of value k are those of one of the conversions. *)
Holds(k) == \E low \in ToUint8(value[k]) :
                \A b \in 1..4 : data8[4 * k + b - 1] = Bytes(value[k], low)[b]

(* The values that were stored, and those that were read as well. *)
StoredInv == \A k \in 0..(N - 1) : (pc = "store" /\ k < j) \/ pc = "read" => Holds(k)
ShownInv  == \A k \in 0..(N - 1) :
                 pc = "read" /\ k < j => shown[k] \in Int /\ Returns(value[k], shown[k])

RecordInv == AxesInv /\ Roots /\ Values /\ Loops /\ AtRest /\ StoredInv /\ ShownInv

LEMMA RootType ==
    ASSUME NEW n \in Int
    PROVE  sqroot(n) \subseteq Int \cup {NaN}
BY DEF sqroot, Near

LEMMA Int16Facts ==
    /\ Int16Bound \in Nat \ {0} /\ IntBound = 2 * (Int16Bound * Int16Bound)
    /\ Int16Bound * Int16Bound \in Nat
    /\ \A hi, lo \in Byte : Word(hi, lo) \in Int16
<1>r. /\ Radix \in Nat \ {0} /\ HalfRadix \in Nat \ {0} /\ Radix = 2 * HalfRadix
      /\ R3 \in Nat \ {0} /\ IntBound = R3 * HalfRadix
  BY RadixFacts
<1>1. Radix * Radix = 2 * (HalfRadix * Radix)
  BY <1>r
<1>2. HalfRadix * Radix \in Nat \ {0}
  <2>1. HalfRadix * 1 <= HalfRadix * Radix
    BY <1>r, Monotone
  <2> QED BY <2>1, <1>r
<1>3. Int16Bound = HalfRadix * Radix
  BY <1>1, <1>2 DEF Int16Bound
<1>4. IntBound = 2 * (Int16Bound * Int16Bound) /\ Int16Bound * Int16Bound \in Nat
  BY <1>r, <1>3 DEF R3
<1>5. ASSUME NEW hi \in Byte, NEW lo \in Byte PROVE Word(hi, lo) \in Int16
  <2>1. hi * Radix + lo \in Int
    BY <1>r DEF Byte
  <2> QED BY <2>1, <1>2, <1>3, WrapRange DEF Word, Int16
<1> QED BY <1>2, <1>3, <1>4, <1>5

LEMMA SumBound ==
    ASSUME NEW v \in [1..3 -> Int16]
    PROVE  SumOfSquares(v) \in 0..(2 * IntBound - 1)
<1> DEFINE sq == Int16Bound * Int16Bound
<1>1. Int16Bound \in Nat \ {0} /\ IntBound = 2 * sq /\ sq \in Nat
  BY Int16Facts
<1>2. ASSUME NEW a \in Int16 PROVE a * a \in 0..sq
  <2>1. a \in Int /\ -Int16Bound <= a /\ a <= Int16Bound
    BY <1>1 DEF Int16
  <2>2. (Int16Bound - a) * (Int16Bound + a) >= 0 /\ a * a >= 0
    BY <2>1, <1>1
  <2>3. (Int16Bound - a) * (Int16Bound + a) = Int16Bound * Int16Bound - a * a
    BY <2>1, <1>1
  <2>4. a * a \in Int
    BY <2>1
  <2> QED BY <2>2, <2>3, <2>4, <1>1
<1>3. v[1] * v[1] \in 0..sq /\ v[2] * v[2] \in 0..sq /\ v[3] * v[3] \in 0..sq
  BY <1>2
<1>4. sq >= 1
  <2>1. Int16Bound * 1 <= Int16Bound * Int16Bound
    BY <1>1, Monotone
  <2> QED BY <2>1, <1>1
<1> HIDE DEF sq
<1> QED BY <1>1, <1>3, <1>4 DEF SumOfSquares

LEMMA InitRecord == Init => RecordInv
<1>1. 0 \in Int16
  BY Int16Facts DEF Int16
<1> QED BY <1>1 DEF Init, RecordInv, AxesInv, Roots, NoAxes, Values, Loops, AtRest, StoredInv, ShownInv, Zero, NoBytes, N

LEMMA NextRecord == RecordInv /\ [Next]_vars => RecordInv'
<1> SUFFICES ASSUME RecordInv, [Next]_vars PROVE RecordInv'
  OBVIOUS
<1> USE DEF RecordInv
<1>1. CASE UNCHANGED vars
  BY <1>1 DEF vars, AxesInv, Roots, Values, Loops, AtRest, StoredInv, ShownInv, Holds
<1>2. CASE mpu6050_read_raw
  <2>1. PICK a \in [1..3 -> Words], g \in [1..3 -> Words] :
             /\ acc' = [k \in 1..3 |-> Word(a[k][1], a[k][2])]
             /\ gyro' = [k \in 1..3 |-> Word(g[k][1], g[k][2])]
    BY <1>2 DEF mpu6050_read_raw
  <2>2. \A w \in Words : Word(w[1], w[2]) \in Int16
    BY CodecAssumption, Int16Facts
  <2>3. AxesInv'
    BY <2>1, <2>2 DEF AxesInv
  <2> QED
    BY <1>2, <2>3 DEF mpu6050_read_raw, Roots, Values, Loops, AtRest, StoredInv, ShownInv
<1>3. CASE producer_entry
  <2>1. PICK a \in sqroot(Wrap(SumOfSquares(acc), IntBound)),
             g \in sqroot(Wrap(SumOfSquares(gyro), IntBound)), p \in Pressures :
             value' = [k \in 0..(N - 1) |-> <<a, g, p>>[k + 1]]
    BY <1>3 DEF producer_entry
  <2>2. pc' = "store" /\ pc = "magnitude" /\ UNCHANGED <<acc, gyro, data8, j, shown>>
    BY <1>3 DEF producer_entry
  <2>3. value'[0] = a /\ value'[1] = g /\ value'[2] = p /\ DOMAIN value' = 0..(N - 1)
    BY <2>1 DEF N
  <2>4. a \in Int \cup {NaN} /\ g \in Int \cup {NaN} /\ p \in Int
    <3>1. \A n \in Int : Wrap(n, IntBound) \in Int
      BY RadixFacts, WrapRange
    <3>2. SumOfSquares(acc) \in Int /\ SumOfSquares(gyro) \in Int
      BY SumBound DEF AxesInv
    <3> QED BY <3>1, <3>2, RootType, CodecAssumption
  <2>5. Values'
    BY <2>1, <2>3, <2>4 DEF Values, N
  <2>6. Roots'
    BY <2>2, <2>3 DEF Roots
  <2>7. j = 0
    BY <2>2 DEF AtRest
  <2> QED BY <2>2, <2>5, <2>6, <2>7 DEF AxesInv, Loops, AtRest, StoredInv, ShownInv, N
<1>4. CASE StoreValue
  <2>1. pc = "store" /\ pc' = pc /\ j < N /\ j' = j + 1 /\ value' = value /\ shown' = shown
    BY <1>4 DEF StoreValue
  <2>2. PICK low \in ToUint8(value[j]) :
             data8' = [k \in DOMAIN data8 |-> IF k \in (4 * j)..(4 * j + 3)
                                               THEN Bytes(value[j], low)[k - 4 * j + 1]
                                               ELSE data8[k]]
    BY <1>4 DEF StoreValue
  <2>3. ASSUME NEW k \in 0..(N - 1), NEW b \in 1..4
        PROVE  data8'[4 * k + b - 1] = IF k = j THEN Bytes(value[j], low)[b]
                                       ELSE data8[4 * k + b - 1]
    <3>1. j \in 0..N /\ DOMAIN data8 = 0..(4 * N - 1)
      BY DEF Loops
    <3>2. 4 * k + b - 1 \in DOMAIN data8
      BY <3>1 DEF N
    <3>3. 4 * k + b - 1 \in (4 * j)..(4 * j + 3) <=> k = j
      BY <3>1 DEF N
    <3>4. k = j => 4 * k + b - 1 - 4 * j + 1 = b
      BY <3>1 DEF N
    <3> QED BY <2>2, <3>2, <3>3, <3>4
  <2>4. StoredInv'
    <3> SUFFICES ASSUME NEW k \in 0..(N - 1), k <= j PROVE Holds(k)'
      BY <2>1 DEF StoredInv, Loops, N
    <3>1. CASE k = j
      <4>1. \A b \in 1..4 : data8'[4 * k + b - 1] = Bytes(value[k], low)[b]
        BY <2>3, <3>1
      <4> QED BY <4>1, <2>1, <2>2, <3>1 DEF Holds
    <3>2. CASE k # j
      <4>1. Holds(k)
        BY <3>2, <2>1 DEF StoredInv, Loops, N
      <4>2. \A b \in 1..4 : data8'[4 * k + b - 1] = data8[4 * k + b - 1]
        BY <2>3, <3>2
      <4> QED BY <4>1, <4>2, <2>1 DEF Holds
    <3> QED BY <3>1, <3>2
  <2>5. Values' /\ Loops'
    BY <2>1, <2>2 DEF Values, Loops, N
  <2> QED BY <1>4, <2>1, <2>4, <2>5 DEF StoreValue, AxesInv, Roots, AtRest, ShownInv
<1>5. CASE Stored
  <2>1. pc = "store" /\ pc' = "read" /\ j = N /\ j' = 0 /\ UNCHANGED <<value, data8, shown>>
    BY <1>5 DEF Stored
  <2>2. StoredInv'
    BY <2>1 DEF StoredInv, Holds, N
  <2> QED BY <1>5, <2>1, <2>2 DEF Stored, AxesInv, Roots, AtRest, Values, Loops, ShownInv, N
<1>6. CASE ReadValue
  <2> DEFINE b == [k \in 1..4 |-> data8[4 * j + k - 1]]
  <2>1. /\ pc = "read" /\ pc' = pc /\ j < N /\ j' = j + 1 /\ UNCHANGED <<value, data8>>
        /\ shown' = [shown EXCEPT ![j] = Number(b)]
    BY <1>6 DEF ReadValue
  <2>2. j \in 0..(N - 1)
    BY <2>1 DEF Loops, N
  <2>3. Number(b) \in Int /\ Returns(value[j], Number(b))
    <3>1. PICK low \in ToUint8(value[j]) :
               \A c \in 1..4 : data8[4 * j + c - 1] = Bytes(value[j], low)[c]
      BY <2>1, <2>2 DEF StoredInv, Holds
    <3>2. value[j] \in Int \cup {NaN}
      BY <2>2 DEF Values
    <3>3. \A c \in 1..4 : b[c] = Bytes(value[j], low)[c]
      BY <3>1
    <3> HIDE DEF b
    <3> QED BY <3>2, <3>3, StoredThenRead
  <2> HIDE DEF b
  <2>4. ShownInv'
    <3> SUFFICES ASSUME NEW k \in 0..(N - 1), k <= j
                 PROVE  shown'[k] \in Int /\ Returns(value[k], shown'[k])
      <4>1. \A k \in 0..(N - 1) : k < j' => k <= j
        BY <2>1, <2>2 DEF N
      <4>2. \A k \in 0..(N - 1) : Returns(value[k], shown'[k]) <=> Returns(value[k], shown[k])'
        BY <2>1 DEF Returns
      <4> QED BY <4>1, <4>2 DEF ShownInv
    <3>1. k \in DOMAIN shown
      BY DEF Loops
    <3>2. CASE k = j
      BY <3>1, <3>2, <2>1, <2>3
    <3>3. CASE k # j
      BY <3>1, <3>3, <2>1, <2>2 DEF ShownInv, N
    <3> QED BY <3>2, <3>3
  <2>5. StoredInv'
    BY <2>1 DEF StoredInv, Holds
  <2>6. AxesInv' /\ Roots' /\ AtRest'
    BY <1>6, <2>1 DEF ReadValue, AxesInv, Roots, AtRest
  <2> QED BY <2>1, <2>2, <2>4, <2>5, <2>6 DEF Values, Loops, N
<1>7. CASE Shown
  <2>1. 0 \in Int16
    BY Int16Facts DEF Int16
  <2> QED BY <1>7, <2>1 DEF Shown, AxesInv, Roots, NoAxes, Zero, NoBytes, Values, Loops, AtRest, StoredInv, ShownInv, N
<1> QED BY <1>1, <1>2, <1>3, <1>4, <1>5, <1>6, <1>7 DEF Next

LEMMA RecordSafe == Spec => []RecordInv
<1> QED BY InitRecord, NextRecord, PTL DEF Spec

(* What is read back is what was stored: for a byte of any even number of  *)
(* values and any pressures, in both conversions the compiler may choose   *)
(* for the low byte (write_raw_mem_async, read_raw_mem_async).             *)
THEOREM RoundTripCorrect == Spec => []RoundTrip
<1>1. RecordInv => RoundTrip
  <2> SUFFICES ASSUME RecordInv, pc = "read", NEW k \in 0..(j - 1)
               PROVE  LET x == value[k] IN
                      CASE x = NaN -> shown[k] = 0
                        [] x # NaN -> /\ x \in 0..(IntBound - 1) => shown[k] = x
                                      /\ x < 0 => shown[k] \in Byte
                                      /\ x >= IntBound => shown[k] < 0
    BY DEF RoundTrip
  <2>1. k \in 0..(N - 1) /\ k < j
    BY DEF RecordInv, Loops, N
  <2>2. Returns(value[k], shown[k])
    BY <2>1 DEF RecordInv, ShownInv
  <2> QED BY <2>2, Zenon DEF Returns
<1> QED BY <1>1, RecordSafe, PTL

(* What is shown of the two sensors is the absolute value of their axes,   *)
(* but for 0 and for sums that int cannot hold (producer_entry, sqroot).   *)
THEOREM DisplayedCorrect == Spec => []Displayed
<1>1. ASSUME NEW v \in [1..3 -> Int16], NEW x, NEW y,
             x \in sqroot(Wrap(SumOfSquares(v), IntBound)), Returns(x, y)
      PROVE  y \in IF SumOfSquares(v) \in 1..(IntBound - 1) THEN Near(SumOfSquares(v)) ELSE {0}
  <2> DEFINE n == SumOfSquares(v)
  <2>1. n \in 0..(2 * IntBound - 1) /\ IntBound \in Nat \ {0} /\ NaN \notin Int
    BY SumBound, RadixFacts, CodecAssumption
  <2>2. Wrap(n, IntBound) = IF n < IntBound THEN n ELSE n - 2 * IntBound
    BY <2>1, WrapValue
  <2> HIDE DEF n
  <2>3. CASE n = 0
    <3>1. Wrap(n, IntBound) = 0
      BY <2>1, <2>2, <2>3
    <3>2. x = NaN
      BY <1>1, <3>1 DEF sqroot, n
    <3> QED BY <1>1, <2>1, <2>3, <3>2 DEF Returns, n
  <2>4. CASE n \in 1..(IntBound - 1)
    <3>1. Wrap(n, IntBound) = n /\ n > 0
      BY <2>1, <2>2, <2>4
    <3>2. x \in Near(n)
      BY <1>1, <2>1, <3>1 DEF sqroot, n
    <3>3. x \in 0..(IntBound - 1)
      BY <2>4, <3>2, <2>1 DEF Near
    <3>4. x # NaN
      BY <3>3, <2>1
    <3>5. y = x
      BY <1>1, <3>3, <3>4 DEF Returns
    <3> QED BY <2>4, <3>2, <3>5 DEF n
  <2>5. CASE n >= IntBound
    <3>1. Wrap(n, IntBound) < 0 /\ Wrap(n, IntBound) \in Int
      BY <2>1, <2>2, <2>5
    <3>2. x = 0
      BY <1>1, <3>1 DEF sqroot, n
    <3>3. x \in 0..(IntBound - 1) /\ x # NaN
      BY <3>2, <2>1
    <3>4. y = 0
      BY <1>1, <3>2, <3>3 DEF Returns
    <3> QED BY <2>1, <2>5, <3>4 DEF n
  <2> QED BY <2>1, <2>3, <2>4, <2>5
<1>2. RecordInv => Displayed
  <2> SUFFICES ASSUME RecordInv, pc = "read", j = N, NEW k \in {0, 1}
               PROVE  LET n == SumOfSquares(IF k = 0 THEN acc ELSE gyro)
                      IN  shown[k] \in IF n \in 1..(IntBound - 1) THEN Near(n) ELSE {0}
    BY DEF Displayed
  <2>1. Returns(value[k], shown[k])
    BY DEF RecordInv, ShownInv, N
  <2>2. CASE k = 0
    BY <1>1, <2>1, <2>2 DEF RecordInv, AxesInv, Roots
  <2>3. CASE k = 1
    BY <1>1, <2>1, <2>3 DEF RecordInv, AxesInv, Roots
  <2> QED BY <2>2, <2>3
<1> QED BY <1>2, RecordSafe, PTL
=============================================================================
