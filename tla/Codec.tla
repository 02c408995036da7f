------------------------------- MODULE Codec --------------------------------
(***************************************************************************)
(* The numbers of a record: from the bytes of the accelerometer and the    *)
(* gyroscope (MPU6050.c) to their absolute values (producer_entry), from   *)
(* these and the pressure to the bytes of a record, and from the bytes of  *)
(* a record to the numbers that are shown (procedure.c).  A record has any *)
(* number of values: three in raw, fourteen in bench.                      *)
(*                                                                         *)
(* Of a float value only the integer part is kept, for only that is stored *)
(* and shown.  A value has at most 24 significant bits, so the float sum   *)
(* of a record's bytes is exact.  All widths follow from that of a byte:   *)
(* with Radix 256, int16_t has Radix^2 values and int has Radix^4.         *)
(***************************************************************************)
EXTENDS Integers, Sequences

CONSTANTS
    Radix,      \* the number of values of a byte
    Words,      \* pairs of bytes the sensor sends
    Pressures,  \* integer parts of pressures
    NaN

Byte == 0..(Radix - 1)
Int16Bound == (Radix * Radix) \div 2
IntBound == (Radix * Radix * Radix * Radix) \div 2

ASSUME CodecAssumption ==
    /\ Radix \in Nat /\ Radix % 2 = 0 /\ Radix > 0
    /\ Words \subseteq Byte \X Byte
    /\ Pressures \subseteq Int
    /\ NaN \notin Int

VARIABLES
    pc,
    acc, gyro,      \* the axes of the last reading
    value,          \* acc_v[i], gyro_v[i], baro_v[i]
    data8,          \* the bytes of the record
    j,              \* the value the loops are at
    shown           \* what the read task prints

vars == <<pc, acc, gyro, value, data8, j, shown>>

Int16 == (-Int16Bound)..(Int16Bound - 1)
N == 3

TypeOK ==
    /\ pc \in {"sample", "magnitude", "store", "read"}
    /\ acc \in [1..3 -> Int16] /\ gyro \in [1..3 -> Int16]
    /\ value \in [0..(N - 1) -> Int \cup {NaN}]
    /\ data8 \in [0..(4 * N - 1) -> Byte]
    /\ j \in 0..N
    /\ shown \in [0..(N - 1) -> Int]

NoAxes == [k \in 1..3 |-> 0]
Zero == [k \in 0..(N - 1) |-> 0]
NoBytes == [k \in 0..(4 * N - 1) |-> 0]

Init ==
    /\ pc = "sample" /\ j = 0
    /\ acc = NoAxes /\ gyro = NoAxes
    /\ value = Zero /\ data8 = NoBytes /\ shown = Zero

-----------------------------------------------------------------------------
(* Conversion of n to a signed type of 2 * bound values. *)
Wrap(n, bound) == ((n + bound) % (2 * bound)) - bound

(* buf[2 * i] << 8 | buf[2 * i + 1], assigned to an int16_t. *)
Word(hi, lo) == Wrap(hi * Radix + lo, Int16Bound)

(* A failed transfer is only reported: the bytes are then what the buffer  *)
(* held before, and may be anything as well.                               *)
mpu6050_read_raw ==
    /\ pc = "sample" /\ pc' = "magnitude"
    /\ \E a, g \in [1..3 -> Words] :
          /\ acc' = [k \in 1..3 |-> Word(a[k][1], a[k][2])]
          /\ gyro' = [k \in 1..3 |-> Word(g[k][1], g[k][2])]
    /\ UNCHANGED <<value, data8, j, shown>>

SumOfSquares(v) == v[1] * v[1] + v[2] * v[2] + v[3] * v[3]

(* The integer parts of floats that are about the root of n. *)
Near(n) == {r \in 0..n : (r = 0 \/ (r - 1) * (r - 1) < n) /\ n < (r + 2) * (r + 2)}

(* A faulty root that takes the opposite of a negative number, and goes on. *)
RootOfOpposite(n) == IF n < 0 THEN Near(-n) ELSE IF n = 0 THEN {NaN} ELSE Near(n)

(* The iteration halves its guess until it is 0 when the number is 0, and  *)
(* then divides 0 by 0.                                                    *)
sqroot(n) == CASE n < 0 -> {0}
               [] n = 0 -> {NaN}
               [] n > 0 -> Near(n)

(* The sum is computed in int, which wraps around in this build. *)
producer_entry ==
    /\ pc = "magnitude" /\ pc' = "store"
    /\ \E a \in sqroot(Wrap(SumOfSquares(acc), IntBound)),
          g \in sqroot(Wrap(SumOfSquares(gyro), IntBound)),
          p \in Pressures :
          value' = [k \in 0..(N - 1) |-> <<a, g, p>>[k + 1]]
    /\ UNCHANGED <<acc, gyro, data8, j, shown>>

-----------------------------------------------------------------------------
(* (rt_uint32_t)x: the instruction saturates, and takes NaN for 0. *)
Saturate(x, low, high) == CASE x = NaN -> 0
                            [] x # NaN -> IF x < low THEN low
                                          ELSE IF x > high THEN high ELSE x
ToUint32(x) == Saturate(x, 0, 2 * IntBound - 1)

(* (rt_uint8_t)x: through either conversion to 32 bits, then the low byte. *)
ToUint8(x) == {ToUint32(x) % Radix, Saturate(x, -IntBound, IntBound - 1) % Radix}

(* n >> 8, n >> 16, n >> 24. *)
Shift8(n)  == n \div Radix
Shift16(n) == Shift8(Shift8(n))
Shift24(n) == Shift8(Shift16(n))

BytesSwapped(x, low) ==     \* the two middle bytes are exchanged
    LET n == ToUint32(x) IN <<low, Shift16(n) % Radix, Shift8(n) % Radix, Shift24(n) % Radix>>

Bytes(x, low) ==
    LET n == ToUint32(x) IN <<low, Shift8(n) % Radix, Shift16(n) % Radix, Shift24(n) % Radix>>

(* One value of write_raw_mem_async, or of write_bench_mem_async. *)
StoreValue ==
    /\ pc = "store" /\ j < N
    /\ \E low \in ToUint8(value[j]) :
          data8' = [k \in DOMAIN data8 |-> IF k \in (4 * j)..(4 * j + 3)
                                           THEN Bytes(value[j], low)[k - 4 * j + 1]
                                           ELSE data8[k]]
    /\ j' = j + 1
    /\ UNCHANGED <<pc, acc, gyro, value, shown>>

Stored ==
    /\ pc = "store" /\ j = N
    /\ pc' = "read" /\ j' = 0
    /\ UNCHANGED <<acc, gyro, value, data8, shown>>

(* The highest byte is shifted as an int: it may make the value negative.  *)
Number(b) == b[1] + b[2] * Radix + b[3] * Radix * Radix
                  + Wrap(b[4] * Radix * Radix * Radix, IntBound)

(* One value of read_raw_mem_async, or of read_bench_mem_async. *)
ReadValue ==
    /\ pc = "read" /\ j < N
    /\ shown' = [shown EXCEPT ![j] = Number([k \in 1..4 |-> data8[4 * j + k - 1]])]
    /\ j' = j + 1
    /\ UNCHANGED <<pc, acc, gyro, value, data8>>

(* All that a reading leaves is written again before it is used again. *)
Shown ==
    /\ pc = "read" /\ j = N
    /\ pc' = "sample" /\ j' = 0
    /\ acc' = NoAxes /\ gyro' = NoAxes
    /\ value' = Zero /\ data8' = NoBytes /\ shown' = Zero

Next == mpu6050_read_raw \/ producer_entry \/ StoreValue \/ Stored \/ ReadValue \/ Shown

Spec == Init /\ [][Next]_vars

-----------------------------------------------------------------------------
(* What is read back from a record is what was stored, in the range of     *)
(* int: no byte is lost, exchanged or given to a neighbour, in either of   *)
(* the conversions the compiler may choose.  A negative value, and NaN,    *)
(* come back as less than Radix; a larger value comes back negative.       *)
RoundTrip ==
    pc = "read" => \A k \in 0..(j - 1) :
        LET x == value[k] IN
        CASE x = NaN -> shown[k] = 0
          [] x # NaN -> /\ x \in 0..(IntBound - 1) => shown[k] = x
                        /\ x < 0 => shown[k] \in Byte
                        /\ x >= IntBound => shown[k] < 0

(* What is shown of the two sensors is the absolute value of their axes.   *)
(* There are two exceptions, and both show 0: a sensor whose axes are all  *)
(* 0 has NaN for its value, and one whose sum of squares does not fit an   *)
(* int has 0.                                                              *)
Displayed ==
    pc = "read" /\ j = N => \A k \in {0, 1} :
        LET n == SumOfSquares(IF k = 0 THEN acc ELSE gyro)
        IN  shown[k] \in IF n \in 1..(IntBound - 1) THEN Near(n) ELSE {0}
=============================================================================
