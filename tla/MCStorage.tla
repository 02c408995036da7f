----------------------------- MODULE MCStorage ------------------------------
EXTENDS Storage

CONSTANTS raw, bench

(* Two records and a half of raw, a little more than one of bench, before  *)
(* the chip is erased.  The third place of raw and the first of bench meet *)
(* on the chip, which does not look at the highest bit of an address; the  *)
(* others are alone.                                                       *)
MCStream == {raw, bench}
MCFirst  == [s \in MCStream |-> IF s = raw THEN 0 ELSE 132]
MCSize   == [s \in MCStream |-> IF s = raw THEN 2 ELSE 3]
MCLimit  == [s \in MCStream |-> IF s = raw THEN 5 ELSE 136]
MCEnd    == [s \in MCStream |-> IF s = raw THEN 7 ELSE 139]

(* The layout of the code, scaled down to bytes of three bits: the stream  *)
(* raw has the lower half of the addresses, up to the last whole record.   *)
RawStream == {raw}
RawFirst  == [s \in RawStream |-> 0]
RawSize   == [s \in RawStream |-> 3]
RawEnd    == [s \in RawStream |-> Capacity]
RawLimit  == [s \in RawStream |-> Capacity - 3]

(* The numbers of the code satisfy the assumptions on the constants. *)
ASSUME CodeLayout ==
    Radix = 256 => /\ 0 < 8388596 /\ 8388596 + 12 <= 8388608           \* 0x7FFFF4, 0x800000
                   /\ 8388608 < 16777160 /\ 16777160 + 56 <= Space     \* 0xFFFFC8

(* And with the numbers of the code records do meet on the chip: the first *)
(* of raw and the 5473rd.                                                  *)
ASSUME CodeMeets ==
    Radix = 256 => Page(AddressBytes(0), 12) \cap Page(AddressBytes(12 * 5472), 12) # {}
=============================================================================
