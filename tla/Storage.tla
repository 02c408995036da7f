------------------------------ MODULE Storage -------------------------------
(***************************************************************************)
(* The four tasks of applications/procedure.c that store records in the    *)
(* FLASH and read them back, as the deferrable server runs them: one at a  *)
(* time, and for each button a write and a read in turn.                   *)
(*                                                                         *)
(* The raw and the bench functions are the same code with other numbers:   *)
(* a stream has a first address, a record size and the address from which  *)
(* a write erases the chip and starts again.  The record is made from what *)
(* the arrays hold when the task has the mutex: any value.                 *)
(***************************************************************************)
EXTENDS W25q64

CONSTANTS
    Stream,         \* raw, bench
    Indexed,        \* the stream that takes its records from arrays: raw
    First,          \* of each stream: 0x00 and 0x800000
    Size,           \* 12 and 0x38
    Limit,          \* 0x7FFFF4 and 0xFFFFC8
    End,            \* the end of the stream's addresses
    NumReadings     \* NUM_READINGS

(* What the numbers of the code satisfy.  The cursors stay far below 2^32  *)
(* (CursorInv), so only the three bytes that are sent of them can wrap.    *)
ASSUME StreamAssumption ==
    \A s \in Stream : /\ First[s] \in Nat /\ Size[s] \in Length
                      /\ Limit[s] \in Nat /\ End[s] \in Nat
                      /\ First[s] < Limit[s]
                      /\ Limit[s] + Size[s] <= End[s]
                      /\ End[s] <= Space
ASSUME FunctionAssumption == First \in [Stream -> Nat]
ASSUME DisjointAssumption ==
    \A s, t \in Stream : s # t => End[s] <= First[t] \/ End[t] <= First[s]
ASSUME IndexAssumption == NumReadings \in Nat \ {0} /\ Indexed \in Stream

VARIABLES
    cursor,     \* addr and addr_bench
    index,      \* the static i of write_raw_mem_async
    turn,       \* the task the stream's button asks for next: 0 write, 1 read
    pc, who,    \* where the server is in the task of which stream
    rec,        \* data8 or res8
    last,       \* history: the last record stored of each stream
    wiped       \* history: the streams whose last record was erased since

svars == <<cursor, index, turn, pc, who, rec, last, wiped>>
vars  == <<fvars, svars>>

TypeOK ==
    /\ FlashTypeOK
    /\ cursor \in [Stream -> Nat]
    /\ index \in 0..(NumReadings - 1)
    /\ turn \in [Stream -> {0, 1}]
    /\ pc \in {"idle", "erase", "encode", "program", "read"}
    /\ who \in Stream
    /\ rec \in Value \cup {NoData}
    /\ last \in [Stream -> Value \cup {Erased}]
    /\ wiped \subseteq Stream

(* The static initialisers, and the erasure of the chip by main. *)
Init ==
    /\ FlashInit
    /\ cursor = First
    /\ index = 0
    /\ turn = [s \in Stream |-> 0]
    /\ pc = "idle" /\ who = Indexed
    /\ rec = NoData
    /\ last = [s \in Stream |-> Erased]
    /\ wiped = Stream

-----------------------------------------------------------------------------
(* Tests for the end of the part, and not for its last record. *)
FullAtEnd(s) == cursor[s] >= End[s]
Full(s) == cursor[s] >= Limit[s]

StartWriteNoErase(s) ==     \* starts again without erasing the chip
    /\ pc = "idle" /\ turn[s] = 0
    /\ who' = s
    /\ pc' = IF Full(s) THEN "erase" ELSE "encode"
    /\ UNCHANGED <<fvars, cursor, index, turn, rec, last, wiped>>

(* write_raw_mem_async, write_bench_mem_async: erase the chip if the last  *)
(* position was written, before the mutex is taken.                        *)
StartWrite(s) ==
    /\ pc = "idle" /\ turn[s] = 0
    /\ who' = s
    /\ IF Full(s)
       THEN pc' = "erase" /\ todo' = w25q64_control("CHIP_ERASE", <<>>, 0, NoData)
       ELSE pc' = "encode" /\ UNCHANGED todo
    /\ UNCHANGED <<chip, buf, cursor, index, turn, rec, last, wiped>>

KeepCursor ==       \* goes on at the old address after the erasure
    /\ pc = "erase" /\ todo = <<>>
    /\ pc' = "encode"
    /\ UNCHANGED <<fvars, cursor, index, turn, who, rec, last, wiped>>

EraseAgain ==       \* the test in a loop, the reset of the cursor forgotten
    /\ pc = "erase" /\ todo = <<>>
    /\ todo' = w25q64_control("CHIP_ERASE", <<>>, 0, NoData)
    /\ UNCHANGED <<chip, buf, svars>>

Rewind ==
    /\ pc = "erase" /\ todo = <<>>
    /\ pc' = "encode"
    /\ cursor' = [cursor EXCEPT ![who] = First[who]]
    /\ UNCHANGED <<fvars, index, turn, who, rec, last, wiped>>

(* With the mutex: the record is built and sent to the driver. *)
Encode(v) ==
    /\ pc = "encode"
    /\ pc' = "program"
    /\ rec' = v
    /\ todo' = w25q64_control("PAGE_PROGRAM", AddressBytes(cursor[who]), Size[who], v)
    /\ UNCHANGED <<chip, buf, cursor, index, turn, who, last, wiped>>

Advance ==
    /\ pc = "program" /\ todo = <<>>
    /\ pc' = "idle"
    /\ cursor' = [cursor EXCEPT ![who] = @ + Size[who]]
    /\ index' = IF who = Indexed THEN (index + 1) % NumReadings ELSE index
    /\ turn' = [turn EXCEPT ![who] = 1]
    /\ last' = [last EXCEPT ![who] = rec]
    /\ wiped' = wiped \ {who}
    /\ UNCHANGED <<fvars, who, rec>>

(* Reads at the cursor, not before it. *)
ReadAtCursor(s) ==
    /\ pc = "idle" /\ turn[s] = 1
    /\ pc' = "read" /\ who' = s
    /\ todo' = w25q64_control("READ_DATA", AddressBytes(cursor[s]), Size[s], NoData)
    /\ UNCHANGED <<chip, buf, cursor, index, turn, rec, last, wiped>>

(* read_raw_mem_async, read_bench_mem_async: the record before the cursor, *)
(* in unsigned arithmetic.  A read follows a write of its stream because   *)
(* its button asks for them in turn, and as long as the server runs all it *)
(* is asked for (ImplementsFairFifo of Deferrable): after a lost write     *)
(* (removal_race, mutex_lost) a first read would be of the address -12.    *)
StartRead(s) ==
    /\ pc = "idle" /\ turn[s] = 1
    /\ pc' = "read" /\ who' = s
    /\ todo' = w25q64_control("READ_DATA", AddressBytes((cursor[s] - Size[s]) % Space),
                              Size[s], NoData)
    /\ UNCHANGED <<chip, buf, cursor, index, turn, rec, last, wiped>>

EndRead ==
    /\ pc = "read" /\ todo = <<>>
    /\ pc' = "idle"
    /\ turn' = [turn EXCEPT ![who] = 0]
    /\ UNCHANGED <<fvars, cursor, index, who, rec, last, wiped>>

Send == (Transfer \/ PollAgain) /\ UNCHANGED svars

Done == /\ ChipDone
        /\ wiped' = IF busy.op = "CHIP_ERASE" THEN Stream ELSE wiped
        /\ UNCHANGED <<cursor, index, turn, pc, who, rec, last>>

Next == \/ \E s \in Stream : StartWrite(s) \/ StartRead(s)
        \/ Rewind \/ (\E v \in Value : Encode(v)) \/ Advance \/ EndRead
        \/ Send \/ Done

Task == Rewind \/ (\E v \in Value : Encode(v)) \/ Advance \/ EndRead

Spec == Init /\ [][Next]_vars

(* The server goes on with its task, and the chip ends what it began. *)
FairSpec == Spec /\ WF_vars(Task) /\ WF_vars(Send) /\ WF_vars(Done)

-----------------------------------------------------------------------------
(* The cursors: in the stream's part, at a place for a whole record when   *)
(* one is programmed, and behind a whole record when one is to be read.    *)
CursorInv ==
    /\ \A s \in Stream : First[s] <= cursor[s] /\ cursor[s] <= End[s]
    /\ \A s \in Stream : turn[s] = 1 => First[s] + Size[s] <= cursor[s]
    /\ pc \in {"encode", "program"} => cursor[who] < Limit[who] /\ turn[who] = 0
    /\ pc = "erase" => turn[who] = 0
    /\ pc = "read" => turn[who] = 1

(* Every record is programmed, and read back, at the addresses the code    *)
(* gives its stream: a write never runs past their end, and a read never   *)
(* wraps below the first.                                                  *)
RecordsInPart ==
    /\ pc \in {"encode", "program"} => /\ First[who] <= cursor[who]
                                       /\ cursor[who] + Size[who] <= End[who]
    /\ pc = "read" => First[who] + Size[who] <= cursor[who]

(* A cursor is set back to its first address only when the erasure asked   *)
(* for is over: the chip is idle, blank and write-protected.               *)
RewindErased == pc = "erase" /\ todo = <<>> => busy = Idle /\ mem = Blank /\ ~wel

(* Nothing is programmed over a record that was not erased first: the      *)
(* comments of write_raw_mem_async and write_bench_mem_async say they      *)
(* erase "the chip if the last position was written".                      *)
NothingOverwritten == \A x \in DOMAIN mem : mem[x] # NoData

(* The places of a stream's records; those that may hold one, the one that *)
(* is being programmed included; and the bytes of the chip a record takes. *)
Places(s) == {a \in First[s]..(Limit[s] - 1) : \E k \in 0..a : a = First[s] + k * Size[s]}
Recorded(s) == {a \in Places(s) : a < cursor[s] \/ (pc = "program" /\ who = s /\ a = cursor[s])}
Bytes(s, a) == Page(AddressBytes(a), Size[s])

(* Byte x belongs to two records. *)
Met(x) == \E s, t \in Stream : \E a \in Recorded(s), b \in Recorded(t) :
              <<s, a>> # <<t, b>> /\ x \in Bytes(s, a) \cap Bytes(t, b)

(* On any layout, a byte is programmed twice without an erasure only where *)
(* the bytes of two records meet: no place is ever programmed twice, also  *)
(* when one stream erases the records of the other, or starts again.       *)
MixedWhereMet == \A x \in DOMAIN mem : mem[x] = NoData => Met(x)

(* The record at place a meets no other, and is read as it was programmed: *)
(* it does not run past the end of its page, or of the chip.               *)
Alone(s, a) == \A t \in Stream : \A b \in Recorded(t) :
                   <<t, b>> # <<s, a>> => Bytes(s, a) \cap Bytes(t, b) = {}
Straight(s, a) == /\ AddressBytes(a)[3] + Size[s] <= Radix
                  /\ At(AddressBytes(a)) + Size[s] <= Capacity

LastPlace(s) == cursor[s] - Size[s]

(* A read task gets the last record stored of its stream, or an erased     *)
(* cell if the chip was erased since; if the record meets another, or runs *)
(* past the end of its page, it may get anything.                          *)
ReadsLast ==
    pc = "read" /\ todo = <<>> /\ Alone(who, LastPlace(who)) /\ Straight(who, LastPlace(who)) =>
        buf = IF who \in wiped THEN Erased ELSE last[who]

(* Every task of the server ends. *)
TaskEnds == (pc # "idle") ~> (pc = "idle")
=============================================================================
