------------------------------- MODULE W25q64 -------------------------------
(***************************************************************************)
(* The FLASH driver of peripherals/w25q64.c and the chip behind it.        *)
(*                                                                         *)
(* A function of the driver is the sequence of SPI transactions it sends;  *)
(* a transaction (one chain of messages, chip select held) is one step,    *)
(* and the chip works on its own between two of them.  The chip is not in  *)
(* the repository.  It is modelled as the driver uses it: it has a write   *)
(* enable latch, a program or an erase goes on after the transaction that  *)
(* started it and is announced by bit 0 of status register 1, and until it *)
(* ends the chip answers only that register.                               *)
(*                                                                         *)
(* An address is the three bytes sent for it, and the chip takes the first *)
(* for the most significant.  It has half of the 2^24 addresses (README:   *)
(* "64 Mbit"), so it does not look at the highest bit; it programs within  *)
(* one page, from the end of it on at its beginning, and reads straight    *)
(* on.  The memory is a function whose domain is the bytes programmed      *)
(* since the last erase; a byte is its place in a record.                  *)
(***************************************************************************)
EXTENDS Integers, Sequences

CONSTANTS
    Radix,      \* the values of a byte, and the bytes of a page: 256
    Value,      \* the contents of a record
    NoData,     \* a byte in no defined state, and what is read if not one whole record
    Erased,     \* what is read from erased bytes (all ones)
    Slow        \* may a command find the chip busy with an earlier one?

ASSUME RadixAssumption == Radix \in Nat \ {0} /\ Radix % 2 = 0
ASSUME ValueAssumption == Value \cap {NoData, Erased} = {} /\ NoData # Erased
ASSUME NoDataAssumption == NoData \notin Value \X Nat      \* no byte of a record
ASSUME SlowAssumption == Slow \in BOOLEAN

Byte == 0..(Radix - 1)
Address == Byte \X Byte \X Byte
Length == 1..Radix              \* of a record: dlen

Space == Radix * Radix * Radix  \* what three bytes can address
Capacity == Space \div 2        \* of the chip

(* The bytes of an address in the order the code stores and sends them.    *)
AddressBytes(a) == <<a % Radix, (a \div Radix) % Radix, (a \div (Radix * Radix)) % Radix>>

VARIABLES
    mem,        \* the programmed bytes
    wel,        \* the write enable latch
    busy,       \* the transaction the chip works on, or Idle
    todo,       \* the transactions the driver has still to send
    buf         \* the receive buffer of the caller

chip == <<mem, wel, busy>>
fvars == <<chip, todo, buf>>

Tx(op)         == [op |-> op]
TxRead(a, n)   == [op |-> "READ_DATA", a |-> a, n |-> n]
TxProgram(a, n, v) == [op |-> "PAGE_PROGRAM", a |-> a, n |-> n, v |-> v]

Idle == Tx("IDLE")
Blank == <<>>                   \* the memory of an erased chip

Transaction == [op : {"WRITE_ENABLE", "WRITE_DISABLE", "CHIP_ERASE", "POLL", "IDLE",
                      "READ_SR", "WRITE_SR", "JEDEC_ID", "RESET_ENABLE", "RESET",
                      "UNSELECTED"}]
               \cup [op : {"READ_DATA"}, a : Address, n : Length]
               \cup [op : {"PAGE_PROGRAM"}, a : Address, n : Length, v : Value]

FlashTypeOK ==
    /\ DOMAIN mem \subseteq 0..(Capacity - 1)
    /\ \A x \in DOMAIN mem : mem[x] \in (Value \X Byte) \cup {NoData}
    /\ wel \in BOOLEAN
    /\ busy \in Transaction
    /\ todo \in Seq(Transaction)
    /\ buf \in Value \cup {NoData, Erased, "id"}

FlashInit == /\ mem = Blank /\ wel = FALSE /\ busy = Idle
             /\ todo = <<>> /\ buf = NoData

-----------------------------------------------------------------------------
(***************************************************************************)
(* The driver: what w25q64_control sends for each instruction.             *)
(***************************************************************************)

(* Sends WRITE_DISABLE before the page program. *)
w25q64_write_early_disable(a, n, v) ==
    <<Tx("WRITE_ENABLE"), Tx("WRITE_DISABLE"), TxProgram(a, n, v)>>

w25q64_write(a, n, v) == <<Tx("WRITE_ENABLE"), TxProgram(a, n, v), Tx("WRITE_DISABLE")>>

(* Leaves the length of the last message at 0. *)
w25q64_read_empty(a, n) == <<TxRead(a, 0)>>

w25q64_read(a, n) == <<TxRead(a, n)>>

(* Does not wait for the end of the erasure. *)
w25q64_erase_unpolled ==
    <<Tx("WRITE_ENABLE"), Tx("CHIP_ERASE"), Tx("WRITE_DISABLE")>>

(* The loop on READ_SR1 is one transaction, POLL, that gets through when   *)
(* the BUSY bit is read as 0.                                              *)
w25q64_erase ==
    <<Tx("WRITE_ENABLE"), Tx("CHIP_ERASE"), Tx("POLL"), Tx("WRITE_DISABLE")>>

(* Leaves the chip writable. *)
w25q64_erase_part_enabled ==
    <<Tx("WRITE_ENABLE"), Tx("UNSELECTED"), Tx("POLL")>>

(* The chain is started at its second message, the address: the            *)
(* instruction is never sent, and the chip is not selected.                *)
w25q64_erase_part ==
    <<Tx("WRITE_ENABLE"), Tx("UNSELECTED"), Tx("POLL"), Tx("WRITE_DISABLE")>>

(* The register is received over the local pointer, not into the buffer    *)
(* it points to.                                                           *)
w25q64_getSR == <<Tx("READ_SR")>>

w25q64_writeSR == <<Tx("WRITE_ENABLE"), Tx("WRITE_SR"), Tx("WRITE_DISABLE")>>

w25q64_getJEDEC == <<Tx("JEDEC_ID")>>

w25q64_reset == <<Tx("RESET_ENABLE"), Tx("RESET")>>

(* w25q64_control: the transactions of one call, for the instructions an   *)
(* address and a record go with and for the others.                        *)
w25q64_control(instr, a, n, v) ==
    CASE instr = "PAGE_PROGRAM" -> w25q64_write(a, n, v)
      [] instr = "READ_DATA"    -> w25q64_read(a, n)
      [] instr = "CHIP_ERASE"   -> w25q64_erase
      [] instr = "SECTOR_ERASE" -> w25q64_erase_part
      [] instr = "READ_SR1"     -> w25q64_getSR
      [] instr = "WRITE_SR"     -> w25q64_writeSR
      [] instr = "JEDEC_ID"     -> w25q64_getJEDEC
      [] instr = "RESET"        -> w25q64_reset

-----------------------------------------------------------------------------
(***************************************************************************)
(* The chip.                                                               *)
(***************************************************************************)
At(a) == ((a[1] * Radix + a[2]) * Radix + a[3]) % Capacity

(* The bytes a program of n bytes changes: those of the page of a.         *)
Page(a, n) == {(At(a) - a[3]) + ((a[3] + i) % Radix) : i \in 0..(n - 1)}

(* The memory m after n bytes of v are programmed at a.  Programming only  *)
(* clears bits: over other bytes it leaves a mixture.                      *)
Programmed(m, a, n, v) ==
    [x \in DOMAIN m \cup Page(a, n) |->
        LET byte == <<v, (x - a[3]) % Radix>>
        IN  IF x \notin Page(a, n) THEN m[x]
            ELSE IF x \notin DOMAIN m \/ m[x] = byte THEN byte ELSE NoData]

(* What n bytes read from a are: a record, erased, or neither.             *)
Read(m, a, n) ==
    LET Src(i) == (At(a) + i) % Capacity
        Whole  == {v \in Value : \A i \in 0..(n - 1) : Src(i) \in DOMAIN m /\ m[Src(i)] = <<v, i>>}
    IN  IF \A i \in 0..(n - 1) : Src(i) \notin DOMAIN m THEN Erased
        ELSE IF Whole # {} THEN CHOOSE v \in Whole : TRUE ELSE NoData

(* The commands a busy chip answers. *)
Status == {"POLL", "READ_SR", "RESET_ENABLE", "RESET", "UNSELECTED"}

(* How long a program lasts is the chip's business.  If Slow is FALSE it   *)
(* has ended by the next command after the WRITE_DISABLE that follows it.  *)
Timely(tx) == Slow \/ busy = Idle \/ tx.op \in {"WRITE_DISABLE"} \cup Status

Ignored(tx) ==          \* the chip is busy
    /\ busy # Idle /\ tx.op \notin Status
    /\ buf' = IF tx.op \in {"READ_DATA", "JEDEC_ID"} THEN NoData ELSE buf
    /\ UNCHANGED chip

Enable(tx) ==
    /\ busy = Idle /\ tx.op \in {"WRITE_ENABLE", "WRITE_DISABLE"}
    /\ wel' = (tx.op = "WRITE_ENABLE")
    /\ UNCHANGED <<mem, busy, buf>>

Start(tx) ==            \* a program or an erase begins, if it is enabled
    /\ busy = Idle /\ tx.op \in {"PAGE_PROGRAM", "CHIP_ERASE", "WRITE_SR"}
    /\ busy' = IF wel THEN tx ELSE Idle
    /\ UNCHANGED <<mem, wel, buf>>

Answer(tx) ==
    /\ busy = Idle /\ tx.op \in {"READ_DATA", "JEDEC_ID"}
    /\ buf' = IF tx.op = "READ_DATA" THEN Read(mem, tx.a, tx.n) ELSE "id"
    /\ UNCHANGED chip

(* The polling loops test bit 1 of the register, the write enable latch.   *)
PollLatch == ~wel

(* buf & 0x1 is 0. *)
PollEnds == busy = Idle

(* A status register is read; w25q64_getSR discards what it reads.         *)
(* Nothing is done without a chip select.                                  *)
StatusRead(tx) ==
    /\ tx.op \in {"POLL", "READ_SR", "RESET_ENABLE", "UNSELECTED"}
    /\ tx.op = "POLL" => PollEnds
    /\ UNCHANGED <<chip, buf>>

Reset(tx) ==            \* an operation under way is cut off
    /\ tx.op = "RESET"
    /\ mem' = CASE busy.op = "PAGE_PROGRAM" -> [x \in DOMAIN mem \cup Page(busy.a, busy.n) |->
                                                  IF x \in Page(busy.a, busy.n) THEN NoData ELSE mem[x]]
                [] busy.op = "CHIP_ERASE"   -> [a \in DOMAIN mem |-> NoData]
                [] OTHER                    -> mem
    /\ wel' = FALSE /\ busy' = Idle
    /\ UNCHANGED buf

(* rt_spi_transfer_message.  The driver looks at the result of no          *)
(* transfer; here transfers succeed.  The lock of the bus, which nobody    *)
(* contends for, is in Application: it matters for the priorities only.    *)
Transfer ==
    /\ todo # <<>>
    /\ LET tx == Head(todo) IN
        /\ Timely(tx)
        /\ \/ Ignored(tx) \/ Enable(tx) \/ Start(tx) \/ Answer(tx) \/ StatusRead(tx) \/ Reset(tx)
    /\ todo' = Tail(todo)

PollAgain ==            \* one more turn of a polling loop
    /\ todo # <<>> /\ Head(todo).op = "POLL" /\ ~PollEnds
    /\ UNCHANGED fvars

ChipDone ==             \* the operation ends, and the latch with it
    /\ busy # Idle
    /\ mem' = CASE busy.op = "PAGE_PROGRAM" -> Programmed(mem, busy.a, busy.n, busy.v)
                [] busy.op = "CHIP_ERASE"   -> Blank
                [] OTHER                    -> mem
    /\ busy' = Idle /\ wel' = FALSE
    /\ UNCHANGED <<todo, buf>>

(* The memory once the chip has ended what it works on. *)
Settled == CASE busy.op = "PAGE_PROGRAM" -> Programmed(mem, busy.a, busy.n, busy.v)
             [] busy.op = "CHIP_ERASE"   -> Blank
             [] OTHER                    -> mem
=============================================================================
