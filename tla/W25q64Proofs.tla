---------------------------- MODULE W25q64Proofs ----------------------------
(***************************************************************************)
(* Lemmas about the FLASH driver and its chip, shared by the proofs about  *)
(* its callers: what one transaction does, and how an erasure goes on.     *)
(***************************************************************************)
EXTENDS W25q64, TLAPS

(***************************************************************************)
(* What one transaction does, for each that matters.                       *)
(***************************************************************************)
Refused == busy # Idle /\ UNCHANGED <<chip, buf>>

(* WRITE_ENABLE and WRITE_DISABLE set the latch of an idle chip.           *)
LEMMA SendEnable ==
    ASSUME Transfer, NEW op \in {"WRITE_ENABLE", "WRITE_DISABLE"}, Head(todo) = Tx(op)
    PROVE  \/ /\ busy = Idle /\ UNCHANGED <<mem, busy, buf>>
              /\ wel' = (op = "WRITE_ENABLE")
           \/ Refused
<1> DEFINE tx == Head(todo)
<1>1. tx.op = op
  BY DEF Tx
<1>2. Ignored(tx) \/ Enable(tx)
  BY <1>1 DEF Transfer, Start, Answer, StatusRead, Reset
<1>3. CASE Ignored(tx)
  BY <1>1, <1>3 DEF Ignored, Refused
<1>4. CASE Enable(tx)
  <2>1. busy = Idle /\ UNCHANGED <<mem, busy, buf>> /\ wel' = (tx.op = "WRITE_ENABLE")
    BY <1>4 DEF Enable
  <2> QED BY <1>1, <2>1, Zenon
<1> QED BY <1>2, <1>3, <1>4

(* A program, an erase or a new status begins if the latch is set.         *)
LEMMA SendStart ==
    ASSUME Transfer, NEW tx, Head(todo) = tx,
           tx.op \in {"PAGE_PROGRAM", "CHIP_ERASE", "WRITE_SR"}
    PROVE  \/ /\ busy = Idle /\ UNCHANGED <<mem, wel, buf>>
              /\ busy' = IF wel THEN tx ELSE Idle
           \/ Refused
<1>1. Ignored(tx) \/ Start(tx)
  BY DEF Transfer, Enable, Answer, StatusRead, Reset
<1>2. CASE Ignored(tx)
  BY <1>2 DEF Ignored, Refused
<1>3. CASE Start(tx)
  BY <1>3 DEF Start
<1> QED BY <1>1, <1>2, <1>3

(* A status read changes nothing, and a polling loop ends when idle.       *)
LEMMA SendStatus ==
    ASSUME Transfer, NEW op \in {"POLL", "READ_SR", "RESET_ENABLE", "UNSELECTED"},
           Head(todo) = Tx(op)
    PROVE  UNCHANGED <<chip, buf>> /\ (op = "POLL" => busy = Idle)
<1> DEFINE tx == Head(todo)
<1>1. tx.op = op
  BY DEF Tx
<1>2. StatusRead(tx)
  BY <1>1 DEF Transfer, Ignored, Status, Enable, Start, Answer, Reset
<1> QED BY <1>1, <1>2 DEF StatusRead, PollEnds

(* A read of the memory, or of the identification, changes the buffer.     *)
LEMMA SendRead ==
    ASSUME Transfer, NEW tx, Head(todo) = tx, tx.op \in {"READ_DATA", "JEDEC_ID"}
    PROVE  /\ UNCHANGED chip
           /\ busy = Idle /\ tx.op = "READ_DATA" => buf' = Read(mem, tx.a, tx.n)
           /\ busy # Idle => buf' = NoData
<1>1. Ignored(tx) \/ Answer(tx)
  BY DEF Transfer, Enable, Start, StatusRead, Reset
<1> QED BY <1>1 DEF Ignored, Answer

(* After a transaction an idle chip is writable only if it was and the     *)
(* transaction is no WRITE_DISABLE, or if it is a WRITE_ENABLE.            *)
LEMMA LatchSet ==
    ASSUME Transfer, busy' = Idle, wel'
    PROVE  \/ Head(todo).op = "WRITE_ENABLE"
           \/ busy = Idle /\ wel /\ Head(todo).op # "WRITE_DISABLE"
<1> DEFINE tx == Head(todo)
<1>1. CASE Ignored(tx) \/ Start(tx) \/ Answer(tx) \/ StatusRead(tx) \/ Reset(tx)
  BY <1>1 DEF Ignored, Start, Answer, StatusRead, Reset, chip, Idle, Tx
<1>2. CASE Enable(tx)
  BY <1>2, Zenon DEF Enable
<1> QED BY <1>1, <1>2 DEF Transfer

(* An idle chip has settled, and one that ends its work was going to. *)
LEMMA SettledIdle == busy = Idle => Settled = mem
BY DEF Settled, Idle, Tx

LEMMA SettledDone ==
    ASSUME ChipDone
    PROVE  Settled' = Settled
<1>1. busy' = Idle
  BY DEF ChipDone
<1>2. Settled' = mem'
  BY <1>1 DEF Settled, Idle, Tx
<1> QED BY <1>2 DEF ChipDone, Settled

-----------------------------------------------------------------------------
BlankChip == busy = Idle /\ mem = Blank /\ ~wel

(* How far the erasure is, for each transaction that is still to be sent. *)
Erasing ==
    \/ todo = w25q64_erase
    \/ todo = <<Tx("CHIP_ERASE"), Tx("POLL"), Tx("WRITE_DISABLE")>> /\ busy = Idle /\ wel
    \/ todo = <<Tx("POLL"), Tx("WRITE_DISABLE")>> /\ (busy = Tx("CHIP_ERASE") \/ BlankChip)
    \/ todo = <<Tx("WRITE_DISABLE")>> /\ BlankChip
    \/ todo = <<>> /\ BlankChip

(* A transaction takes the erasure one stage further, if the chip is idle  *)
(* when it gets the WRITE_ENABLE.  A chip that is not Slow is: a command   *)
(* that is not a status read or the WRITE_DISABLE after a program finds it *)
(* idle.                                                                   *)
LEMMA ErasingSend ==
    ASSUME ~Slow \/ busy = Idle \/ todo # w25q64_erase, Erasing, Transfer \/ PollAgain
    PROVE  Erasing'
<1>1. CASE PollAgain
  BY <1>1 DEF PollAgain, fvars, chip, Erasing, BlankChip
<1>2. CASE Transfer
  <2> USE <1>2 DEF Transfer
  <2> DEFINE tx == Head(todo)
  <2>1. CASE todo = w25q64_erase
    <3>1. tx = Tx("WRITE_ENABLE")
          /\ Tail(todo) = <<Tx("CHIP_ERASE"), Tx("POLL"), Tx("WRITE_DISABLE")>>
      BY <2>1 DEF w25q64_erase
    <3>2. busy = Idle
      BY <2>1, <3>1 DEF Timely, Tx, Status
    <3>3. Enable(tx)
      BY <3>1, <3>2 DEF Tx, Ignored, Start, Answer, StatusRead, Reset
    <3>4. wel' /\ busy' = Idle
      <4>1. tx.op = "WRITE_ENABLE"
        BY <3>1 DEF Tx
      <4>2. wel' = (tx.op = "WRITE_ENABLE") /\ busy' = busy
        BY <3>3 DEF Enable
      <4> QED BY <3>2, <4>1, <4>2, Zenon
    <3> QED BY <3>1, <3>4 DEF Erasing
  <2>2. CASE todo = <<Tx("CHIP_ERASE"), Tx("POLL"), Tx("WRITE_DISABLE")>> /\ busy = Idle /\ wel
    <3>1. tx = Tx("CHIP_ERASE") /\ Tail(todo) = <<Tx("POLL"), Tx("WRITE_DISABLE")>>
      BY <2>2
    <3>2. Start(tx)
      BY <3>1, <2>2 DEF Tx, Ignored, Enable, Answer, StatusRead, Reset
    <3> QED BY <3>1, <3>2, <2>2 DEF Start, Erasing
  <2>3. CASE todo = <<Tx("POLL"), Tx("WRITE_DISABLE")>> /\ (busy = Tx("CHIP_ERASE") \/ BlankChip)
    <3>1. tx = Tx("POLL") /\ Tail(todo) = <<Tx("WRITE_DISABLE")>>
      BY <2>3
    <3>2. StatusRead(tx)
      BY <3>1 DEF Tx, Status, Ignored, Enable, Start, Answer, Reset
    <3>3. busy = Idle /\ UNCHANGED chip
      BY <3>1, <3>2 DEF StatusRead, PollEnds, Tx
    <3>4. BlankChip /\ BlankChip'
      BY <2>3, <3>3 DEF BlankChip, Idle, Tx, chip
    <3> QED BY <3>1, <3>4 DEF Erasing
  <2>4. CASE todo = <<Tx("WRITE_DISABLE")>> /\ BlankChip
    <3>1. tx = Tx("WRITE_DISABLE") /\ Tail(todo) = <<>>
      BY <2>4
    <3>2. Enable(tx)
      BY <3>1, <2>4 DEF Tx, BlankChip, Ignored, Start, Answer, StatusRead, Reset
    <3>3. BlankChip'
      <4>1. tx.op # "WRITE_ENABLE"
        BY <3>1 DEF Tx
      <4>2. wel' = (tx.op = "WRITE_ENABLE") /\ busy' = busy /\ mem' = mem
        BY <3>2 DEF Enable
      <4> QED BY <2>4, <4>1, <4>2, Zenon DEF BlankChip
    <3> QED BY <3>1, <3>3 DEF Erasing
  <2> QED BY <2>1, <2>2, <2>3, <2>4 DEF Erasing
<1> QED BY <1>1, <1>2

(* The chip ends an operation: only the erasure, once it was started. *)
LEMMA ErasingDone ==
    ASSUME Erasing, ChipDone
    PROVE  Erasing'
<1>1. CASE todo = w25q64_erase
  BY <1>1 DEF ChipDone, Erasing
<1>2. CASE busy = Tx("CHIP_ERASE") /\ todo = <<Tx("POLL"), Tx("WRITE_DISABLE")>>
  <2>1. mem' = Blank
    BY <1>2 DEF ChipDone, Tx
  <2> QED BY <1>2, <2>1 DEF ChipDone, Erasing, BlankChip
<1> QED BY <1>1, <1>2 DEF ChipDone, Erasing, BlankChip
=============================================================================
