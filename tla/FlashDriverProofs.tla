------------------------- MODULE FlashDriverProofs --------------------------
(***************************************************************************)
(* Proofs about the FLASH driver, for any addresses, records and sequence  *)
(* of calls: what a call has done when it returns, and that none leaves    *)
(* the chip writable.                                                      *)
(***************************************************************************)
EXTENDS FlashDriver, W25q64Proofs

-----------------------------------------------------------------------------
(***************************************************************************)
(* Write protection, for a chip of any speed.  A call that sets the latch  *)
(* is one whose last transaction clears it, and until then the latch of an *)
(* idle chip may be set.  A chip that refuses the WRITE_DISABLE is busy,   *)
(* and clears the latch itself when it ends.                               *)
(***************************************************************************)
EndsDisabled == todo # <<>> /\ todo[Len(todo)].op = "WRITE_DISABLE"

ProtectInv ==
    /\ todo \in Seq(Transaction)
    /\ \A k \in 1..Len(todo) : todo[k].op = "WRITE_ENABLE" => EndsDisabled
    /\ busy = Idle /\ wel => EndsDisabled

(* What w25q64_control sends are transactions, and a WRITE_ENABLE among    *)
(* them is matched by a WRITE_DISABLE at the end.                          *)
LEMMA ControlType ==
    ASSUME NEW instr \in Instruction, NEW a \in Target, NEW v \in Value
    PROVE  LET s == w25q64_control(instr, a, RecordLength, v)
           IN  /\ s \in Seq(Transaction) /\ s # <<>>
               /\ \A k \in 1..Len(s) : s[k].op = "WRITE_ENABLE" => s[Len(s)].op = "WRITE_DISABLE"
<1> DEFINE s == w25q64_control(instr, a, RecordLength, v)
           Fine(q) == /\ q \in Seq(Transaction) /\ q # <<>>
                      /\ \A k \in 1..Len(q) : q[k].op = "WRITE_ENABLE" => q[Len(q)].op = "WRITE_DISABLE"
<1>1. \A op \in {"WRITE_ENABLE", "WRITE_DISABLE", "CHIP_ERASE", "POLL", "READ_SR", "WRITE_SR",
                 "JEDEC_ID", "RESET_ENABLE", "RESET", "UNSELECTED"} :
          Tx(op) \in Transaction /\ Tx(op).op = op
  BY DEF Tx, Transaction
<1>2. /\ TxRead(a, RecordLength) \in Transaction /\ TxRead(a, RecordLength).op = "READ_DATA"
      /\ TxProgram(a, RecordLength, v) \in Transaction
  BY TargetAssumption DEF TxRead, TxProgram, Transaction
<1>3. CASE instr = "PAGE_PROGRAM"
  <2>1. s = w25q64_write(a, RecordLength, v)
    BY <1>3 DEF w25q64_control
  <2>2. Fine(w25q64_write(a, RecordLength, v))
    BY <1>1, <1>2 DEF w25q64_write
  <2> QED BY <2>1, <2>2
<1>4. CASE instr = "READ_DATA"
  <2>1. s = w25q64_read(a, RecordLength)
    BY <1>4 DEF w25q64_control
  <2>2. Fine(w25q64_read(a, RecordLength))
    BY <1>1, <1>2 DEF w25q64_read
  <2> QED BY <2>1, <2>2
<1>5. CASE instr = "CHIP_ERASE"
  <2>1. s = w25q64_erase
    BY <1>5 DEF w25q64_control
  <2>2. Fine(w25q64_erase)
    BY <1>1 DEF w25q64_erase
  <2> QED BY <2>1, <2>2
<1>6. CASE instr = "SECTOR_ERASE"
  <2>1. s = w25q64_erase_part
    BY <1>6 DEF w25q64_control
  <2>2. Fine(w25q64_erase_part)
    BY <1>1 DEF w25q64_erase_part
  <2> QED BY <2>1, <2>2
<1>7. CASE instr = "READ_SR1"
  <2>1. s = w25q64_getSR
    BY <1>7 DEF w25q64_control
  <2>2. Fine(w25q64_getSR)
    BY <1>1 DEF w25q64_getSR
  <2> QED BY <2>1, <2>2
<1>8. CASE instr = "WRITE_SR"
  <2>1. s = w25q64_writeSR
    BY <1>8 DEF w25q64_control
  <2>2. Fine(w25q64_writeSR)
    BY <1>1 DEF w25q64_writeSR
  <2> QED BY <2>1, <2>2
<1>9. CASE instr = "JEDEC_ID"
  <2>1. s = w25q64_getJEDEC
    BY <1>9 DEF w25q64_control
  <2>2. Fine(w25q64_getJEDEC)
    BY <1>1 DEF w25q64_getJEDEC
  <2> QED BY <2>1, <2>2
<1>10. CASE instr = "RESET"
  <2>1. s = w25q64_reset
    BY <1>10 DEF w25q64_control
  <2>2. Fine(w25q64_reset)
    BY <1>1 DEF w25q64_reset
  <2> QED BY <2>1, <2>2
<1> QED
  BY <1>3, <1>4, <1>5, <1>6, <1>7, <1>8, <1>9, <1>10, InstructionAssumption

LEMMA ProtectInit == Init => ProtectInv
BY DEF Init, FlashInit, ProtectInv

LEMMA ProtectNext == ProtectInv /\ [Next]_vars => ProtectInv'
<1> SUFFICES ASSUME ProtectInv, [Next]_vars PROVE ProtectInv'
  OBVIOUS
<1>1. ASSUME NEW instr \in Instruction, NEW a \in Target, NEW v \in Value, Call(instr, a, v)
      PROVE  ProtectInv'
  <2> DEFINE s == w25q64_control(instr, a, RecordLength, v)
  <2>1. todo' = s /\ todo = <<>> /\ busy' = busy /\ wel' = wel
    BY <1>1 DEF Call, chip
  <2>2. ~(busy = Idle /\ wel)
    BY <2>1 DEF ProtectInv, EndsDisabled
  <2>3. ~(busy' = Idle /\ wel')
    BY <2>1, <2>2
  <2> HIDE DEF s
  <2>4. /\ s \in Seq(Transaction) /\ s # <<>>
        /\ \A k \in 1..Len(s) : s[k].op = "WRITE_ENABLE" => s[Len(s)].op = "WRITE_DISABLE"
    BY ControlType DEF s
  <2> QED BY <2>1, <2>3, <2>4 DEF ProtectInv, EndsDisabled
<1>2. CASE Transfer
  <2>1. /\ todo \in Seq(Transaction) /\ todo # <<>>
        /\ todo' = Tail(todo) /\ Head(todo) = todo[1]
    BY <1>2 DEF Transfer, ProtectInv
  <2>2. /\ todo' \in Seq(Transaction) /\ Len(todo') = Len(todo) - 1
        /\ \A k \in 1..Len(todo') : todo'[k] = todo[k + 1]
    BY <2>1
  <2>3. EndsDisabled => (Len(todo) = 1 \/ EndsDisabled')
    <3>1. Len(todo) # 1 => Len(todo') \in 1..Len(todo') /\ todo' # <<>>
      BY <2>1, <2>2
    <3>2. Len(todo) # 1 => todo'[Len(todo')] = todo[Len(todo)]
      BY <2>1, <2>2, <3>1
    <3> QED BY <3>1, <3>2 DEF EndsDisabled
  <2>4. \A k \in 1..Len(todo') : todo'[k].op = "WRITE_ENABLE" => EndsDisabled'
    BY <2>1, <2>2, <2>3 DEF ProtectInv
  <2>5. ASSUME busy' = Idle, wel' PROVE EndsDisabled'
    <3>1. \/ todo[1].op = "WRITE_ENABLE"
          \/ busy = Idle /\ wel /\ todo[1].op # "WRITE_DISABLE"
      BY <1>2, <2>1, <2>5, LatchSet
    <3>2. EndsDisabled
      BY <2>1, <3>1 DEF ProtectInv
    <3> QED BY <2>3, <3>1, <3>2 DEF EndsDisabled
  <2> QED BY <2>2, <2>4, <2>5 DEF ProtectInv
<1>3. CASE PollAgain \/ UNCHANGED vars
  BY <1>3 DEF PollAgain, vars, fvars, chip, ProtectInv, EndsDisabled
<1>4. CASE ChipDone
  BY <1>4 DEF ChipDone, ProtectInv, EndsDisabled
<1> QED BY <1>1, <1>2, <1>3, <1>4 DEF Next, Send, Done

(* No call leaves the chip writable once it is idle: not even one whose    *)
(* WRITE_DISABLE a busy chip ignores, nor one that is itself ignored.      *)
THEOREM ProtectCorrect == Spec => []WriteProtected
<1>1. ProtectInv => WriteProtected
  BY DEF ProtectInv, EndsDisabled, WriteProtected
<1> QED BY ProtectInit, ProtectNext, <1>1, PTL DEF Spec

-----------------------------------------------------------------------------
(***************************************************************************)
(* What a call has done when it returns, for a chip of any speed.  The     *)
(* invariant follows the transactions the call has still to send.  A call  *)
(* whose WRITE_ENABLE was refused is dropped: it met the chip at work, and *)
(* an idle chip is not writable until it returns.                          *)
(***************************************************************************)
Fresh   == Settled = before /\ (busy # Idle => found)
Dropped == Met /\ Settled = before /\ (busy = Idle => ~wel)

Writing ==
    \/ todo = w25q64_write(call.a, RecordLength, call.v) /\ Fresh
    \/ /\ todo = <<TxProgram(call.a, RecordLength, call.v), Tx("WRITE_DISABLE")>>
       /\ (busy = Idle /\ wel /\ mem = before) \/ Dropped
    \/ /\ todo = <<Tx("WRITE_DISABLE")>> \/ todo = <<>>
       /\ \/ Settled = Programmed(before, call.a, RecordLength, call.v)
          \/ Met /\ Settled = before

Reading ==
    \/ todo = w25q64_read(call.a, RecordLength) /\ Fresh
    \/ /\ todo = <<>>
       /\ buf = Read(before, call.a, RecordLength) \/ (Met /\ buf = NoData)

NotErasing ==
    \/ todo = <<Tx("CHIP_ERASE"), Tx("POLL"), Tx("WRITE_DISABLE")>> /\ Dropped
    \/ todo = <<Tx("POLL"), Tx("WRITE_DISABLE")>> /\ Dropped
    \/ todo = <<Tx("WRITE_DISABLE")>> /\ Dropped /\ busy = Idle
    \/ todo = <<>> /\ Dropped /\ busy = Idle

CallInv ==
    /\ call.instr = "PAGE_PROGRAM" => Writing
    /\ call.instr = "READ_DATA" => Reading
    /\ call.instr = "CHIP_ERASE" => (Erasing /\ (todo = w25q64_erase => Fresh)) \/ NotErasing

(* A call that meets the chip at work finds its WRITE_ENABLE refused.      *)
LEMMA EnableSend ==
    ASSUME Transfer, Head(todo) = Tx("WRITE_ENABLE"), Fresh, UNCHANGED history
    PROVE  \/ busy = Idle /\ busy' = Idle /\ wel' /\ mem' = before'
           \/ busy # Idle /\ Dropped'
<1>1. CASE busy = Idle
  <2>1. busy' = busy /\ mem' = mem /\ wel' = ("WRITE_ENABLE" = "WRITE_ENABLE")
    BY <1>1, SendEnable DEF Refused
  <2>2. mem = before
    BY <1>1, SettledIdle DEF Fresh
  <2> QED BY <1>1, <2>1, <2>2, Zenon DEF history
<1>2. CASE busy # Idle
  <2>1. UNCHANGED chip
    BY <1>2, SendEnable DEF Refused
  <2>2. Slow
    BY <1>2 DEF Transfer, Timely, Status, Tx
  <2>3. Settled' = Settled
    BY <2>1 DEF chip, Settled
  <2> QED BY <1>2, <2>1, <2>2, <2>3 DEF chip, Fresh, Dropped, Met, history
<1> QED BY <1>1, <1>2

(* What is sent of a dropped call starts nothing.                          *)
LEMMA DroppedSend ==
    ASSUME Transfer, Dropped, UNCHANGED history,
           \/ Head(todo).op \in {"PAGE_PROGRAM", "CHIP_ERASE"}
           \/ Head(todo) = Tx("WRITE_DISABLE")
           \/ Head(todo) = Tx("POLL")
    PROVE  /\ Dropped' /\ busy' = busy
           /\ Head(todo) = Tx("POLL") => busy = Idle
<1> DEFINE tx == Head(todo)
<1>1. /\ mem' = mem /\ busy' = busy
      /\ busy = Idle => ~wel'
      /\ tx = Tx("POLL") => busy = Idle
  <2>1. CASE tx.op \in {"PAGE_PROGRAM", "CHIP_ERASE"}
    <3>1. tx # Tx("POLL")
      BY <2>1 DEF Tx
    <3>2. CASE busy = Idle /\ UNCHANGED <<mem, wel, buf>> /\ busy' = IF wel THEN tx ELSE Idle
      BY <3>1, <3>2 DEF Dropped
    <3>3. CASE Refused
      BY <3>1, <3>3 DEF Refused, chip
    <3> QED BY <2>1, <3>2, <3>3, SendStart
  <2>2. CASE tx = Tx("WRITE_DISABLE")
    <3>1. tx # Tx("POLL") /\ "WRITE_DISABLE" # "WRITE_ENABLE"
      BY <2>2 DEF Tx
    <3>2. CASE busy = Idle /\ UNCHANGED <<mem, busy, buf>> /\ wel' = ("WRITE_DISABLE" = "WRITE_ENABLE")
      <4>1. ~wel'
        BY <3>1, <3>2, Zenon
      <4> QED BY <3>1, <3>2, <4>1
    <3>3. CASE Refused
      BY <3>1, <3>3 DEF Refused, chip
    <3> QED BY <2>2, <3>2, <3>3, SendEnable
  <2>3. CASE tx = Tx("POLL")
    <3>1. UNCHANGED <<chip, buf>> /\ busy = Idle
      BY <2>3, SendStatus
    <3> QED BY <3>1 DEF chip, Dropped
  <2> QED BY <2>1, <2>2, <2>3
<1>2. Settled' = Settled
  BY <1>1 DEF Settled
<1>3. Met' = Met /\ before' = before
  BY DEF Met, history
<1> QED BY <1>1, <1>2, <1>3 DEF Dropped

LEMMA DroppedDone ==
    ASSUME ChipDone, Dropped, UNCHANGED history
    PROVE  Dropped'
<1>1. Settled' = Settled /\ ~wel'
  BY SettledDone DEF ChipDone
<1> QED BY <1>1 DEF Dropped, Met, history

LEMMA WritingSend ==
    ASSUME Writing, Transfer, UNCHANGED history
    PROVE  Writing'
<1> DEFINE a == call.a
           v == call.v
           tx == TxProgram(a, RecordLength, v)
<1>0. call' = call /\ before' = before /\ Met' = Met
  BY DEF history, Met
<1>1. CASE todo = w25q64_write(a, RecordLength, v) /\ Fresh
  <2>1. /\ Head(todo) = Tx("WRITE_ENABLE")
        /\ todo' = <<tx, Tx("WRITE_DISABLE")>>
    BY <1>1 DEF Transfer, w25q64_write
  <2>2. (busy' = Idle /\ wel' /\ mem' = before') \/ Dropped'
    BY <1>1, <2>1, EnableSend
  <2> QED BY <1>0, <2>1, <2>2 DEF Writing
<1>2. CASE todo = <<tx, Tx("WRITE_DISABLE")>> /\ busy = Idle /\ wel /\ mem = before
  <2>1. /\ Head(todo) = tx /\ todo' = <<Tx("WRITE_DISABLE")>>
        /\ tx.op = "PAGE_PROGRAM" /\ tx.a = a /\ tx.n = RecordLength /\ tx.v = v
    BY <1>2 DEF Transfer, TxProgram
  <2> HIDE DEF tx
  <2>2. busy' = tx /\ mem' = mem
    BY <1>2, <2>1, SendStart DEF Refused
  <2>3. Settled' = Programmed(before, a, RecordLength, v)
    BY <1>2, <2>1, <2>2 DEF Settled
  <2> QED BY <1>0, <2>1, <2>3 DEF Writing
<1>3. CASE todo = <<tx, Tx("WRITE_DISABLE")>> /\ Dropped
  <2>1. Head(todo).op = "PAGE_PROGRAM" /\ todo' = <<Tx("WRITE_DISABLE")>>
    BY <1>3 DEF Transfer, TxProgram
  <2>2. Dropped'
    BY <1>3, <2>1, DroppedSend
  <2> QED BY <2>1, <2>2 DEF Writing, Dropped
<1>4. CASE /\ todo = <<Tx("WRITE_DISABLE")>>
           /\ \/ Settled = Programmed(before, a, RecordLength, v)
              \/ Met /\ Settled = before
  <2>1. Head(todo) = Tx("WRITE_DISABLE") /\ todo' = <<>>
    BY <1>4 DEF Transfer
  <2>2. busy' = busy /\ mem' = mem
    BY <2>1, SendEnable DEF Refused, chip
  <2>3. Settled' = Settled
    BY <2>2 DEF Settled
  <2>4. Programmed(before, a, RecordLength, v)' = Programmed(before, a, RecordLength, v)
    BY <1>0 DEF Programmed, Page, At
  <2> QED BY <1>0, <1>4, <2>1, <2>3, <2>4 DEF Writing
<1> QED BY <1>1, <1>2, <1>3, <1>4 DEF Writing, Transfer

LEMMA ReadingSend ==
    ASSUME Reading, Transfer, UNCHANGED history
    PROVE  Reading'
<1> DEFINE tx == TxRead(call.a, RecordLength)
<1>0. call' = call /\ before' = before /\ Met' = Met
  BY DEF history, Met
<1>1. todo = <<tx>> /\ Fresh
  BY DEF Reading, Transfer, w25q64_read
<1>2. /\ Head(todo) = tx /\ todo' = <<>>
      /\ tx.op = "READ_DATA" /\ tx.a = call.a /\ tx.n = RecordLength
  BY <1>1 DEF Transfer, TxRead
<1> HIDE DEF tx
<1>3. CASE busy = Idle
  <2>1. mem = before
    BY <1>1, <1>3, SettledIdle DEF Fresh
  <2>2. buf' = Read(mem, call.a, RecordLength)
    BY <1>2, <1>3, SendRead
  <2> QED BY <1>0, <1>2, <2>1, <2>2 DEF Reading
<1>4. CASE busy # Idle
  <2>1. Met
    BY <1>1, <1>2, <1>4 DEF Fresh, Met, Transfer, Timely, Status
  <2>2. buf' = NoData
    BY <1>2, <1>4, SendRead
  <2> QED BY <1>0, <1>2, <2>1, <2>2 DEF Reading
<1> QED BY <1>3, <1>4

LEMMA NotErasingSend ==
    ASSUME NotErasing, Transfer, UNCHANGED history
    PROVE  NotErasing'
<1>1. CASE todo = <<Tx("CHIP_ERASE"), Tx("POLL"), Tx("WRITE_DISABLE")>> /\ Dropped
  <2>1. Head(todo).op = "CHIP_ERASE" /\ todo' = <<Tx("POLL"), Tx("WRITE_DISABLE")>>
    BY <1>1 DEF Transfer, Tx
  <2> QED BY <1>1, <2>1, DroppedSend DEF NotErasing
<1>2. CASE todo = <<Tx("POLL"), Tx("WRITE_DISABLE")>> /\ Dropped
  <2>1. Head(todo) = Tx("POLL") /\ todo' = <<Tx("WRITE_DISABLE")>>
    BY <1>2 DEF Transfer
  <2> QED BY <1>2, <2>1, DroppedSend DEF NotErasing
<1>3. CASE todo = <<Tx("WRITE_DISABLE")>> /\ Dropped /\ busy = Idle
  <2>1. Head(todo) = Tx("WRITE_DISABLE") /\ todo' = <<>>
    BY <1>3 DEF Transfer
  <2> QED BY <1>3, <2>1, DroppedSend DEF NotErasing
<1> QED BY <1>1, <1>2, <1>3 DEF NotErasing, Transfer

LEMMA EraseCallSend ==
    ASSUME Erasing, todo = w25q64_erase => Fresh, Transfer, UNCHANGED history
    PROVE  (Erasing' /\ todo' # w25q64_erase) \/ NotErasing'
<1>1. todo' # w25q64_erase
  <2>1. Len(w25q64_erase) = 4 /\ todo' = Tail(todo) /\ todo # <<>>
    BY DEF w25q64_erase, Transfer
  <2>2. CASE todo = w25q64_erase
    <3>1. Tail(todo) = <<Tx("CHIP_ERASE"), Tx("POLL"), Tx("WRITE_DISABLE")>>
      BY <2>2 DEF w25q64_erase
    <3> QED BY <2>1, <3>1
  <2>3. CASE todo = <<Tx("CHIP_ERASE"), Tx("POLL"), Tx("WRITE_DISABLE")>>
    <3>1. Tail(todo) = <<Tx("POLL"), Tx("WRITE_DISABLE")>>
      BY <2>3
    <3> QED BY <2>1, <3>1
  <2>4. CASE todo = <<Tx("POLL"), Tx("WRITE_DISABLE")>>
    <3>1. Tail(todo) = <<Tx("WRITE_DISABLE")>>
      BY <2>4
    <3> QED BY <2>1, <3>1
  <2>5. CASE todo = <<Tx("WRITE_DISABLE")>>
    <3>1. Tail(todo) = <<>>
      BY <2>5
    <3> QED BY <2>1, <3>1
  <2> QED BY <2>1, <2>2, <2>3, <2>4, <2>5 DEF Erasing
<1>2. CASE todo = w25q64_erase /\ busy # Idle
  <2>1. /\ Head(todo) = Tx("WRITE_ENABLE")
        /\ todo' = <<Tx("CHIP_ERASE"), Tx("POLL"), Tx("WRITE_DISABLE")>>
    BY <1>2 DEF Transfer, w25q64_erase
  <2>2. Dropped'
    BY <1>2, <2>1, EnableSend
  <2> QED BY <2>1, <2>2 DEF NotErasing
<1>3. CASE ~(todo = w25q64_erase /\ busy # Idle)
  BY <1>1, <1>3, ErasingSend
<1> QED BY <1>2, <1>3

LEMMA CallNext == CallInv /\ [Next]_vars => CallInv'
<1> SUFFICES ASSUME CallInv, [Next]_vars PROVE CallInv'
  OBVIOUS
<1>1. ASSUME NEW instr \in Instruction, NEW a \in Target, NEW v \in Value, Call(instr, a, v)
      PROVE  CallInv'
  <2>1. /\ call'.instr = instr /\ call'.a = a /\ call'.v = v
        /\ todo' = w25q64_control(instr, a, RecordLength, v)
    BY <1>1 DEF Call
  <2>2. Fresh'
    <3>1. Settled' = Settled /\ before' = Settled /\ busy' = busy
      BY <1>1 DEF Call, chip, Settled
    <3>2. busy # Idle => found'
      BY <1>1, Zenon DEF Call
    <3> QED BY <3>1, <3>2 DEF Fresh
  <2>3. instr = "PAGE_PROGRAM" => todo' = w25q64_write(call'.a, RecordLength, call'.v)
    BY <2>1 DEF w25q64_control
  <2>4. instr = "READ_DATA" => todo' = w25q64_read(call'.a, RecordLength)
    BY <2>1 DEF w25q64_control
  <2>5. instr = "CHIP_ERASE" => todo' = w25q64_erase
    BY <2>1 DEF w25q64_control
  <2> QED BY <2>1, <2>2, <2>3, <2>4, <2>5 DEF CallInv, Writing, Reading, Erasing
<1>2. CASE Send /\ Transfer
  <2>1. UNCHANGED history /\ call' = call
    BY <1>2 DEF Send, history
  <2> QED BY <1>2, <2>1, WritingSend, ReadingSend, NotErasingSend, EraseCallSend DEF CallInv
<1>3. CASE Done
  <2>1. UNCHANGED history /\ UNCHANGED <<call, before, found, todo, buf>> /\ ChipDone /\ Met' = Met
    BY <1>3 DEF Done, ChipDone, history, Met
  <2>2. Settled' = Settled /\ busy # Idle /\ busy' = Idle
    BY <2>1, SettledDone DEF ChipDone
  <2>3. (Fresh => Fresh') /\ (Dropped => Dropped')
    BY <2>1, <2>2, DroppedDone DEF Fresh
  <2>4. call.instr = "PAGE_PROGRAM" => Writing'
    BY <2>1, <2>2, <2>3 DEF CallInv, Writing
  <2>5. call.instr = "READ_DATA" => Reading'
    BY <2>1, <2>2, <2>3 DEF CallInv, Reading
  <2>6. Erasing => Erasing'
    BY <2>1, ErasingDone
  <2>7. NotErasing => NotErasing'
    BY <2>1, <2>2, <2>3 DEF NotErasing
  <2> QED BY <2>1, <2>3, <2>4, <2>5, <2>6, <2>7 DEF CallInv
<1>4. CASE (PollAgain /\ UNCHANGED history) \/ UNCHANGED vars
  BY <1>4 DEF PollAgain, vars, history, fvars, chip, CallInv, Writing, Reading, Erasing, BlankChip,
              NotErasing, Fresh, Dropped, Met, Settled
<1> QED BY <1>1, <1>2, <1>3, <1>4 DEF Next, Send

LEMMA CallSafe == Spec => []CallInv
<1>1. Init => CallInv
  BY DEF Init, NoCall, CallInv
<1> QED BY <1>1, CallNext, PTL DEF Spec

(* w25q64_write has programmed its record at its address, and changed      *)
(* nothing else, when it returns and the chip has ended: WRITE_DISABLE is  *)
(* ignored or harmless while the program is under way.  A write that met   *)
(* the chip at work has done this or nothing at all.                       *)
THEOREM WriteCorrect == Spec => []WriteTakesEffect
<1>1. CallInv => WriteTakesEffect
  BY DEF CallInv, Writing, WriteTakesEffect, Returned, w25q64_write
<1> QED BY <1>1, CallSafe, PTL

(* w25q64_read returns what its address held when it was called, or no     *)
(* data if it met the chip at work.                                        *)
THEOREM ReadCorrect == Spec => []ReadReturns
<1>1. CallInv => ReadReturns
  BY DEF CallInv, Reading, ReadReturns, Returned, w25q64_read
<1> QED BY <1>1, CallSafe, PTL

(* w25q64_erase returns when the chip is idle, protected and blank: its    *)
(* loop on the BUSY bit cannot end before the erasure.  An erase that met  *)
(* the chip at work has erased all or nothing.                             *)
THEOREM ErasureCorrect == Spec => []EraseComplete
<1>1. busy = Idle => Settled = mem
  BY SettledIdle
<1>2. CallInv => EraseComplete
  BY <1>1 DEF CallInv, Erasing, NotErasing, Dropped, BlankChip, EraseComplete, Returned, w25q64_erase
<1> QED BY <1>2, CallSafe, PTL
=============================================================================
