---------------------------- MODULE FlashDriver -----------------------------
(***************************************************************************)
(* The driver under a caller that issues any instruction of w25q64_control *)
(* one after the other: what a call has done when it returns.              *)
(***************************************************************************)
EXTENDS W25q64

CONSTANTS Target,       \* the addresses the caller uses
          Instruction,  \* the instructions it issues
          RecordLength  \* the length of its records

ASSUME TargetAssumption == Target \subseteq Address /\ RecordLength \in Length
ASSUME InstructionAssumption ==
    Instruction \subseteq {"PAGE_PROGRAM", "READ_DATA", "CHIP_ERASE", "SECTOR_ERASE",
                           "READ_SR1", "WRITE_SR", "JEDEC_ID", "RESET"}

VARIABLES call,         \* the last call: its instruction, address and record
          before,       \* history: the memory as that call found it, with what
                        \* the chip was still working on
          found         \* history: did that call find the chip working?
history == <<call, before, found>>
vars == <<fvars, history>>

NoCall == [instr |-> "NONE"]

TypeOK == /\ FlashTypeOK
          /\ call \in {NoCall} \cup [instr : Instruction, a : Target, v : Value]
          /\ found \in BOOLEAN

Init == FlashInit /\ call = NoCall /\ before = Blank /\ found = FALSE

Call(instr, a, v) ==
    /\ todo = <<>>
    /\ call' = [instr |-> instr, a |-> a, v |-> v]
    /\ todo' = w25q64_control(instr, a, RecordLength, v)
    /\ before' = Settled
    /\ found' = (busy # Idle)
    /\ buf' = NoData
    /\ UNCHANGED chip

Send == (Transfer \/ PollAgain) /\ UNCHANGED history
Done == ChipDone /\ UNCHANGED history

Next == \/ \E instr \in Instruction, a \in Target, v \in Value : Call(instr, a, v)
        \/ Send
        \/ Done

Spec == Init /\ [][Next]_vars

(* The caller's thread goes on sending, and the chip ends what it began. *)
FairSpec == Spec /\ WF_vars(Send) /\ WF_vars(Done)

-----------------------------------------------------------------------------
Returned(instr) == todo = <<>> /\ call.instr = instr

(* No function but w25q64_erase looks at the BUSY bit, and w25q64_erase    *)
(* only after its own command: a call may meet a chip that is still at     *)
(* work, and has no answer from it.                                        *)
Met == Slow /\ found

(* w25q64_erase returns only when the chip is idle and write-protected,    *)
(* and blank, whatever was programmed before.  If it met the chip at work  *)
(* the erasure may be dropped, and then all the memory is as it was.       *)
EraseComplete ==
    Returned("CHIP_ERASE") => /\ busy = Idle /\ ~wel
                              /\ mem = Blank \/ (Met /\ mem = before)

(* w25q64_write programs its record at its address, in one page, and       *)
(* changes nothing else: the WRITE_DISABLE that follows does not cancel    *)
(* the program under way.  If it met the chip at work the record may be    *)
(* dropped, but then as a whole: its page program never gets through       *)
(* without its WRITE_ENABLE, on the latch an earlier call has left.        *)
WriteTakesEffect ==
    Returned("PAGE_PROGRAM") =>
        \/ Settled = Programmed(before, call.a, RecordLength, call.v)
        \/ Met /\ Settled = before

(* w25q64_read returns the bytes programmed at its address since the last  *)
(* erase, those of the call before it included.  If it met the chip at     *)
(* work it may return no data, but never the memory of before that call.   *)
ReadReturns ==
    Returned("READ_DATA") =>
        \/ buf = Read(before, call.a, RecordLength)
        \/ Met /\ buf = NoData

(* No call leaves the chip writable once it is idle. *)
WriteProtected == todo = <<>> /\ busy = Idle => ~wel

(* Every call returns: the polling loop of w25q64_erase ends. *)
CallReturns == (todo # <<>>) ~> (todo = <<>>)
=============================================================================
