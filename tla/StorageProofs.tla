--------------------------- MODULE StorageProofs ----------------------------
(***************************************************************************)
(* Proofs about the storage tasks, for every layout that satisfies the     *)
(* assumptions of Storage: the cursors stay in their range, they are       *)
(* rewound only when the chip is blank, and what a task reads back is what *)
(* the last one stored.                                                    *)
(***************************************************************************)
EXTENDS Storage, W25q64Proofs

(* The variables the cursors depend on. *)
CursorType ==
    /\ cursor \in [Stream -> Nat]
    /\ turn \in [Stream -> {0, 1}]
    /\ who \in Stream

CInv == CursorType /\ CursorInv

(* What the assumptions say of one stream. *)
LEMMA StreamFacts ==
    ASSUME NEW s \in Stream
    PROVE  /\ First[s] \in Nat /\ Size[s] \in Nat /\ Limit[s] \in Nat /\ End[s] \in Nat
           /\ Size[s] > 0
           /\ First[s] < Limit[s]
           /\ Limit[s] + Size[s] <= End[s]
BY StreamAssumption, RadixAssumption DEF Length

(* The static initialisers put both cursors at the start of their range. *)
LEMMA CursorInit == Init => CInv
<1> SUFFICES ASSUME Init PROVE CInv
  OBVIOUS
<1>1. cursor = First /\ First \in [Stream -> Nat]
  BY FunctionAssumption DEF Init
<1>2. CursorType
  BY <1>1, StreamFacts, IndexAssumption DEF Init, CursorType
<1>3. CursorInv
  BY <1>1, StreamFacts DEF Init, CursorInv
<1> QED BY <1>2, <1>3 DEF CInv

(* Every step of the tasks keeps the cursors in their range: a write moves *)
(* one from below the limit, and there is a whole record from the limit to *)
(* the end.                                                                *)
LEMMA CursorNext == CInv /\ [Next]_vars => CInv'
<1> SUFFICES ASSUME CInv, [Next]_vars PROVE CInv'
  OBVIOUS
<1> USE DEF CInv
<1>1. ASSUME NEW s \in Stream, StartWrite(s) PROVE CInv'
  <2>1. CursorType'
    BY <1>1 DEF StartWrite, CursorType
  <2>2. CursorInv'
    BY <1>1, StreamFacts DEF StartWrite, Full, CursorType, CursorInv
  <2> QED BY <2>1, <2>2
<1>2. ASSUME NEW s \in Stream, StartRead(s) PROVE CInv'
  BY <1>2 DEF StartRead, CursorType, CursorInv
<1>3. CASE Rewind
  <2>1. CursorType'
    BY <1>3, StreamFacts DEF Rewind, CursorType
  <2>2. CursorInv'
    BY <1>3, StreamFacts DEF Rewind, CursorType, CursorInv
  <2> QED BY <2>1, <2>2
<1>4. ASSUME NEW v \in Value, Encode(v) PROVE CInv'
  BY <1>4 DEF Encode, CursorType, CursorInv
<1>5. CASE Advance
  <2>1. CursorType'
    BY <1>5, StreamFacts DEF Advance, CursorType
  <2>2. /\ First[who] + Size[who] <= cursor'[who]
        /\ cursor'[who] <= End[who]
    BY <1>5, StreamFacts DEF Advance, CursorType, CursorInv
  <2>3. \A s \in Stream : s # who => cursor'[s] = cursor[s] /\ turn'[s] = turn[s]
    BY <1>5 DEF Advance, CursorType
  <2>4. CursorInv'
    BY <1>5, <2>2, <2>3, StreamFacts DEF Advance, CursorType, CursorInv
  <2> QED BY <2>1, <2>4
<1>6. CASE EndRead
  BY <1>6 DEF EndRead, CursorType, CursorInv
<1>7. CASE Send \/ Done \/ UNCHANGED vars
  BY <1>7 DEF Send, Done, vars, svars, CursorType, CursorInv
<1> QED BY <1>1, <1>2, <1>3, <1>4, <1>5, <1>6, <1>7 DEF Next

(* The cursors of the two streams stay in their ranges, and below the      *)
(* limit whenever a record is programmed, across every wrap-around of      *)
(* write_raw_mem_async and write_bench_mem_async.                          *)
THEOREM CursorCorrect == Spec => []CursorInv
<1>1. CInv => CursorInv
  BY DEF CInv
<1> QED BY CursorInit, CursorNext, <1>1, PTL DEF Spec

(* Every record is programmed and read back at addresses of its stream:    *)
(* no write past the last record, no read below the first address.         *)
THEOREM RecordsCorrect == Spec => []RecordsInPart
<1>1. CInv => RecordsInPart
  BY StreamFacts DEF CInv, CursorType, CursorInv, RecordsInPart
<1> QED BY CursorInit, CursorNext, <1>1, PTL DEF Spec

-----------------------------------------------------------------------------
(* The driver has sent all between the tasks, and how far an erasure is. *)
DriverInv ==
    /\ pc \in {"idle", "encode"} => todo = <<>>
    /\ pc = "erase" => Erasing

LEMMA DriverInit == Init => DriverInv
BY DEF Init, FlashInit, DriverInv

LEMMA DriverNext == ~Slow /\ DriverInv /\ [Next]_vars => DriverInv'
<1> SUFFICES ASSUME ~Slow, DriverInv, [Next]_vars PROVE DriverInv'
  OBVIOUS
<1>1. ASSUME NEW s \in Stream, StartWrite(s) PROVE DriverInv'
  <2>1. w25q64_control("CHIP_ERASE", <<>>, 0, NoData) = w25q64_erase
    BY DEF w25q64_control
  <2> QED BY <1>1, <2>1 DEF StartWrite, DriverInv, Erasing
<1>2. ASSUME NEW s \in Stream, StartRead(s) PROVE DriverInv'
  BY <1>2 DEF StartRead, DriverInv
<1>3. CASE Rewind \/ Advance \/ EndRead
  BY <1>3 DEF Rewind, Advance, EndRead, DriverInv, fvars
<1>4. ASSUME NEW v \in Value, Encode(v) PROVE DriverInv'
  BY <1>4 DEF Encode, DriverInv
<1>5. CASE Send
  <2>1. pc' = pc /\ (Transfer \/ PollAgain)
    BY <1>5 DEF Send, svars
  <2>2. todo # <<>>
    BY <2>1 DEF Transfer, PollAgain
  <2>3. pc \notin {"idle", "encode"}
    BY <2>2 DEF DriverInv
  <2> QED BY <2>1, <2>3, ErasingSend DEF DriverInv
<1>6. CASE Done
  <2>1. pc' = pc /\ todo' = todo /\ ChipDone
    BY <1>6 DEF Done, ChipDone
  <2> QED BY <2>1, ErasingDone DEF DriverInv
<1>7. CASE UNCHANGED vars
  BY <1>7 DEF vars, fvars, svars, chip, DriverInv, Erasing, BlankChip
<1> QED BY <1>1, <1>2, <1>3, <1>4, <1>5, <1>6, <1>7 DEF Next

(* If a program has ended by the next command, a cursor is rewound only    *)
(* when the chip is blank: w25q64_erase returns after the erasure.         *)
THEOREM EraseCorrect == ~Slow => (Spec => []RewindErased)
<1> SUFFICES ASSUME ~Slow PROVE Spec => []RewindErased
  OBVIOUS
<1>1. DriverInv => RewindErased
  BY DEF DriverInv, Erasing, BlankChip, RewindErased, w25q64_erase
<1>2. DriverInv /\ [Next]_vars => DriverInv'
  BY DriverNext
<1> QED BY DriverInit, <1>1, <1>2, PTL DEF Spec

-----------------------------------------------------------------------------
(***************************************************************************)
(* The records.  The invariant speaks of the memory once the chip has      *)
(* ended what it works on, and so of an erasure as soon as it began.       *)
(***************************************************************************)
Gone == IF busy.op = "CHIP_ERASE" THEN Stream ELSE wiped

(* Record v is at place a of stream s. *)
Holds(s, a, v) == \A x \in Bytes(s, a) :
    x \in DOMAIN Settled /\ Settled[x] = <<v, (x - AddressBytes(a)[3]) % Radix>>

(* A cursor is always at a place, or behind the last. *)
GridInv == \A s \in Stream : \E k \in 0..cursor[s] : cursor[s] = First[s] + k * Size[s]

MixInv == /\ \A x \in DOMAIN mem : mem[x] = NoData => Met(x)
          /\ \A x \in DOMAIN Settled : Settled[x] = NoData => Met(x)

(* What is programmed is so at places below the cursors. *)
Below == \A x \in DOMAIN Settled :
             \E s \in Stream : \E a \in Places(s) : a < cursor[s] /\ x \in Bytes(s, a)

LastInv == \A s \in Stream : turn[s] = 1 /\ Alone(s, LastPlace(s)) =>
    IF s \in Gone THEN Bytes(s, LastPlace(s)) \cap DOMAIN Settled = {}
    ELSE last[s] \in Value /\ Holds(s, LastPlace(s), last[s])

(* How far the program of a record is, for each transaction to be sent. *)
Programming ==
    LET tx == TxProgram(AddressBytes(cursor[who]), Size[who], rec)
    IN  \/ todo = <<Tx("WRITE_ENABLE"), tx, Tx("WRITE_DISABLE")>> /\ Below
        \/ todo = <<tx, Tx("WRITE_DISABLE")>> /\ busy = Idle /\ wel /\ Below
        \/ /\ todo = <<Tx("WRITE_DISABLE")>> \/ todo = <<>>
           /\ busy.op # "CHIP_ERASE"
           /\ \A x \in DOMAIN Settled : \E s \in Stream : \E a \in Recorded(s) : x \in Bytes(s, a)
           /\ Alone(who, cursor[who]) => Holds(who, cursor[who], rec)

Reading ==
    \/ todo = <<TxRead(AddressBytes(LastPlace(who)), Size[who])>>
    \/ /\ todo = <<>> /\ busy = Idle
       /\ Alone(who, LastPlace(who)) /\ Straight(who, LastPlace(who)) =>
              buf = IF who \in wiped THEN Erased ELSE last[who]

StageInv ==
    /\ pc = "program" => rec \in Value /\ Programming
    /\ pc # "program" => Below
    /\ pc = "read" => Reading
    /\ pc = "erase" => \/ todo = w25q64_erase \/ todo = Tail(w25q64_erase)
                       \/ Gone = Stream /\ Settled = Blank

RecordType == /\ pc \in {"idle", "erase", "encode", "program", "read"}
              /\ last \in [Stream -> Value \cup {Erased}]

RecordInv == CInv /\ DriverInv /\ RecordType /\ GridInv /\ MixInv /\ LastInv /\ StageInv

LEMMA RecordTypeNext == RecordInv /\ [Next]_vars => RecordType'
<1> SUFFICES ASSUME RecordInv, [Next]_vars PROVE RecordType'
  OBVIOUS
<1>1. CASE Advance
  BY <1>1 DEF Advance, RecordInv, RecordType, StageInv
<1>2. CASE Rewind \/ EndRead \/ Send \/ Done \/ UNCHANGED vars
  BY <1>2 DEF Rewind, EndRead, Send, Done, vars, svars, RecordInv, RecordType
<1>3. ASSUME NEW s \in Stream, StartWrite(s) \/ StartRead(s) PROVE RecordType'
  BY <1>3 DEF StartWrite, StartRead, RecordInv, RecordType
<1>4. ASSUME NEW v \in Value, Encode(v) PROVE RecordType'
  BY <1>4 DEF Encode, RecordInv, RecordType
<1> QED BY <1>1, <1>2, <1>3, <1>4 DEF Next

LEMMA RecordInit == Init => RecordType /\ GridInv /\ MixInv /\ LastInv /\ StageInv
<1> SUFFICES ASSUME Init PROVE RecordType /\ GridInv /\ MixInv /\ LastInv /\ StageInv
  OBVIOUS
<1>1. mem = Blank /\ Settled = Blank /\ DOMAIN Blank = {}
  BY SettledIdle DEF Init, FlashInit, Blank
<1>2. GridInv
  <2> SUFFICES ASSUME NEW s \in Stream
               PROVE  \E k \in 0..cursor[s] : cursor[s] = First[s] + k * Size[s]
    BY DEF GridInv
  <2>1. 0 \in 0..cursor[s] /\ cursor[s] = First[s] + 0 * Size[s]
    BY StreamFacts DEF Init
  <2> QED BY <2>1
<1>3. MixInv
  BY <1>1 DEF MixInv
<1>4. LastInv
  BY DEF Init, LastInv
<1>5. StageInv
  BY <1>1 DEF Init, StageInv, Below
<1>6. RecordType
  BY DEF Init, RecordType
<1> QED BY <1>2, <1>3, <1>4, <1>5, <1>6

(* A step that neither programs nor erases, and takes no record away,      *)
(* keeps what is known of the records.                                     *)
LEMMA Keep ==
    ASSUME MixInv, LastInv, UNCHANGED <<cursor, last>>,
           \A s \in Stream : turn'[s] = 1 => turn[s] = 1,
           Settled' = Settled, Gone' = Gone, mem' = mem \/ mem' = Settled,
           \A s \in Stream : Recorded(s) \subseteq Recorded(s)'
    PROVE  MixInv' /\ LastInv' /\ (Below => Below')
<1>1. \A x : Met(x) => Met(x)'
  BY DEF Met
<1>2. MixInv'
  BY <1>1 DEF MixInv
<1>3. \A s \in Stream : \A a : Alone(s, a)' => Alone(s, a)
  BY DEF Alone
<1>4. LastInv'
  <2> SUFFICES ASSUME NEW s \in Stream, turn'[s] = 1, Alone(s, LastPlace(s))'
               PROVE  IF s \in Gone' THEN Bytes(s, LastPlace(s)') \cap DOMAIN Settled' = {}
                      ELSE last'[s] \in Value /\ Holds(s, LastPlace(s), last[s])'
    BY DEF LastInv
  <2>1. LastPlace(s)' = LastPlace(s) /\ last' = last
    BY DEF LastPlace
  <2>2. turn[s] = 1 /\ Alone(s, LastPlace(s))
    BY <1>3, <2>1 DEF Alone
  <2>3. Holds(s, LastPlace(s), last[s])' <=> Holds(s, LastPlace(s), last[s])
    BY <2>1 DEF Holds
  <2> QED BY <2>1, <2>2, <2>3 DEF LastInv
<1>5. Below => Below'
  BY DEF Below
<1> QED BY <1>2, <1>4, <1>5

(* While a record is programmed the cursor is at one of the places. *)
LEMMA CursorPlace ==
    ASSUME CInv, GridInv, pc = "program"
    PROVE  who \in Stream /\ cursor[who] \in Recorded(who)
<1>1. who \in Stream /\ cursor[who] \in Nat /\ First[who] <= cursor[who] /\ cursor[who] < Limit[who]
  BY DEF CInv, CursorType, CursorInv
<1>2. cursor[who] \in Places(who)
  BY <1>1, StreamFacts DEF Places, GridInv
<1> QED BY <1>1, <1>2 DEF Recorded

(***************************************************************************)
(* Addresses.                                                              *)
(***************************************************************************)
LEMMA DivMod ==
    ASSUME NEW n \in Int, NEW r \in Nat \ {0}
    PROVE  /\ n \div r \in Int /\ n % r \in 0..(r - 1)
           /\ n = r * (n \div r) + (n % r)
OBVIOUS

LEMMA Monotone ==
    ASSUME NEW a \in Int, NEW b \in Int, NEW r \in Nat, a <= b
    PROVE  r * a <= r * b
<1>1. (b - a) * r >= 0
  OBVIOUS
<1> QED BY <1>1

LEMMA ModUnique ==
    ASSUME NEW r \in Nat \ {0}, NEW q \in Int, NEW d \in 0..(r - 1)
    PROVE  (r * q + d) % r = d
OBVIOUS

(* The pages of the chip: its capacity is a number of whole pages. *)
Pages == Radix * (Radix \div 2)

LEMMA CapacityPages ==
    /\ Radix \in Nat \ {0} /\ Pages \in Nat \ {0} /\ Radix * Pages \in Nat \ {0}
    /\ Capacity = Radix * Pages /\ Space \in Nat \ {0}
<1> DEFINE h == Radix \div 2
<1>1. Radix \in Nat \ {0} /\ h \in Nat \ {0} /\ Radix = 2 * h
  BY RadixAssumption
<1> HIDE DEF h
<1>2. ASSUME NEW a \in Nat \ {0}, NEW b \in Nat \ {0} PROVE a * b \in Nat \ {0}
  <2>1. b * 1 <= b * a
    BY <1>2, Monotone
  <2> QED BY <2>1
<1>3. Pages = Radix * h /\ Pages \in Nat \ {0}
  BY <1>1, <1>2 DEF Pages, h
<1>4. Radix * Pages \in Nat \ {0}
  BY <1>1, <1>2, <1>3
<1>5. Space = 2 * (Radix * Pages)
  BY <1>1, <1>3 DEF Space
<1> QED BY <1>1, <1>3, <1>4, <1>5 DEF Capacity

LEMMA AddressType ==
    ASSUME NEW a \in Nat
    PROVE  AddressBytes(a) \in Byte \X Byte \X Byte
<1>1. Radix \in Nat \ {0} /\ Radix * Radix \in Nat \ {0}
  BY CapacityPages
<1>2. a % Radix \in Byte
  BY <1>1, DivMod DEF Byte
<1>3. (a \div Radix) % Radix \in Byte /\ (a \div (Radix * Radix)) % Radix \in Byte
  <2>1. a \div Radix \in Int /\ a \div (Radix * Radix) \in Int
    BY <1>1, DivMod
  <2> QED BY <1>1, <2>1, DivMod DEF Byte
<1> QED BY <1>2, <1>3 DEF AddressBytes

(* A page begins at a multiple of its size. *)
LEMMA PageStart ==
    ASSUME NEW b \in Byte \X Byte \X Byte
    PROVE  \E p \in 0..(Pages - 1) : At(b) = Radix * p + b[3]
<1>1. b[1] \in Nat /\ b[2] \in Nat /\ b[3] \in 0..(Radix - 1) /\ Radix \in Nat \ {0}
  BY CapacityPages DEF Byte
<1> DEFINE q == b[1] * Radix + b[2]
           p == q % Pages
<1>2. q \in Int
  BY <1>1
<1> HIDE DEF q
<1>3. q \div Pages \in Int /\ p \in 0..(Pages - 1) /\ q = Pages * (q \div Pages) + p
  BY <1>2, CapacityPages, DivMod
<1> DEFINE d == Radix * p + b[3]
           e == q \div Pages
<1> HIDE DEF p, e
<1>4. d \in 0..((Radix * Pages) - 1)
  <2>1. Radix * (p + 1) <= Radix * Pages /\ Radix * 0 <= Radix * p
    BY <1>1, <1>3, CapacityPages, Monotone
  <2> QED BY <1>1, <1>3, <2>1, CapacityPages
<1>5. Radix * q + b[3] = (Radix * Pages) * e + d
  <2>1. q = Pages * e + p /\ e \in Int /\ Pages \in Int
    BY <1>3, CapacityPages DEF e
  <2>2. Radix * (Pages * e) = (Radix * Pages) * e /\ Radix * (Pages * e + p) = Radix * (Pages * e) + Radix * p
    BY <1>1, <1>3, <2>1
  <2> QED BY <1>1, <1>3, <2>1, <2>2
<1>6. At(b) = (Radix * q + b[3]) % Capacity
  BY <1>1, <1>2 DEF At, q
<1>7. At(b) = d
  <2> HIDE DEF d
  <2>1. e \in Int
    BY <1>3 DEF e
  <2>2. ((Radix * Pages) * e + d) % (Radix * Pages) = d
    BY <1>4, <2>1, CapacityPages, ModUnique
  <2> QED BY <1>5, <1>6, <2>2, CapacityPages
<1> QED BY <1>3, <1>7

(* The bytes of a record have a place in it. *)
LEMMA RecordByte ==
    ASSUME NEW s \in Stream, NEW a \in Nat, NEW v \in Value, NEW x \in Bytes(s, a)
    PROVE  <<v, (x - AddressBytes(a)[3]) % Radix>> \in Value \X Nat
<1> DEFINE b == AddressBytes(a)
<1>1. b[3] \in Nat /\ At(b) \in Int /\ Radix \in Nat \ {0}
  <2>1. b \in Byte \X Byte \X Byte
    BY AddressType
  <2> HIDE DEF b
  <2>2. PICK p \in 0..(Pages - 1) : At(b) = Radix * p + b[3]
    BY <2>1, PageStart
  <2>3. Radix * p \in Int
    BY CapacityPages
  <2> QED BY <2>1, <2>2, <2>3, CapacityPages DEF Byte
<1>2. PICK i \in 0..(Size[s] - 1) : x = (At(b) - b[3]) + ((b[3] + i) % Radix)
  BY DEF Bytes, Page
<1>3. x - b[3] \in Int
  <2> HIDE DEF b
  <2>1. b[3] + i \in Int
    BY <1>1, StreamFacts
  <2>2. (b[3] + i) % Radix \in Int
    BY <1>1, <2>1
  <2> QED BY <1>1, <1>2, <2>2
<1>4. (x - b[3]) % Radix \in Nat
  <2> DEFINE y == x - b[3]
  <2> HIDE DEF y
  <2>1. y \in Int
    BY <1>3 DEF y
  <2>2. y % Radix \in Nat
    BY <1>1, <2>1
  <2> QED BY <2>2 DEF y
<1> QED BY <1>4

(* The bytes a read of a record fetches are those that were programmed, if *)
(* the record does not run past the end of its page or of the chip.        *)
LEMMA ReadByte ==
    ASSUME NEW s \in Stream, NEW a \in Nat, Straight(s, a), NEW i \in 0..(Size[s] - 1)
    PROVE  LET x == (At(AddressBytes(a)) + i) % Capacity
           IN  x \in Bytes(s, a) /\ (x - AddressBytes(a)[3]) % Radix = i
<1> DEFINE b == AddressBytes(a)
<1>1. b \in Byte \X Byte \X Byte
  BY AddressType
<1>2. b[3] + Size[s] <= Radix /\ At(b) + Size[s] <= Capacity
  BY DEF Straight
<1>3. Bytes(s, a) = {(At(b) - b[3]) + ((b[3] + k) % Radix) : k \in 0..(Size[s] - 1)}
  BY DEF Bytes, Page
<1> HIDE DEF b
<1>4. PICK p \in 0..(Pages - 1) : At(b) = Radix * p + b[3]
  BY <1>1, PageStart
<1>5. b[3] \in Nat /\ Radix \in Nat \ {0} /\ Radix * p \in Nat /\ Capacity \in Nat \ {0}
  <2>1. Radix * 0 <= Radix * p
    BY CapacityPages, Monotone
  <2> QED BY <1>1, <2>1, CapacityPages DEF Byte
<1>6. (b[3] + i) % Radix = b[3] + i
  <2>1. b[3] + i \in 0..(Radix - 1)
    BY <1>2, <1>5, StreamFacts
  <2> QED BY <1>5, <2>1
<1>7. (At(b) + i) % Capacity = At(b) + i
  <2>1. At(b) + i \in 0..(Capacity - 1)
    BY <1>2, <1>4, <1>5, StreamFacts
  <2> QED BY <1>5, <2>1
<1>8. At(b) + i = (At(b) - b[3]) + ((b[3] + i) % Radix)
  <2>1. At(b) \in Int
    BY <1>4, <1>5
  <2>2. At(b) + i = (At(b) - b[3]) + (b[3] + i)
    BY <1>5, <2>1, StreamFacts
  <2> QED BY <1>6, <2>2, Zenon
<1>9. ((At(b) + i) - b[3]) % Radix = i
  <2>1. (At(b) + i) - b[3] = Radix * p + i
    BY <1>4, <1>5
  <2>2. (Radix * p + i) % Radix = i
    <3>1. i \in 0..(Radix - 1)
      BY <1>2, <1>5, StreamFacts
    <3> QED BY <3>1, <1>5, ModUnique
  <2> QED BY <2>1, <2>2
<1> QED BY <1>3, <1>7, <1>8, <1>9 DEF b

-----------------------------------------------------------------------------
(* The program of a record begins.  The bytes it takes that were written   *)
(* since the last erasure are those of another record; if it is alone      *)
(* there are none, and it will be whole.  A record that is alone is not    *)
(* touched.                                                                *)
LEMMA ProgramStart ==
    ASSUME CInv, GridInv, MixInv, LastInv, Below, pc = "program", rec \in Value, busy = Idle,
           busy' = TxProgram(AddressBytes(cursor[who]), Size[who], rec),
           UNCHANGED <<mem, svars>>
    PROVE  /\ MixInv' /\ LastInv'
           /\ (\A x \in DOMAIN Settled : \E s \in Stream : \E a \in Recorded(s) : x \in Bytes(s, a))'
           /\ (Alone(who, cursor[who]) => Holds(who, cursor[who], rec))'
<1> DEFINE P == Bytes(who, cursor[who])
           Byt(x) == <<rec, (x - AddressBytes(cursor[who])[3]) % Radix>>
<1>1. Settled = mem
  BY SettledIdle
<1>2. Settled' = Programmed(mem, AddressBytes(cursor[who]), Size[who], rec)
  BY DEF Settled, TxProgram, svars
<1>3. /\ DOMAIN Settled' = DOMAIN mem \cup P
      /\ \A x \in DOMAIN Settled' :
            Settled'[x] = IF x \notin P THEN mem[x]
                          ELSE IF x \notin DOMAIN mem \/ mem[x] = Byt(x) THEN Byt(x) ELSE NoData
  BY <1>2 DEF Programmed, Bytes
<1> HIDE DEF Byt
<1>4. who \in Stream /\ cursor[who] \in Recorded(who)
  BY CursorPlace
<1>5. \A s \in Stream : Recorded(s)' = Recorded(s)
  BY DEF svars, Recorded
<1>6. \A x \in P : x \in DOMAIN mem => Met(x)
  <2> SUFFICES ASSUME NEW x \in P, x \in DOMAIN mem PROVE Met(x)
    OBVIOUS
  <2>1. PICK s \in Stream : \E a \in Places(s) : a < cursor[s] /\ x \in Bytes(s, a)
    BY <1>1 DEF Below
  <2>2. PICK a \in Places(s) : a < cursor[s] /\ x \in Bytes(s, a)
    BY <2>1
  <2>3. a \in Recorded(s)
    BY <2>2 DEF Recorded
  <2>4. <<s, a>> # <<who, cursor[who]>>
    <3>1. a # cursor[s]
      BY <2>2, StreamFacts DEF Places, CInv, CursorType
    <3> QED BY <3>1
  <2> QED BY <1>4, <2>2, <2>3, <2>4 DEF Met
<1>7. \A x : Met(x) => Met(x)'
  BY <1>5 DEF Met
<1>8. MixInv'
  <2>1. \A x \in DOMAIN mem' : mem'[x] = NoData => Met(x)'
    BY <1>7 DEF MixInv
  <2>2. ASSUME NEW x \in DOMAIN Settled', Settled'[x] = NoData PROVE Met(x)'
    <3>1. CASE x \notin P
      BY <1>3, <1>7, <2>2, <3>1 DEF MixInv
    <3>2. CASE x \in P /\ x \in DOMAIN mem
      BY <1>6, <1>7, <3>2
    <3>3. CASE x \in P /\ x \notin DOMAIN mem
      <4>1. Byt(x) \in Value \X Nat
        <5>1. cursor[who] \in Nat
          BY <1>4 DEF CInv, CursorType
        <5> QED BY <1>4, <3>3, <5>1, RecordByte DEF Byt
      <4> QED BY <1>3, <2>2, <3>3, <4>1, NoDataAssumption
    <3> QED BY <3>1, <3>2, <3>3
  <2> QED BY <2>1, <2>2 DEF MixInv
<1>9. (Alone(who, cursor[who]) => Holds(who, cursor[who], rec))'
  <2> SUFFICES ASSUME Alone(who, cursor[who])', NEW x \in P
               PROVE  x \in DOMAIN Settled' /\ Settled'[x] = Byt(x)
    BY DEF Holds, svars, Byt
  <2>1. Alone(who, cursor[who])
    BY <1>5 DEF Alone, svars
  <2>2. x \notin DOMAIN mem
    <3> SUFFICES ASSUME x \in DOMAIN mem PROVE FALSE
      OBVIOUS
    <3>1. PICK s \in Stream : \E a \in Places(s) : a < cursor[s] /\ x \in Bytes(s, a)
      BY <1>1 DEF Below
    <3>2. PICK a \in Places(s) : a < cursor[s] /\ x \in Bytes(s, a)
      BY <3>1
    <3>3. a \in Recorded(s) /\ <<s, a>> # <<who, cursor[who]>>
      <4>1. a # cursor[s]
        BY <3>2, StreamFacts DEF Places, CInv, CursorType
      <4> QED BY <3>2, <4>1 DEF Recorded
    <3> QED BY <2>1, <3>2, <3>3 DEF Alone
  <2> QED BY <1>3, <2>2
<1>10. LastInv'
  <2> SUFFICES ASSUME NEW s \in Stream, turn'[s] = 1, Alone(s, LastPlace(s))'
               PROVE  IF s \in Gone' THEN Bytes(s, LastPlace(s)') \cap DOMAIN Settled' = {}
                      ELSE last'[s] \in Value /\ Holds(s, LastPlace(s), last[s])'
    BY DEF LastInv
  <2>1. LastPlace(s)' = LastPlace(s) /\ last' = last /\ turn[s] = 1
    BY DEF LastPlace, svars
  <2>2. Alone(s, LastPlace(s))
    BY <1>5, <2>1 DEF Alone
  <2>3. s # who
    BY <2>1 DEF CInv, CursorInv
  <2>4. Bytes(s, LastPlace(s)) \cap P = {}
    BY <1>4, <2>2, <2>3 DEF Alone
  <2>5. Gone' = Gone
    BY DEF Gone, Idle, Tx, TxProgram, svars
  <2>6. CASE s \in Gone
    BY <1>1, <1>3, <2>1, <2>2, <2>4, <2>5, <2>6 DEF LastInv
  <2>7. CASE s \notin Gone
    <3>1. last[s] \in Value /\ Holds(s, LastPlace(s), last[s])
      BY <2>1, <2>2, <2>7 DEF LastInv
    <3>2. Holds(s, LastPlace(s), last[s])'
      BY <1>1, <1>3, <2>1, <2>4, <3>1 DEF Holds
    <3> QED BY <2>1, <2>5, <2>7, <3>1, <3>2
  <2> QED BY <2>6, <2>7
<1>11. (\A x \in DOMAIN Settled : \E s \in Stream : \E a \in Recorded(s) : x \in Bytes(s, a))'
  <2> SUFFICES ASSUME NEW x \in DOMAIN Settled'
               PROVE  \E s \in Stream : \E a \in Recorded(s) : x \in Bytes(s, a)
    BY <1>5
  <2>1. CASE x \in P
    BY <1>4, <2>1
  <2>2. CASE x \in DOMAIN mem
    BY <1>1, <2>2 DEF Below, Recorded
  <2> QED BY <1>3, <2>1, <2>2
<1> QED BY <1>8, <1>9, <1>10, <1>11

(* The erasure of the chip begins: nothing is left of any record. *)
LEMMA EraseStart ==
    ASSUME MixInv, busy' = Tx("CHIP_ERASE"), UNCHANGED <<mem, svars>>
    PROVE  Settled' = Blank /\ Gone' = Stream /\ MixInv' /\ LastInv' /\ Below'
<1>1. Settled' = Blank /\ Gone' = Stream
  BY DEF Settled, Gone, Tx
<1>2. DOMAIN Blank = {}
  BY DEF Blank
<1>3. \A x : Met(x)' <=> Met(x)
  BY DEF Met, Recorded, svars
<1>4. MixInv'
  BY <1>1, <1>2, <1>3 DEF MixInv
<1>5. LastInv' /\ Below'
  BY <1>1, <1>2 DEF LastInv, Below
<1> QED BY <1>1, <1>4, <1>5

(* What a read of the last record of a stream gets from an idle chip. *)
LEMMA ReadLast ==
    ASSUME CInv, LastInv, busy = Idle, NEW s \in Stream, turn[s] = 1,
           Alone(s, LastPlace(s)), Straight(s, LastPlace(s))
    PROVE  Read(mem, AddressBytes(LastPlace(s)), Size[s])
             = IF s \in wiped THEN Erased ELSE last[s]
<1> DEFINE a == LastPlace(s)
           Src(i) == (At(AddressBytes(a)) + i) % Capacity
           Whole == {v \in Value : \A i \in 0..(Size[s] - 1) :
                                       Src(i) \in DOMAIN mem /\ mem[Src(i)] = <<v, i>>}
<1>1. a \in Nat /\ Size[s] \in Nat /\ Size[s] > 0
  BY StreamFacts DEF CInv, CursorType, CursorInv, LastPlace
<1>2. Settled = mem /\ Gone = wiped
  BY SettledIdle DEF Gone, Idle, Tx
<1>3. \A i \in 0..(Size[s] - 1) :
          Src(i) \in Bytes(s, a) /\ (Src(i) - AddressBytes(a)[3]) % Radix = i
  BY <1>1, ReadByte
<1>4. Read(mem, AddressBytes(a), Size[s])
        = IF \A i \in 0..(Size[s] - 1) : Src(i) \notin DOMAIN mem THEN Erased
          ELSE IF Whole # {} THEN CHOOSE v \in Whole : TRUE ELSE NoData
  BY DEF Read
<1>5. IF s \in wiped THEN Bytes(s, a) \cap DOMAIN mem = {}
      ELSE last[s] \in Value /\ Holds(s, a, last[s])
  BY <1>2 DEF LastInv
<1>6. CASE s \in wiped
  <2>1. \A i \in 0..(Size[s] - 1) : Src(i) \notin DOMAIN mem
    BY <1>3, <1>5, <1>6
  <2> QED BY <1>4, <1>6, <2>1
<1>7. CASE s \notin wiped
  <2>1. ASSUME NEW i \in 0..(Size[s] - 1)
        PROVE  Src(i) \in DOMAIN mem /\ mem[Src(i)] = <<last[s], i>>
    <3> HIDE DEF Src
    <3> QED BY <1>2, <1>3, <1>5, <1>7, <2>1 DEF Holds
  <2>2. 0 \in 0..(Size[s] - 1)
    BY <1>1
  <2> HIDE DEF Src
  <2>3. \A v \in Whole : v = last[s]
    <3> SUFFICES ASSUME NEW v \in Whole PROVE v = last[s]
      OBVIOUS
    <3>1. mem[Src(0)] = <<v, 0>> /\ mem[Src(0)] = <<last[s], 0>>
      BY <2>1, <2>2
    <3> QED BY <3>1
  <2>4. last[s] \in Whole
    BY <1>5, <1>7, <2>1
  <2>5. Whole = {last[s]}
    BY <2>3, <2>4
  <2>6. (CHOOSE v \in Whole : TRUE) = last[s] /\ Whole # {}
    BY <2>5
  <2>7. ~(\A i \in 0..(Size[s] - 1) : Src(i) \notin DOMAIN mem)
    BY <2>1, <2>2
  <2> QED BY <1>4, <1>7, <2>6, <2>7
<1> QED BY <1>6, <1>7

(* A transaction of the program of a record. *)
LEMMA ProgrammingSend ==
    ASSUME ~Slow, RecordInv, pc = "program", Send
    PROVE  MixInv' /\ LastInv' /\ StageInv'
<1> DEFINE tx == TxProgram(AddressBytes(cursor[who]), Size[who], rec)
<1>1. UNCHANGED svars /\ MixInv /\ LastInv /\ rec \in Value
  BY DEF Send, RecordInv, StageInv
<1>2. \A s \in Stream : Recorded(s)' = Recorded(s)
  BY <1>1 DEF Recorded, svars
<1>3. tx' = tx
  BY <1>1 DEF svars
<1>4. tx.op = "PAGE_PROGRAM"
  BY DEF TxProgram
<1> HIDE DEF tx
<1>5. /\ \/ todo = <<Tx("WRITE_ENABLE"), tx, Tx("WRITE_DISABLE")>> /\ Below
         \/ todo = <<tx, Tx("WRITE_DISABLE")>> /\ busy = Idle /\ wel /\ Below
         \/ todo = <<Tx("WRITE_DISABLE")>>
         \/ todo = <<>>
      /\ todo = <<Tx("WRITE_DISABLE")>> =>
           /\ busy.op # "CHIP_ERASE"
           /\ \A x \in DOMAIN Settled : \E s \in Stream : \E a \in Recorded(s) : x \in Bytes(s, a)
           /\ Alone(who, cursor[who]) => Holds(who, cursor[who], rec)
  BY DEF RecordInv, StageInv, Programming, tx
<1>6. Transfer /\ Timely(Head(todo)) /\ todo' = Tail(todo) /\ todo # <<>>
  <2>1. todo # <<>> /\ Head(todo).op # "POLL"
    BY <1>4, <1>5 DEF Tx, Send, Transfer, PollAgain
  <2> QED BY <2>1 DEF Send, Transfer, PollAgain
<1>7. Programming' <=>
        \/ todo' = <<Tx("WRITE_ENABLE"), tx, Tx("WRITE_DISABLE")>> /\ Below'
        \/ todo' = <<tx, Tx("WRITE_DISABLE")>> /\ busy' = Idle /\ wel' /\ Below'
        \/ /\ todo' = <<Tx("WRITE_DISABLE")>> \/ todo' = <<>>
           /\ busy'.op # "CHIP_ERASE"
           /\ (\A x \in DOMAIN Settled : \E s \in Stream : \E a \in Recorded(s) : x \in Bytes(s, a))'
           /\ (Alone(who, cursor[who]) => Holds(who, cursor[who], rec))'
  BY <1>3 DEF Programming, tx
<1>8. Programming' => StageInv'
  BY <1>1 DEF StageInv, svars
<1>9. CASE todo = <<Tx("WRITE_ENABLE"), tx, Tx("WRITE_DISABLE")>> /\ Below
  <2>1. Head(todo) = Tx("WRITE_ENABLE") /\ todo' = <<tx, Tx("WRITE_DISABLE")>>
    BY <1>6, <1>9
  <2>2. busy = Idle
    BY <1>6, <2>1 DEF Timely, Tx, Status
  <2>3. UNCHANGED <<mem, busy>> /\ wel' = ("WRITE_ENABLE" = "WRITE_ENABLE")
    BY <1>6, <2>1, <2>2, SendEnable DEF Refused
  <2>4. Settled' = Settled /\ Gone' = Gone
    BY <1>1, <2>3 DEF Settled, Gone, svars
  <2>5. MixInv' /\ LastInv' /\ Below'
    BY <1>1, <1>2, <1>9, <2>3, <2>4, Keep DEF svars
  <2> QED BY <1>7, <1>8, <2>1, <2>2, <2>3, <2>5
<1>10. CASE todo = <<tx, Tx("WRITE_DISABLE")>> /\ busy = Idle /\ wel /\ Below
  <2>1. Head(todo) = tx /\ todo' = <<Tx("WRITE_DISABLE")>>
    BY <1>6, <1>10
  <2>2. UNCHANGED mem /\ busy' = tx
    BY <1>4, <1>6, <1>10, <2>1, SendStart DEF Refused
  <2>3. /\ MixInv' /\ LastInv'
        /\ (\A x \in DOMAIN Settled : \E s \in Stream : \E a \in Recorded(s) : x \in Bytes(s, a))'
        /\ (Alone(who, cursor[who]) => Holds(who, cursor[who], rec))'
    BY <1>1, <1>10, <2>2, ProgramStart DEF RecordInv, tx
  <2>4. busy'.op # "CHIP_ERASE"
    BY <1>4, <2>2
  <2> QED BY <1>7, <1>8, <2>1, <2>3, <2>4
<1>11. CASE todo = <<Tx("WRITE_DISABLE")>>
  <2>1. Head(todo) = Tx("WRITE_DISABLE") /\ todo' = <<>>
    BY <1>6, <1>11
  <2>2. UNCHANGED <<mem, busy>>
    BY <1>6, <2>1, SendEnable DEF Refused, chip
  <2>3. Settled' = Settled /\ Gone' = Gone
    BY <1>1, <2>2 DEF Settled, Gone, svars
  <2>4. MixInv' /\ LastInv'
    BY <1>1, <1>2, <2>2, <2>3, Keep DEF svars
  <2>5. (\A x \in DOMAIN Settled : \E s \in Stream : \E a \in Recorded(s) : x \in Bytes(s, a))'
    BY <1>2, <1>5, <1>11, <2>3
  <2>6. (Alone(who, cursor[who]) => Holds(who, cursor[who], rec))'
    BY <1>1, <1>2, <1>5, <1>11, <2>3 DEF Alone, Holds, svars
  <2> QED BY <1>5, <1>7, <1>8, <1>11, <2>1, <2>2, <2>4, <2>5, <2>6
<1> QED BY <1>5, <1>6, <1>9, <1>10, <1>11

(* A transaction of the erasure of the chip. *)
LEMMA ErasureSend ==
    ASSUME ~Slow, RecordInv, pc = "erase", Send
    PROVE  MixInv' /\ LastInv' /\ StageInv'
<1>1. UNCHANGED svars /\ MixInv /\ LastInv /\ Below /\ Erasing
  BY DEF Send, RecordInv, StageInv, DriverInv
<1>2. \A s \in Stream : Recorded(s)' = Recorded(s)
  BY <1>1 DEF Recorded, svars
<1>3. StageInv' <=> /\ Below'
                    /\ \/ todo' = w25q64_erase \/ todo' = Tail(w25q64_erase)
                       \/ Gone' = Stream /\ Settled' = Blank
  BY <1>1 DEF StageInv, svars
<1>4. CASE PollAgain
  <2>1. UNCHANGED fvars
    BY <1>4 DEF PollAgain
  <2>2. Settled' = Settled /\ Gone' = Gone /\ mem' = mem
    BY <1>1, <2>1 DEF Settled, Gone, fvars, chip, svars
  <2>3. MixInv' /\ LastInv' /\ Below'
    BY <1>1, <1>2, <2>2, Keep DEF svars
  <2> QED BY <1>3, <2>1, <2>2, <2>3 DEF RecordInv, StageInv, fvars
<1>5. CASE Transfer
  <2>1. todo' = Tail(todo) /\ Timely(Head(todo)) /\ todo # <<>>
    BY <1>5 DEF Transfer
  <2>2. CASE todo = w25q64_erase
    <3>1. Head(todo) = Tx("WRITE_ENABLE") /\ todo' = Tail(w25q64_erase)
      BY <2>1, <2>2 DEF w25q64_erase
    <3>2. busy = Idle
      BY <2>1, <3>1 DEF Timely, Tx, Status
    <3>3. UNCHANGED <<mem, busy>>
      BY <1>5, <3>1, <3>2, SendEnable DEF Refused
    <3>4. Settled' = Settled /\ Gone' = Gone
      BY <1>1, <3>3 DEF Settled, Gone, svars
    <3>5. MixInv' /\ LastInv' /\ Below'
      BY <1>1, <1>2, <3>3, <3>4, Keep DEF svars
    <3> QED BY <1>3, <3>1, <3>5
  <2>3. CASE todo = <<Tx("CHIP_ERASE"), Tx("POLL"), Tx("WRITE_DISABLE")>> /\ busy = Idle /\ wel
    <3>1. Head(todo) = Tx("CHIP_ERASE") /\ Tx("CHIP_ERASE").op = "CHIP_ERASE"
      BY <2>3 DEF Tx
    <3>2. UNCHANGED mem /\ busy' = Tx("CHIP_ERASE")
      BY <1>5, <2>3, <3>1, SendStart DEF Refused
    <3> QED BY <1>1, <1>3, <3>2, EraseStart
  <2>4. CASE todo # w25q64_erase /\ todo # Tail(w25q64_erase)
    <3>1. Gone = Stream /\ Settled = Blank
      BY <2>4 DEF RecordInv, StageInv
    <3>2. UNCHANGED <<mem, busy>>
      <4>1. \/ Head(todo) = Tx("POLL")
            \/ Head(todo) = Tx("WRITE_DISABLE")
        BY <1>1, <2>1, <2>4 DEF Erasing, w25q64_erase
      <4> QED BY <1>5, <4>1, SendStatus, SendEnable DEF Refused, chip
    <3>3. Settled' = Settled /\ Gone' = Gone
      BY <1>1, <3>2 DEF Settled, Gone, svars
    <3>4. MixInv' /\ LastInv' /\ Below'
      BY <1>1, <1>2, <3>2, <3>3, Keep DEF svars
    <3> QED BY <1>3, <3>1, <3>3, <3>4
  <2>5. todo = Tail(w25q64_erase) =>
          todo = <<Tx("CHIP_ERASE"), Tx("POLL"), Tx("WRITE_DISABLE")>> /\ busy = Idle /\ wel
    BY <1>1 DEF Erasing, w25q64_erase, Tx
  <2> QED BY <2>2, <2>3, <2>4, <2>5
<1> QED BY <1>4, <1>5 DEF Send

(* The read of a record. *)
LEMMA ReadingSend ==
    ASSUME ~Slow, RecordInv, pc = "read", Send
    PROVE  MixInv' /\ LastInv' /\ StageInv'
<1> DEFINE tx == TxRead(AddressBytes(LastPlace(who)), Size[who])
<1>1. UNCHANGED svars /\ MixInv /\ LastInv /\ Below /\ who \in Stream /\ turn[who] = 1
  BY DEF Send, RecordInv, StageInv, CInv, CursorType, CursorInv
<1>2. \A s \in Stream : Recorded(s)' = Recorded(s)
  BY <1>1 DEF Recorded, svars
<1>3. tx.op = "READ_DATA" /\ tx.a = AddressBytes(LastPlace(who)) /\ tx.n = Size[who]
  BY DEF TxRead
<1>4. todo = <<>> \/ todo = <<tx>>
  BY DEF RecordInv, StageInv, Reading
<1> HIDE DEF tx
<1>5. Transfer /\ Head(todo) = tx /\ todo' = <<>> /\ Timely(tx)
  BY <1>3, <1>4 DEF Send, Transfer, PollAgain
<1>6. busy = Idle
  BY <1>3, <1>5 DEF Timely, Status
<1>7. UNCHANGED chip /\ buf' = Read(mem, AddressBytes(LastPlace(who)), Size[who])
  BY <1>3, <1>5, <1>6, SendRead
<1>8. Settled' = Settled /\ Gone' = Gone /\ mem' = mem
  BY <1>1, <1>7 DEF Settled, Gone, chip, svars
<1>9. MixInv' /\ LastInv' /\ Below'
  BY <1>1, <1>2, <1>8, Keep DEF svars
<1>10. Reading'
  <2> SUFFICES ASSUME Alone(who, LastPlace(who))', Straight(who, LastPlace(who))'
               PROVE  buf' = IF who \in wiped THEN Erased ELSE last[who]
    BY <1>1, <1>5, <1>6, <1>7 DEF Reading, chip, svars
  <2>1. Alone(who, LastPlace(who)) /\ Straight(who, LastPlace(who))
    BY <1>1, <1>2 DEF Alone, Straight, LastPlace, svars
  <2> QED BY <1>1, <1>6, <1>7, <2>1, ReadLast DEF RecordInv
<1> QED BY <1>1, <1>9, <1>10 DEF StageInv, svars

(* The chip ends a program or an erasure. *)
LEMMA RecordDone ==
    ASSUME RecordInv, Done
    PROVE  MixInv' /\ LastInv' /\ StageInv'
<1>1. /\ UNCHANGED <<cursor, turn, pc, who, rec, last, todo>> /\ busy' = Idle /\ busy # Idle
      /\ wiped' = Gone
  BY DEF Done, ChipDone, Gone
<1>2. Settled' = Settled
  BY SettledDone DEF Done
<1>3. Gone' = Gone /\ busy'.op # "CHIP_ERASE"
  BY <1>1 DEF Gone, Idle, Tx
<1>4. mem' = Settled
  <2>1. Settled' = mem'
    BY <1>1 DEF Settled, Idle, Tx
  <2> QED BY <1>2, <2>1
<1>5. \A s \in Stream : Recorded(s)' = Recorded(s)
  BY <1>1 DEF Recorded
<1>6. MixInv' /\ LastInv' /\ (Below => Below')
  BY <1>1, <1>2, <1>3, <1>4, <1>5, Keep DEF RecordInv
<1>7. CASE pc = "program"
  <2>1. Alone(who, cursor[who])' <=> Alone(who, cursor[who])
    BY <1>1, <1>5 DEF Alone
  <2>2. Holds(who, cursor[who], rec)' <=> Holds(who, cursor[who], rec)
    BY <1>1, <1>2 DEF Holds
  <2>3. Programming'
    <3>1. CASE todo = <<Tx("WRITE_ENABLE"), TxProgram(AddressBytes(cursor[who]), Size[who], rec),
                        Tx("WRITE_DISABLE")>> /\ Below
      BY <1>1, <1>6, <3>1 DEF Programming
    <3>2. CASE /\ todo = <<Tx("WRITE_DISABLE")>> \/ todo = <<>>
               /\ \A x \in DOMAIN Settled : \E s \in Stream : \E a \in Recorded(s) : x \in Bytes(s, a)
               /\ Alone(who, cursor[who]) => Holds(who, cursor[who], rec)
      <4>1. (\A x \in DOMAIN Settled : \E s \in Stream : \E a \in Recorded(s) : x \in Bytes(s, a))'
        BY <1>2, <1>5, <3>2
      <4> QED BY <1>1, <1>3, <2>1, <2>2, <3>2, <4>1 DEF Programming
    <3> QED BY <1>1, <1>7, <3>1, <3>2 DEF RecordInv, StageInv, Programming
  <2> QED BY <1>1, <1>6, <1>7, <2>3 DEF RecordInv, StageInv
<1>8. CASE pc = "read"
  <2>1. Reading'
    BY <1>1, <1>8 DEF RecordInv, StageInv, Reading, LastPlace
  <2> QED BY <1>1, <1>6, <1>8, <2>1 DEF RecordInv, StageInv
<1>9. CASE pc \notin {"program", "read"}
  BY <1>1, <1>2, <1>3, <1>6, <1>9 DEF RecordInv, StageInv
<1> QED BY <1>6, <1>7, <1>8, <1>9

(* The record is stored: it is the last of its stream. *)
LEMMA RecordAdvance ==
    ASSUME RecordInv, Advance
    PROVE  GridInv' /\ MixInv' /\ LastInv' /\ StageInv'
<1>1. /\ pc = "program" /\ todo = <<>> /\ UNCHANGED <<fvars, who, rec>> /\ pc' = "idle"
      /\ who \in Stream /\ cursor \in [Stream -> Nat] /\ Size[who] \in Nat /\ Size[who] > 0
      /\ cursor' = [cursor EXCEPT ![who] = @ + Size[who]]
      /\ turn[who] = 0 /\ turn' = [turn EXCEPT ![who] = 1] /\ turn \in [Stream -> {0, 1}]
      /\ last' = [last EXCEPT ![who] = rec] /\ wiped' = wiped \ {who}
  BY StreamFacts DEF Advance, RecordInv, CInv, CursorType, CursorInv
<1>2. /\ busy.op # "CHIP_ERASE" /\ rec \in Value
      /\ \A x \in DOMAIN Settled : \E s \in Stream : \E a \in Recorded(s) : x \in Bytes(s, a)
      /\ Alone(who, cursor[who]) => Holds(who, cursor[who], rec)
  BY <1>1 DEF RecordInv, StageInv, Programming
<1>3. /\ cursor'[who] = cursor[who] + Size[who]
      /\ \A s \in Stream : s # who => cursor'[s] = cursor[s]
  BY <1>1
<1>4. \A s \in Stream : \A a \in Places(s) : a \in Int
  BY StreamFacts DEF Places
<1>5. \A s \in Stream : \A a \in Recorded(s) : a \in Places(s) /\ a < cursor'[s]
  <2> SUFFICES ASSUME NEW s \in Stream, NEW a \in Recorded(s)
               PROVE  a \in Places(s) /\ a < cursor'[s]
    OBVIOUS
  <2>1. a \in Places(s) /\ a \in Int /\ (a < cursor[s] \/ (who = s /\ a = cursor[s]))
    BY <1>4 DEF Recorded
  <2> QED BY <1>1, <1>3, <2>1
<1>6. \A s \in Stream : Recorded(s) \subseteq Recorded(s)'
  BY <1>5 DEF Recorded
<1>7. Settled' = Settled /\ mem' = mem /\ busy' = busy /\ todo' = todo
  BY <1>1 DEF Settled, fvars, chip
<1>8. GridInv'
  <2> SUFFICES ASSUME NEW s \in Stream
               PROVE  \E k \in 0..cursor'[s] : cursor'[s] = First[s] + k * Size[s]
    BY DEF GridInv
  <2>1. PICK k \in 0..cursor[s] : cursor[s] = First[s] + k * Size[s]
    BY DEF RecordInv, GridInv
  <2>2. CASE s = who
    <3>1. (k + 1) * Size[s] = k * Size[s] + Size[s] /\ k * Size[s] \in Int
      BY <1>1, <2>1, <2>2
    <3>2. First[s] \in Nat /\ cursor[s] \in Nat /\ k \in Nat
      BY <1>1, <2>1, StreamFacts
    <3>3. cursor'[s] = First[s] + (k + 1) * Size[s]
      BY <1>1, <1>3, <2>1, <2>2, <3>1, <3>2
    <3>4. k + 1 \in 0..cursor'[s]
      BY <1>1, <1>3, <2>1, <2>2, <3>2
    <3> QED BY <3>3, <3>4
  <2>3. CASE s # who
    BY <1>3, <2>1, <2>3
  <2> QED BY <2>2, <2>3
<1>9. MixInv'
  <2>1. \A x : Met(x) => Met(x)'
    BY <1>6 DEF Met
  <2> QED BY <1>7, <2>1 DEF RecordInv, MixInv
<1>10. LastInv'
  <2> SUFFICES ASSUME NEW s \in Stream, turn'[s] = 1, Alone(s, LastPlace(s))'
               PROVE  IF s \in Gone' THEN Bytes(s, LastPlace(s)') \cap DOMAIN Settled' = {}
                      ELSE last'[s] \in Value /\ Holds(s, LastPlace(s), last[s])'
    BY DEF LastInv
  <2>1. Gone = wiped /\ Gone' = wiped \ {who}
    BY <1>1, <1>2, <1>7 DEF Gone
  <2>2. CASE s = who
    <3>1. LastPlace(s)' = cursor[s]
      BY <1>1, <1>3, <2>2 DEF LastPlace
    <3>2. Alone(s, cursor[s])
      BY <1>6, <3>1 DEF Alone
    <3>3. Holds(s, cursor[s], rec)
      BY <1>2, <2>2, <3>2
    <3>4. s \notin Gone'
      BY <2>1, <2>2
    <3>5. last'[s] = rec
      BY <1>1, <2>2 DEF RecordInv, RecordType
    <3>6. Holds(s, LastPlace(s), last[s])'
      BY <1>7, <3>1, <3>3, <3>5 DEF Holds
    <3> QED BY <1>2, <3>4, <3>5, <3>6
  <2>3. CASE s # who
    <3>1. LastPlace(s)' = LastPlace(s) /\ turn[s] = 1 /\ (s \in Gone' <=> s \in Gone)
      BY <1>1, <1>3, <2>1, <2>3 DEF LastPlace
    <3>2. Alone(s, LastPlace(s))
      BY <1>6, <3>1 DEF Alone
    <3>3. last'[s] = last[s]
      BY <1>1, <2>3
    <3>4. Holds(s, LastPlace(s), last[s])' <=> Holds(s, LastPlace(s), last[s])
      BY <1>7, <3>1, <3>3 DEF Holds
    <3> QED BY <1>7, <3>1, <3>2, <3>3, <3>4 DEF RecordInv, LastInv
  <2> QED BY <2>2, <2>3
<1>11. StageInv'
  <2>1. Below'
    BY <1>2, <1>5, <1>7 DEF Below
  <2> QED BY <1>1, <2>1 DEF StageInv
<1> QED BY <1>8, <1>9, <1>10, <1>11

LEMMA RecordNext == ~Slow /\ RecordInv /\ [Next]_vars => RecordInv'
<1> SUFFICES ASSUME ~Slow, RecordInv, [Next]_vars PROVE RecordInv'
  OBVIOUS
<1>1. CInv' /\ DriverInv' /\ RecordType'
  BY CursorNext, DriverNext, RecordTypeNext DEF RecordInv
<1>2. SUFFICES GridInv' /\ MixInv' /\ LastInv' /\ StageInv'
  BY <1>1 DEF RecordInv
<1>3. UNCHANGED cursor => GridInv'
  BY DEF RecordInv, GridInv
<1>4. UNCHANGED <<mem, busy, wiped>> => Settled' = Settled /\ Gone' = Gone
  BY DEF Settled, Gone
<1>5. MixInv /\ LastInv /\ (pc # "program" => Below) /\ (pc \in {"idle", "encode"} => todo = <<>>)
  BY DEF RecordInv, StageInv, DriverInv
<1>6. ASSUME NEW s \in Stream, StartWrite(s) PROVE GridInv' /\ MixInv' /\ LastInv' /\ StageInv'
  <2>1. UNCHANGED <<mem, busy, cursor, turn, last, wiped>> /\ pc = "idle"
    BY <1>6 DEF StartWrite, chip
  <2>2. pc' \in {"erase", "encode"} /\ (pc' = "erase" => todo' = w25q64_erase)
    BY <1>6 DEF StartWrite, w25q64_control
  <2>3. \A t \in Stream : Recorded(t) \subseteq Recorded(t)'
    BY <2>1 DEF Recorded
  <2>4. MixInv' /\ LastInv' /\ Below'
    BY <1>4, <1>5, <2>1, <2>3, Keep
  <2> QED BY <1>3, <2>1, <2>2, <2>4 DEF StageInv
<1>7. ASSUME NEW s \in Stream, StartRead(s) PROVE GridInv' /\ MixInv' /\ LastInv' /\ StageInv'
  <2>1. /\ UNCHANGED <<mem, busy, cursor, turn, last, wiped>> /\ pc = "idle"
        /\ turn[s] = 1 /\ who' = s /\ pc' = "read"
    BY <1>7 DEF StartRead, chip
  <2>2. \A t \in Stream : Recorded(t) \subseteq Recorded(t)'
    BY <2>1 DEF Recorded
  <2>3. MixInv' /\ LastInv' /\ Below'
    BY <1>4, <1>5, <2>1, <2>2, Keep
  <2>4. LastPlace(s) % Space = LastPlace(s)
    <3>1. LastPlace(s) \in 0..(Space - 1)
      BY <2>1, StreamAssumption, StreamFacts, CapacityPages
         DEF RecordInv, CInv, CursorType, CursorInv, LastPlace
    <3> HIDE DEF LastPlace
    <3> QED BY <3>1, CapacityPages
  <2>5. todo' = <<TxRead(AddressBytes(LastPlace(s)), Size[s])>>
    BY <1>7, <2>4 DEF StartRead, w25q64_control, w25q64_read, LastPlace
  <2>6. Reading'
    BY <2>1, <2>5 DEF Reading, LastPlace
  <2> QED BY <1>3, <2>1, <2>3, <2>6 DEF StageInv
<1>8. CASE Rewind
  <2>1. /\ UNCHANGED <<mem, busy, turn, who, last, wiped, todo>> /\ pc = "erase" /\ todo = <<>>
        /\ pc' = "encode" /\ cursor' = [cursor EXCEPT ![who] = First[who]]
    BY <1>8 DEF Rewind, fvars, chip
  <2>2. mem = Blank /\ DOMAIN Blank = {}
    BY <2>1 DEF RecordInv, DriverInv, Erasing, BlankChip, w25q64_erase, Blank
  <2>3. Gone' = Stream /\ Settled' = Blank
    BY <1>4, <2>1 DEF RecordInv, StageInv, w25q64_erase
  <2>4. GridInv'
    <3> SUFFICES ASSUME NEW s \in Stream
                 PROVE  \E k \in 0..cursor'[s] : cursor'[s] = First[s] + k * Size[s]
      BY DEF GridInv
    <3>1. CASE s = who
      <4>1. cursor'[s] = First[s]
        BY <2>1, <3>1 DEF RecordInv, CInv, CursorType
      <4>2. 0 \in 0..First[s] /\ First[s] = First[s] + 0 * Size[s]
        BY StreamFacts
      <4> QED BY <4>1, <4>2
    <3>2. CASE s # who
      BY <2>1, <3>2 DEF RecordInv, CInv, CursorType, GridInv
    <3> QED BY <3>1, <3>2
  <2>5. MixInv' /\ LastInv' /\ Below'
    BY <2>1, <2>2, <2>3 DEF MixInv, LastInv, Below
  <2> QED BY <2>1, <2>4, <2>5 DEF StageInv
<1>9. ASSUME NEW v \in Value, Encode(v) PROVE GridInv' /\ MixInv' /\ LastInv' /\ StageInv'
  <2>1. /\ UNCHANGED <<mem, busy, cursor, turn, who, last, wiped>> /\ pc = "encode"
        /\ rec' = v /\ pc' = "program"
    BY <1>9 DEF Encode, chip
  <2>2. \A t \in Stream : Recorded(t) \subseteq Recorded(t)'
    BY <2>1 DEF Recorded
  <2>3. MixInv' /\ LastInv' /\ Below'
    BY <1>4, <1>5, <2>1, <2>2, Keep
  <2>4. todo' = <<Tx("WRITE_ENABLE"), TxProgram(AddressBytes(cursor[who]), Size[who], v),
                  Tx("WRITE_DISABLE")>>
    BY <1>9 DEF Encode, w25q64_control, w25q64_write
  <2>5. Programming'
    BY <2>1, <2>3, <2>4 DEF Programming
  <2> QED BY <1>3, <2>1, <2>3, <2>5 DEF StageInv
<1>10. CASE Advance
  BY <1>10, RecordAdvance
<1>11. CASE EndRead
  <2>1. /\ UNCHANGED <<mem, busy, cursor, last, wiped>> /\ pc = "read" /\ pc' = "idle"
        /\ turn' = [turn EXCEPT ![who] = 0]
    BY <1>11 DEF EndRead, fvars, chip
  <2>2. \A t \in Stream : turn'[t] = 1 => turn[t] = 1
    BY <2>1 DEF RecordInv, CInv, CursorType
  <2>3. \A t \in Stream : Recorded(t) \subseteq Recorded(t)'
    BY <2>1 DEF Recorded
  <2>4. MixInv' /\ LastInv' /\ Below'
    BY <1>4, <1>5, <2>1, <2>2, <2>3, Keep
  <2> QED BY <1>3, <2>1, <2>4 DEF StageInv
<1>12. CASE Send
  <2>1. UNCHANGED cursor /\ todo # <<>>
    BY <1>12 DEF Send, svars, Transfer, PollAgain
  <2>2. pc = "program" \/ pc = "erase" \/ pc = "read"
    BY <1>5, <2>1 DEF RecordInv, RecordType
  <2> QED BY <1>3, <1>12, <2>1, <2>2, ProgrammingSend, ErasureSend, ReadingSend
<1>13. CASE Done
  BY <1>3, <1>13, RecordDone DEF Done
<1>14. CASE UNCHANGED vars
  <2>1. UNCHANGED <<mem, wel, busy, todo, buf, cursor, turn, pc, who, rec, last, wiped>>
    BY <1>14 DEF vars, fvars, chip, svars
  <2>2. \A t \in Stream : Recorded(t) = Recorded(t)'
    BY <2>1 DEF Recorded
  <2>3. MixInv' /\ LastInv' /\ (Below => Below')
    BY <1>4, <1>5, <2>1, <2>2, Keep
  <2>4. StageInv'
    BY <2>1 DEF RecordInv, StageInv, Below, Programming, Reading, Recorded, Alone, Holds,
                LastPlace, Straight, Settled, Gone
  <2> QED BY <1>3, <2>1, <2>3, <2>4
<1> QED BY <1>6, <1>7, <1>8, <1>9, <1>10, <1>11, <1>12, <1>13, <1>14 DEF Next

LEMMA RecordSafe == ~Slow => (Spec => []RecordInv)
<1> SUFFICES ASSUME ~Slow PROVE Spec => []RecordInv
  OBVIOUS
<1>1. Init => RecordInv
  BY CursorInit, DriverInit, RecordInit DEF RecordInv
<1>2. RecordInv /\ [Next]_vars => RecordInv'
  BY RecordNext
<1> QED BY <1>1, <1>2, PTL DEF Spec

(* If a program has ended by the next command, a byte is programmed twice  *)
(* between two erasures only where two records share it: the cursors of    *)
(* write_raw_mem_async and write_bench_mem_async never come back to a      *)
(* place without an erasure, whichever stream erases.                      *)
THEOREM MixedCorrect == ~Slow => (Spec => []MixedWhereMet)
<1>1. RecordInv => MixedWhereMet
  BY DEF RecordInv, MixInv, MixedWhereMet
<1> QED BY <1>1, RecordSafe, PTL

(* Under the same condition read_raw_mem_async and read_bench_mem_async    *)
(* get the last record of their stream, or erased cells if the other       *)
(* stream erased the chip since, wherever records do not meet.             *)
THEOREM LastCorrect == ~Slow => (Spec => []ReadsLast)
<1>1. RecordInv => ReadsLast
  BY DEF RecordInv, StageInv, Reading, ReadsLast
<1> QED BY <1>1, RecordSafe, PTL
=============================================================================
