# A TLA+ model of the flight-data application

The repository is an application for RT-Thread on an STM32H7 board. A producer
thread samples an accelerometer/gyroscope and a barometer; a consumer thread
runs the XenoJetBench benchmark on the samples; two push buttons ask for
records to be stored in, or read back from, a W25Q64 FLASH chip, and a
deferrable server thread does what they ask. This directory models the
application's own code (`applications/`, `peripherals/`) together with the
kernel operations it depends on, checks the models with TLC and proves the
main results with TLAPS.

The build modelled is the one the sources configure: `USE_DEFERR` 1, `DEBUG` 1,
`COUNT` 0, `NUM_READINGS` 125, `RT_THREAD_PRIORITY_MAX` 32, one tick per
millisecond.

## 1. Inventory

| Component | State | Operations | Talks to |
|---|---|---|---|
| Deferrable server (`deferrable.c`) | queue `asyncTask` of linked task nodes, thread, capacity timer, flag `active` | init, insert (in an interrupt), thread loop, capacity timeout, period timeout (never started) | buttons insert; the thread calls the storage tasks; kernel suspend/resume |
| Button handlers (`procedure.c`) | a static `RWn` each | one press: insert write or read in turn | server |
| Storage tasks (`procedure.c`) | `addr`, `addr_bench`, the index `i` | write/read raw, write/read bench | FLASH driver; sample and result arrays under the two mutexes |
| FLASH driver (`w25q64.c`) | none of its own; the chip's memory, write enable latch, busy state | one SPI sequence per instruction | chip |
| Producer (`procedure.c`) | `curr_read`, `acc_v`, `gyro_v`, `baro_v` | one reading per index, then a delay | sensors, `raw_mutex` |
| Consumer and XenoJetBench control | `u0d`, `altd`, `throtl`, stage variables, `results` | copy a point, create and start four stage threads, publish the results | `raw_mutex`, `bench_mutex`, stage threads |
| XenoJetBench numerics | engine parameters | floating point formulas, `sqroot` | – |
| BMP280, MPU6050 drivers | the chip's configuration registers, calibration | I2C register sequences | producer, `main` |
| Kernel timers (`timer.c`, `clock.c`) | tick counter, ordered list of running timers | init, start, stop, detach, control, tick interrupt | delays of all threads, capacity timer |
| Boot (`main.c`) | how far it has come | initialise devices, erase the chip, server, buttons, mutexes, threads | all |
| RT-Thread kernel | thread states, priorities, mutexes, lists | schedule, mutex take/release, delay, suspend/resume | all |

What is hard here: the button interrupts share a linked list, without a lock,
with the server thread; the server's "empty, so suspend" is not atomic; task
nodes are static, so a node can be inserted twice; `rt_thread_resume` wakes the
server whatever it waits for; the FLASH works on after a call has returned; one
chip is shared by two streams with separate cursors; nobody joins the stage
threads, and the order of the results rests on priorities alone, while mutexes
change priorities; the producer sleeps with a mutex held; `main` enables the
buttons before it creates what their tasks need, and ignores most failures; a
failed I2C read counts as 0 and the setters write it back; the tick counter
wraps around, and timeout functions change the list they are called from.

What makes each part correct: an accepted press is served once, in order, and
the server sleeps only when there is nothing to do (server); a read returns
the last record stored, and no record is programmed over another (storage);
a call has happened when it returns, and leaves the chip protected (driver);
a point, a set of results and a record each belong to one reading (threads);
lent priorities are returned, and no thread waits for ever (kernel use); a
timer fires when it was asked to, neither early nor late (timers); what is
stored is read back as the same number (records); when `main` has ended
nothing that runs lacks an object it uses, and the sensors are configured
(boot).

## 2. Modules

| Module | Models | Notes |
|---|---|---|
| `RtList` | `rt_list_*` of `rtservice.h` | nodes with `next`/`prev`; a removal as its four stores; the predicate `Ring(list, head, queue)` |
| `Deferrable` | server, handlers, capacity timer; kernel calls as the server sees them | extends `RtList` |
| `AperiodicServer` | abstract: a FIFO of requests, one served at a time, asleep only when empty | implemented by `Deferrable` |
| `W25q64` | the driver, and (external) the chip | `w25q64_control` yields a sequence of SPI transactions |
| `FlashDriver` | a caller that issues any instructions | extends `W25q64` |
| `Storage` | the four FLASH tasks, one at a time | extends `W25q64` |
| `Kernel` | scheduling, mutexes, delays, start and end of threads | operators used by `Application` |
| `Application` | producer, consumer, stages, bodies of the server with the capacity timer and the lock of the SPI bus | extends `Kernel` |
| `Timer` | hard timers and the tick interrupt of the kernel | |
| `Codec` | the numbers of a record: sensor bytes, absolute values, bytes of the record, numbers shown | |
| `Bmp280` | the barometer's driver and (external) its registers and measurements | operators used by `Boot` |
| `Boot` | `main`, with presses and the producer's first readings | extends `Bmp280` |
| `MC*` | constants for TLC | |
| `DeferrableProofs`, `StorageProofs`, `FlashDriverProofs`, `ApplicationProofs`, `TimerProofs`, `CodecProofs`, `BootProofs` | theorems | each extends the module it is about |
| `W25q64Proofs` | lemmas about single transactions and the course of an erasure | used by `FlashDriverProofs` and `StorageProofs` |

### Deferrable

The server thread advances one memory access or one kernel call at a time, `pc`
naming the place in `rt_thread_deferrable_entry` (`rt_list_remove` is six
places: two loads into `reg` and four stores, in program order). An interrupt handler is one
step: both button lines have the same NVIC priority, so neither handler
preempts the other, and the tick interrupt, which can, shares no list or flag
with them (`rt_schedule` called in an interrupt only asks for a switch at its
end). A kernel call that disables interrupts is one step too.

The body of a task is seen as take, critical section, release: `mutex` is what
the server has of the body's mutex, and other threads appear as `BodyBlock`,
`MutexGrant` and `MutexBoost`. `current` is whether the server has the
processor, `stat` its thread state: after `rt_thread_suspend` the server goes on
running, suspended, until `rt_schedule`.

`queue` (accepted and not yet served requests) and `spent` (capacity ran out in
this activation) are history variables. Three switches say which presses are
considered: `InRemoval` (in the racy stores of the removal of the last task),
`BeforeSuspend` (between the last test and the suspension), `Repeat` (for a
task still linked). With all three FALSE the server is correct; each one TRUE
shows a defect of the code. So the switches are the exact conditions under
which the code works, not restrictions for convenience.

`rt_timer_deferrable_capacity` passes the number 31 where a pointer to a
priority is expected; the model gives the server any priority of
`PriorityByte`. `rt_timer_deferrable_period` has no action because `tim_server`
is started nowhere. (Were it started, it would set `priority`, which no code
assigns, and resume a server with an empty queue.)

### W25q64, FlashDriver, Storage

A driver function is the sequence of SPI transactions it sends. Between two of
them the chip may end what it works on (`ChipDone`). An address is the three
bytes sent: the code stores the least significant first, the chip takes the
first for the most significant and, having 64 Mbit, ignores the highest bit.
A program stays in its page; programming a byte that is not erased leaves
`NoData`. A byte of the memory is the pair of its record and its place in it,
so that a read can tell a whole record from a mixture. The chip itself is not
in the repository and is marked external in the map. A transfer is
`rt_spi_transfer_message` of `spi_core.c`. It can fail, and no function of the
driver looks at its result; in the model transfers succeed, so what the
properties promise is for a bus that works.

`Slow` says whether a page program may last beyond the call that started it:
`w25q64_write` does not wait. A program typically takes less than a millisecond
and at most 3; the debug output that follows each write takes about 2. So both
values are real: FALSE is the usual case, TRUE the slow one. `FlashDriver` is
checked with TRUE, where a chip may be in time or not. `found` is a history
variable, whether the last call found the chip at work, and the properties say
exactly what such a call may do: nothing at all, or what it does otherwise.
What must not happen, and does not, is that a part of a call gets through: a
page program on the latch of an earlier call, a read of the memory of before a
program, or a loop that ends before an erasure. `Storage` is about a chip in
time (FALSE): with the other a record or an erasure may be missing.

`Storage` has one generic stream with the numbers of `raw` and `bench` as
constants: first address, record size, the limit from which a write erases the
chip and starts again. `last` and `wiped` are history variables: the last
record stored, and whether the chip was erased since. `Settled` is the memory
once the chip has ended what it works on. `turn` makes writes and reads of a
stream alternate. The code does this at the press, so it holds of the tasks as
long as none is lost, and `removal_race` and `mutex_lost` show that tasks can
be: after a lost first write the read of `addr - 12` would wrap. What `Storage`
shows of reads is for a server that runs what it was asked for.

Records of the code's layout can meet on the chip (below), so what is promised
of them is stated for the places where they do not. `Places(s)` are the
addresses at which a stream's records begin, `Recorded(s)` those below its
cursor and the one being programmed. `MixedWhereMet`: a byte programmed twice
since the last erasure belongs to two different recorded places. `ReadsLast`: a
read gets the last record, or erased cells, if that record shares no byte with
another (`Alone`) and lies in one page (`Straight`; the chip programs around
the end of a page and reads across it).

### Kernel and Application

`Kernel` gives the state of threads and mutexes and one operator per kernel
call. `rt_schedule(t)` is the guard of every thread step: `t` is ready and no
ready thread has a higher priority (a smaller number); threads of one priority
interleave freely, since a timeslice can end at any step. `rt_thread_control`
changes a priority and does not schedule. A delay lasts any time (`Tick`). No thread takes a mutex it owns, so hold counts are left out,
and no take has a timeout other than for ever.

In `Application` a sample is the sweep it was taken in (`sweep`, counted modulo
`Sweeps`), and what the benchmark computes is the index of the point it comes
from. Reading the barometer may give no pressure, and the element then keeps
the old value. The numbers are abstracted; every operation on the two mutexes
of the application, every copy, thread start and delay is kept. What the
erasures and programs of a body do to the FLASH is in `Storage`; the order in
which bodies are asked for is in `Deferrable`.

The capacity timer runs from the start of a body (`ServerBegin`) to its end and
may run out at any step in between, the erasure before the mutex, the wait for
it and the transfers included. It then gives the server one of `PriorityByte`
(`rt_timer_deferrable_capacity`). Where the priority ends up depends on where
the server is: if it waits, the handover saves the new priority and the release
keeps it (`ipc.c:890`); if it owns the mutex, the release restores the old one
(`ipc.c:870`); and so does the release of the SPI bus, a mutex that each
transfer takes and gives back (`BusTake`, `BusRelease`; `bus` is the priority
saved there), which may be inside the critical section of a body. A server whose
priority was lowered while it has the processor keeps it until the next call
of `rt_schedule`: `late` says so, and `Runs` is `rt_schedule` with this
exception. `rt_thread_yield`, the end of its timeslice, ends it at the latest.

Two simplifications. The server sleeps after each body, and the timer begins
anew with the next; when there is more work the code lets the timer run on, for
which the model has other bodies in which it runs out. The lock of the I2C bus
(`i2c_core.c:70`) is left out: once `main` has ended only the producer takes it,
and its release can do no more than end early what a server that the timer has
put above the producer lends it, with no other thread above the producer.

### Timer

`list` is `rt_timer_list` (one level: `RT_TIMER_SKIP_LIST_LEVEL` is 1; `Without`
is `rt_list_remove` on it), in the order of insertion `rt_timer_start` computes
from differences of ticks modulo `TickMax + 1`. `Due`, `Later` and `Place` are the three places where the code
computes with ticks. An operation runs with interrupts disabled and is one
step. `rt_timer_check` is one step per iteration up to the call of the timeout
function (`CheckFirst`), and one after it (`CallbackReturn`); in between `fired`
is the timer in its temporary list, and the function may call any operation, on
this timer too, as `rt_thread_timeout` and the capacity timer's function may.
What the code keeps in a timer that is not running is not read before it is set
again, and is 0 in the model. `age`, `asked` and `started` are history
variables: real time since the start, the time asked for, the order of starts.
In `Kernel` a delay lasts any time; `Timer` is what the delays and the capacity
timer rest on.

### Codec

A number is its integer part, which is all that is stored or shown. `Radix` is
the number of values of a byte, 256 in the code; the widths of `int16_t` and
`int` follow from it. Kept: the sign of a word put together from two bytes, the
sum of squares in `int` (which wraps to a negative number for readings near the
limit on all axes), `sqroot` (0 for a negative number; NaN for 0, because the
guess is halved until it is 0 and 0/0 follows), the conversion of a float to an
unsigned number (undefined in C for negative and large values: the instruction
saturates, and the conversion to a byte may go through either of two
instructions), the shifts, and the sum of the bytes when they are read. `Near`
is the precision the loop of `sqroot` guarantees, not a particular rounding.
One module serves both streams: `raw` has three values and `bench` fourteen,
each converted by the same four lines.

### Bmp280 and Boot

A register of the barometer is the group of its fields. A setter reads the
register, replaces a field and writes the register back; each transfer may
fail, a failed read counts as 0, and nobody is told. `present` is whether there
is a chip, `chip` whether it is ready or still resetting. `failed` is a history
variable: a transfer of `main` has failed. `data` is what the data registers
hold of temperature and pressure: nothing (0x80000), a measurement under the
settings `main` makes, or another, perhaps of before a restart. In normal mode
the chip measures on its own (`Measure`, external); a chip put to sleep keeps
what it has, a reset clears it, and `BMP280_Read_UTP` returns it without looking
at the mode. `pressure` is what the last pressure of the producer was computed
from.

`Boot` has one `pc` for each step of `main`, with its early returns and what it
ignores: a missing bus is noticed only after `mpu6050_reset` has used it
(`crash` stands for the outcome where that ends the program), and without a
barometer `main` prints "HALTING" and goes on. The registers and the data start
with anything an earlier start can have left. A button may be pressed from the step
that enables it. The server (priority 17) runs when `main` (10) has ended, which
is what makes the late creation of the mutexes harmless; its own steps are the
subject of `Deferrable`, so here it takes its tasks in order. `mode` is what
`main` reports, `fault` records the use of something that does not exist.

## 3. Runs

Passing runs:

| Run | Bounds | Shows |
|---|---|---|
| `server` | 2 buttons, 4 tasks, 3 priority bytes | the invariants of the server, the refinement of `AperiodicServer` with its liveness |
| `flash` | byte of 4 values, 3 addresses (two of them one to the chip, one that crosses a page end), 2 records, all instructions, a chip of any speed | what each call has done when it returns, also if it met the chip at work |
| `storage` | both streams full after 2–3 records, 2 records, index of 2, one place of each stream shared on the chip | cursors, places, erasures and reads over any number of fillings |
| `application` | 5 threads (2 stages), 2 readings, 2 sweeps, a capacity timer that gives priority 0 | data consistency under all schedules |
| `application_live` | 7 threads, 1 reading, 1 sweep, a capacity timer that gives priority 0 or 31 | lent priorities returned, no circle of waits, progress of all threads |
| `timer` | 3 timers, one of them periodic, tick counter of 8 values, times of 1 and 2 ticks | punctuality, order, the flag, the end of the interrupt |
| `codec` | bytes of 4 values, words 0, 5 and the least `int16_t` on 6 axes, 8 pressures from below 0 to beyond 32 bits | what is stored is read back; what is shown of the sensors |
| `boot` | both buttons, 3 presses, any subset of devices missing, any transfers failing, a chip that measures at any moment | nothing missing, sensors configured, no pressure from an old measurement, presses during the start served |

Every module states the types of its variables in `TypeOK`. The one of
`Deferrable` is checked and proved, those of `Application` and `Timer` are
proved; in the other modules `TypeOK` describes the state for the reader, and
the runs are spent on the properties above.

Why the bounds are enough. `MaxQueue` 4 never binds in `server`: without
repetition at most the four task nodes are queued. In `storage` the streams run
full and start again any number of times, in every order relative to each
other; the third place of `raw` and the first of `bench` differ in the one bit
the chip ignores, and all other places are apart, so both cases of
`MixedWhereMet` and of `ReadsLast` happen. The byte order is the subject of
`storage_bytes`. In
`application`, two sweeps tell an old sample from a new one, two indices tell a
point from the next one, and the schedules are unbounded; two stages are a
first and a last one, of different priorities, and a server at priority 0 is
above all others (one below them is in `application_live`). Liveness and the
priorities of the threads do not depend on the data, so one index and one sweep
suffice there, with all the stages. The proofs are for any number of each.
In `timer` the comparisons of ticks depend on differences only, the times are
below half the counter as `rt_timer_start` asserts (2 < 3), and the counter
wraps around any number of times; three timers are enough for one to fire while
two others are due at the same or at different ticks. In `codec` the words make
every kind of sum: 0, one that fits an `int`, and one that does not (three times
the least `int16_t`), and the pressures lie on both sides of each limit. In
`boot` three presses are more than one per button, and repetition is the
subject of `mutex_lost`.

Violation runs, each about one line of the code's own documentation:

| Run | Property | What happens |
|---|---|---|
| `lost_wakeup` | `NoLostWakeup` | a press between the test for an empty queue and the suspension is slept over, and so are all later ones |
| `removal_race` | `EveryRequestServed` | a press inside the unlocked removal of the last task is unlinked again |
| `mutex_lost` | `BodyOwnsMutex` | repeated presses damage the list, which then looks empty while the server waits for a mutex; the next press wakes it without the mutex |
| `storage_bytes` | `NothingOverwritten` | with the byte order of the code records meet on the chip before the part is full (with the real numbers: the 1st and the 5473rd of `raw`, which `MCStorage` asserts as `CodeMeets`) |

`RemovalRace.cfg` and `MutexLost.cfg` turn the deadlock check off because a
damaged list can send the server through the list head, where the model stops
(`fault`); `Boot.cfg` does because `main` may crash without a bus. Every other
run checks for deadlock.

Visible in the models, without a run of their own because the line says it all:
`w25q64_erase_part` transfers its chain from the second message, so nothing is
erased; `w25q64_getSR` receives into its own parameter; the end of the capacity
takes its priority from address 31; `tim_server` is started nowhere, so that
nothing but the release of a mutex or of the bus, when it saved an earlier one,
takes that priority back; the erasure of the chip for one stream leaves the cursor of
the other behind a record that is gone (`ReadsLast` has this as `wiped`); with
a slow page program (`Slow` TRUE) the next read, write or erase finds the chip
busy and is dropped; `BMP280_CalcPf` is called without the `BMP280_CalcTf` its comment asks
for; a sensor at rest on all axes gives NaN; a start that fails to create a
mutex leaves the buttons enabled; and a mutex handed over in FIFO order lends
the new owner nothing, so the producer (priority 7) can wait for the server
(17) while stages of the benchmark (12 to 15) run.

The README of the repository says the first button writes and the second
reads; in the code each button alternates between a write and a read of its
own stream. The models follow the code.

### Fairness

- `Deferrable`: `WF(Dispatch)` and `SF(Server)`: a ready server gets the
  processor, and is not preempted at the same place for ever, because all
  threads above it (producer 7, stages 12–15) sleep, block or end in every
  cycle of theirs, and the consumer of equal priority shares by timeslice.
  `WF(MutexGrant)`: owners release (this is `Samples` and `Benchmarks` of
  `Application`). Nothing is assumed of the buttons. The capacity timer may run
  out or not, but `WF(Dispatch)` assumes that the byte it takes for a priority
  is one, that is below 32: with a larger one the shift in `rt_thread_control`
  is undefined, and the server may never be found again.
- `FlashDriver`, `Storage`: the thread goes on sending, and the chip ends a
  program or an erase.
- `Application`: delays and timeslices end (`WF(Tick)`, `WF(rt_thread_yield)`);
  a thread moves on if it gets the processor again and again (`SF` of the
  producer, the consumer, the server and the stages), which the delays of 10 ms,
  201 s and 6 s give the lower ones, and the time between presses all of them
  when the capacity timer has put the server on top; and a call of
  `w25q64_control` has finitely many transfers (`SF(BusRelease(TRUE))`; the
  polling is the subject of `CallReturns`). Presses may come for ever or stop, as
  long as they leave that time; the capacity may run out or not; the byte is a
  priority, as above.
- `Timer`: the loop of `rt_timer_check` goes on, and timeout functions return
  (the two in use do not loop). Nothing is assumed of ticks or of calls.
- `Boot`: `main` goes on, a chip that resets is ready again, and the server
  runs once `main` has ended (the producer above it sleeps in every cycle).
  Nothing is assumed of presses or of transfers.

## 4. Proofs

`DeferrableProofs`, for any set of buttons, priorities, capacity and bound:

- `TypeCorrect`: `Spec => []TypeOK`, with no further assumption.
- `BoostCorrect` (`BoostReturned`), with no further assumption either: from
  `BoostInv`, which adds that the mutex is the server's only in the critical
  section and that what it saved there was its own priority.
- Under `Calm` (the three switches FALSE): `ServerCorrect` (`ServerInv`),
  `QueueCorrect` (`QueueIntact`), `OrderCorrect` (`RunsOldest`),
  `WakeupCorrect` (`NoLostWakeup`), `BodyCorrect` (`BodyOwnsMutex`),
  `BudgetCorrect` (`Budgeted`), and `Refinement` (`ImplementsFifo`).

The argument. The properties are not inductive: whether the links are the queue
after the removal depends on what the stores before it left. `ServerInv` says
at every `pc` what the links around the head are (`ListInv`: the queue is
chained from its first element to the head at all times, and only the link from
the head to the first element is open while a task is unlinked), how thread
state, `current` and the mutex belong together (`ThreadInv`), where the queue
is known to be empty or not (`WorkInv`: at the places around the suspension the
server is suspended exactly when the queue is empty), and what `active` says of
the timer (`BudgetInv`). `Calm` is used in the handler only: a press outside
`RemovingLast` does not touch the two links the server is about to store
(an insertion changes the links of the tail and of the head's `prev`, which are
the server's only if the removed task is the last), and a press outside the
window before the suspension keeps `WorkInv`. Lemmas about `RtList` say what an
insertion and each store do to a chain; they hold for any list. The refinement
follows step by step: a press is `Request`, `PickTask` is `Begin`,
`BodyRelease` is `Finish`, the suspension is `Sleep`, and all else stutters.

`StorageProofs`, for any streams and layout that satisfy the assumptions of
`Storage` (which the code's numbers do, `CodeLayout` in `MCStorage`):

- `CursorCorrect` and `RecordsCorrect`: from the type of the cursors and
  `CursorInv`, which is inductive with it. This is where the limits
  `0x7FFFF4` and `0xFFFFC8`, tested with `>=` before a write, are enough, and
  where the alternation of writes and reads keeps `addr - 12` from wrapping.
- `EraseCorrect`: if the chip is not `Slow`, a cursor is set back only when the
  chip is idle, blank and protected. The invariant follows the four
  transactions of `w25q64_erase` through the chip's state.
- `MixedCorrect` (`MixedWhereMet`) and `LastCorrect` (`ReadsLast`), if the chip
  is not `Slow`. `RecordInv` speaks of `Settled` and not of the memory, so that
  a program or an erasure counts from the transaction that starts it and the
  end of it (`Done`) changes nothing. It says that cursors are on the grid of
  their places (`GridInv`), that between two writes all that is programmed is
  so at places below the cursors (`Below`), that bytes programmed twice are
  shared (`MixInv`), that the last record of a stream that is to be read is
  there as a whole or gone as a whole (`LastInv`), and how far the transactions
  of the present task are (`StageInv`). A program hits a byte that is not blank
  only at a place below a cursor, which is another place: with `Below` this
  gives `MixInv`, and for a record that is `Alone` that it becomes whole. The
  other steps keep `Settled` (lemma `Keep`). What a read fetches is what was
  programmed because a page begins at a multiple of its size, also after the
  chip has dropped the highest bit (`PageStart`, `ReadByte`).

`FlashDriverProofs`, for any addresses, any record length and any sequence of
instructions of `w25q64_control` (`InstructionAssumption` lists them):

- `ProtectCorrect` (`WriteProtected`), for a chip of any speed. The invariant
  adds that as long as a `WRITE_ENABLE` is to be sent, or an idle chip is
  writable, the last transaction of the call is a `WRITE_DISABLE`; a chip too
  busy to accept that one clears its latch itself when it ends.
- `WriteCorrect`, `ReadCorrect`, `ErasureCorrect` (`WriteTakesEffect`,
  `ReadReturns`, `EraseComplete`), for a chip of any speed too. `CallInv`
  follows each call through its transactions, again in terms of `Settled`, on
  two ways: one where the `WRITE_ENABLE` was accepted, and one where it was
  refused (`Dropped`), on which an idle chip is not writable until the call
  returns, because a chip that ends its work clears the latch.

`ApplicationProofs`, for any numbers of readings, sweeps and stages and any
priorities in which the stages (12 to 15) are before the consumer (17):
`ThreadAssumption`. `KernelAssumption` says that `Nobody` (the null pointer) is
no thread or mutex.

- `ApplicationTypeCorrect`: program counters and indices stay in range.
- `LoanCorrect` (`LoansReturned`) and `ChainCorrect` (`NoChain`), from
  `MutexInv`: a thread is owner of, or queued for, a mutex exactly at the
  places of its program that need it (`Locks`), queues have no repetitions and
  an owner is not in one (`Queues`), only the producer and the consumer sleep
  (`Timers`), and a priority that is not a thread's own belongs to an owner
  (`Priorities`, with `Own` for what the capacity timer may have given the
  server). The properties alone are not inductive: what a release hands over
  depends on who is queued. What a mutex has saved is its owner's own, too, and
  so is what the bus has saved during the erasure (`BusInv`); in a transfer
  inside a critical section the bus may save a lent priority, and then restores
  it in that critical section, whose end takes it back.
- `SampleCorrect`, `RecordCorrect`, `PointCorrect`, `ClosedCorrect`
  (`SampleWhole`, `RecordWhole`, `PointComplete`, `StagesClosed`), from
  `AppInv`: who is in a critical section owns its mutex (`HoldInv`), the arrays
  `acc_v` and `gyro_v` agree but for the element being sampled (`PairInv`), partial
  copies agree with the arrays (`CopyInv`, `StoreInv`, `BenchInv`), the
  variables of the benchmark belong to the point (`PointInv`), and while the
  consumer is past the benchmark every stage is closed (`StageInv`). That last
  part uses the scheduler: the consumer runs only if no stage is ready, and a
  stage never waits.

`TimerProofs`, for any timers, any width of the tick counter and any times
below half its range (which `rt_timer_start` asserts): `PunctualCorrect`,
`EarlyCorrect`, `FlagCorrect`. `TimerInv` ties the list, whose ticks wrap, to
real time: `timeout_tick` is the counter advanced by the time left (`DueInv`),
the list is in the order of time left and then of the calls (`OrderInv`),
outside the interrupt nothing is due (`OverdueInv`), and the flag and the timer
that is firing agree with the list (`FlagInv`, `FiredInv`). The comparison of
the code is then one of times left, because two times left differ by less than
half the counter (`SubValue`). The place where `rt_timer_start` inserts is the
least index with a later timer; that there is a least one is `WFMin` of the
library.

`CodecProofs`, for a byte of any even number of values, any sensor bytes and any
pressures: `RoundTripCorrect` and `DisplayedCorrect`. `RecordInv` carries what
each pass of the loops has done: values computed, stored as four bytes
(`StoredInv`), and shown (`ShownInv`). The work is in the lemmas about digits:
the bytes of a number below the bound of `int` add up to it again, and the
undefined conversions stay in a byte.

`BootProofs`, for any number of presses and any failures: `MissingCorrect`
(`NothingMissing`, from `OrderInv`: what each place of `main` has created, and
that no button is enabled before there is a server), `ConfiguredCorrect`
(`Configured`, from `SetupInv`: the register of the barometer at each place of
its setup, as long as no transfer failed, and that from the reset to the last
setting there is no measurement), and `FreshCorrect` (`PressureFresh`: the
producer runs only after that).

Every invariant of a passing run is now a theorem. Checked by TLC only: the
liveness properties (`ImplementsFairFifo`, `CallReturns`, `TaskEnds`, `Samples`,
`Benchmarks`, `BodyEnds`, `InterruptEnds`, `PressServed`), because fairness and
`ENABLED` are outside the prover; and the four violations.

## 5. Not modelled

- Floating point: the `XenoJetBench` formulas with `xlog`, `expo`, `fpow` and
  `power`, and the compensation of the BMP280. TLC has integers only, and these
  functions keep no state.
- Functions of the drivers that nobody calls (`BMP280_GetStatus`,
  `BMP280_Read_UT`, `BMP280_Read_UP`, the integer compensation).
- The branches for `USE_DEFERR` 0, and measurement code under `COUNT`.
- Soft timers, the other IPC objects of the kernel, and its other services:
  the application does not use them.
- SPI transfers that fail (the FLASH driver looks at no result), and the lock of
  the I2C bus, which is not contended for.
- `rt-thread/components/` (but for `rt_spi_transfer_message`), `drivers/`, `libraries/`, `cubemx/`, `packages/`:
  vendored or generated. They are nearly all of the repository's lines; the
  application's own code is `applications/` and `peripherals/`, some 3100 lines,
  and of what those call in the kernel the parts with state are modelled.

`hazards` in `PROJECT.json` says for each what could go wrong there.

## 6. Plan

Done: server, driver, storage, threads, timers, records, boot, and the proofs
above. What is left:

1. `TypeOK` of `Storage`, `FlashDriver`, `Boot` and `Codec` as theorems, where
   the proofs so far needed only parts of it.
2. What the liveness properties rest on and the prover can reach: for `Timer`
   that an interrupt takes each due timer out of the list, for `Storage` that
   every task has a step that leads on (no state without a successor).
3. The bridge between modules: that a body in `Deferrable` is what
   `Application` and `Storage` describe in detail.
