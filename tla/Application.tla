---------------------------- MODULE Application -----------------------------
(***************************************************************************)
(* The threads of applications/procedure.c and XenoJetBench.c: the         *)
(* producer, which samples the sensors; the consumer, which runs the       *)
(* benchmark on the samples, a point at a time, as a chain of four threads *)
(* of higher priority; and the server, seen as the bodies it runs.  They   *)
(* share the samples under raw_mutex and the results under bench_mutex.    *)
(*                                                                         *)
(* A sample is the sweep it was taken in, and what is computed from a      *)
(* point is its index: the numbers do not matter here, where they come     *)
(* from does.                                                              *)
(*                                                                         *)
(* The server sleeps after each body, and its capacity timer begins anew   *)
(* with the next: if it finds more work the timer runs on, which is the    *)
(* same but for the times at which it can run out.  The lock of the I2C    *)
(* bus, which only the producer takes once main has ended, is left out:    *)
(* its release can do no more than end early what a server that the timer  *)
(* has put above the producer lends it, and no other thread is above it.   *)
(***************************************************************************)
EXTENDS Kernel

CONSTANTS
    producer, consumer, server, \* threads
    stage,                      \* the four threads of the benchmark, in their order
    raw_mutex, bench_mutex,
    PriorityByte,               \* priorities the capacity timer may give to the server
    NumReadings,                \* NUM_READINGS
    Sweeps                      \* sweeps of the producer are told apart modulo Sweeps

Index == 0..(NumReadings - 1)
Sweep == 0..(Sweeps - 1)
Last == Len(stage)
Stage == {stage[k] : k \in 1..Last}
Point == [u0d : Sweep, altd : Sweep, throtl : Sweep]

ASSUME ApplicationAssumption ==
    /\ NumReadings \in Nat \ {0} /\ Sweeps \in Nat \ {0} /\ Last \in Nat \ {0}
    /\ Thread = {producer, consumer, server} \cup Stage
    /\ Mutex = {raw_mutex, bench_mutex} /\ raw_mutex # bench_mutex
    /\ PriorityByte \subseteq Nat

(* The threads are different, and the benchmark has priority over the      *)
(* consumer that starts it.                                                *)
ASSUME ThreadAssumption ==
    /\ producer # consumer /\ producer # server /\ consumer # server
    /\ Stage \cap {producer, consumer, server} = {}
    /\ \A j, k \in 1..Last : stage[j] = stage[k] => j = k
    /\ \A t \in Stage : InitPriority[t] < InitPriority[consumer]

VARIABLES
    pc,             \* where each thread is
    curr_read,      \* the index of the producer
    sweep,          \* history: the sweep it is at
    acc_v, gyro_v, baro_v,
    i,              \* the index of the consumer
    in,             \* u0d, altd, throtl
    point,          \* history: the index they are of
    out,            \* what each stage has computed, as the index it comes from
    results,        \* results[0..2] and results[3..13], as the indices they come from
    job,            \* the body the server runs: its mutex, and write or read; NoJob if none
    w,              \* the index of write_raw_mem_async
    rec,            \* the parts of the record it makes
    tim_capacity,   \* does the capacity timer run?
    bus,            \* original_priority of the lock of the SPI bus, 255 when it is free
    late            \* does the server run on at a priority it has no longer?

samples == <<curr_read, sweep, acc_v, gyro_v, baro_v>>
points  == <<i, in, point, out, results>>
records == <<job, w, rec>>
budget  == <<tim_capacity, bus, late>>
vars    == <<kvars, pc, samples, points, records, budget>>

NoPoint == [u0d |-> 0, altd |-> 0, throtl |-> 0]

ProducerPC == {"take", "acc", "gyro", "baro", "delay", "release", "rest"}
ConsumerPC == {"rest", "take", "u0d", "altd", "throtl", "release", "create", "start",
               "takebench", "inputs", "outputs", "releasebench"}
ServerPC   == {"idle", "begin", "erase", "erasing", "take", "acc", "gyro", "baro", "inputs",
               "outputs", "transfer", "transferring", "release", "suspend"}

TypeOK ==
    /\ KernelTypeOK
    /\ pc \in [Thread -> ProducerPC \cup ConsumerPC \cup ServerPC \cup {"run", "exit"}]
    /\ curr_read \in Index /\ i \in Index /\ w \in Index
    /\ sweep \in Sweep
    /\ {acc_v, gyro_v, baro_v} \subseteq [Index -> Sweep]
    /\ in \in Point
    /\ point \in Index
    /\ out \in [1..Last -> Index]
    /\ results \in [in : Index, out : Index]
    /\ job \in [m : Mutex, write : BOOLEAN]
    /\ rec \in [acc : Sweep, gyro : Sweep, baro : Sweep, in : Index, out : Index]
    /\ tim_capacity \in BOOLEAN /\ late \in BOOLEAN /\ bus \in Nat

NoRec == [acc |-> 0, gyro |-> 0, baro |-> 0, in |-> 0, out |-> 0]
NoJob == [m |-> raw_mutex, write |-> FALSE]

(* The static initialisers; the consumer begins with a delay.  What the    *)
(* arrays hold at first counts as a sweep before the first.                *)
Init ==
    /\ KernelInit({producer, consumer}, {server})
    /\ pc = [t \in Thread |-> CASE t = producer -> "take"
                                [] t = consumer -> "rest"
                                [] t = server   -> "idle"
                                [] OTHER        -> "run"]
    /\ curr_read = 0 /\ sweep = 0
    /\ acc_v = [k \in Index |-> Sweeps - 1] /\ gyro_v = acc_v /\ baro_v = acc_v
    /\ i = 0 /\ in = NoPoint /\ point = 0
    /\ out = [k \in 1..Last |-> 0]
    /\ results = [in |-> 0, out |-> 0]
    /\ job = NoJob /\ w = 0 /\ rec = NoRec
    /\ tim_capacity = FALSE /\ bus = 255 /\ late = FALSE

(* rt_thread_control changes a priority without rt_schedule: the server    *)
(* runs on until something calls it.                                       *)
Runs(t) == IF late THEN t = server /\ stat[t] = "READY" ELSE rt_schedule(t)

(* Thread t has the processor, is at from, and goes on to to. *)
Step(t, from, to) == Runs(t) /\ pc[t] = from /\ pc' = [pc EXCEPT ![t] = to]

-----------------------------------------------------------------------------
(***************************************************************************)
(* producer_entry: one reading of the sensors for each index, then a delay *)
(* of 201 s.  The mutex is held over the delay of 10 ms of each reading.   *)
(***************************************************************************)
ProducerTake ==
    /\ Step(producer, "take", "acc")
    /\ rt_mutex_take(producer, raw_mutex)
    /\ UNCHANGED <<samples, points, records, budget>>

ProducerAcc ==
    /\ Step(producer, "acc", "gyro")
    /\ acc_v' = [acc_v EXCEPT ![curr_read] = sweep]
    /\ UNCHANGED <<kvars, curr_read, sweep, gyro_v, baro_v, points, records, budget>>

ProducerGyro ==
    /\ Step(producer, "gyro", "baro")
    /\ gyro_v' = [gyro_v EXCEPT ![curr_read] = sweep]
    /\ UNCHANGED <<kvars, curr_read, sweep, acc_v, baro_v, points, records, budget>>

(* BMP280_Read_UTP may have no temperature or no pressure (0x80000): the   *)
(* element keeps the pressure of an earlier sweep.                         *)
ProducerBaro(data) ==
    /\ Step(producer, "baro", "delay")
    /\ baro_v' = IF data THEN [baro_v EXCEPT ![curr_read] = sweep] ELSE baro_v
    /\ UNCHANGED <<kvars, curr_read, sweep, acc_v, gyro_v, points, records, budget>>

ProducerDelay ==
    /\ Step(producer, "delay", "release")
    /\ rt_thread_mdelay(producer)
    /\ UNCHANGED <<samples, points, records, budget>>

ProducerRelease ==
    /\ Step(producer, "release", IF curr_read < NumReadings - 1 THEN "take" ELSE "rest")
    /\ rt_mutex_release(producer, raw_mutex)
    /\ curr_read' = (curr_read + 1) % NumReadings
    /\ UNCHANGED <<sweep, acc_v, gyro_v, baro_v, points, records, budget>>

ProducerRest ==
    /\ Step(producer, "rest", "take")
    /\ rt_thread_mdelay(producer)
    /\ sweep' = (sweep + 1) % Sweeps
    /\ UNCHANGED <<curr_read, acc_v, gyro_v, baro_v, points, records, budget>>

Producer == \/ ProducerTake \/ ProducerAcc \/ ProducerGyro
            \/ \E data \in BOOLEAN : ProducerBaro(data)
            \/ ProducerDelay \/ ProducerRelease \/ ProducerRest

-----------------------------------------------------------------------------
(***************************************************************************)
(* consumer_entry and init_xeno: one point for each index, then a delay of *)
(* 6 s.                                                                    *)
(***************************************************************************)
ConsumerRest ==
    /\ Step(consumer, "rest", "take")
    /\ rt_thread_mdelay(consumer)
    /\ UNCHANGED <<samples, points, records, budget>>

ConsumerTakesNothing ==         \* copies the samples without the mutex
    /\ Step(consumer, "take", "u0d")
    /\ UNCHANGED <<kvars, samples, points, records, budget>>

ConsumerTake ==
    /\ Step(consumer, "take", "u0d")
    /\ rt_mutex_take(consumer, raw_mutex)
    /\ UNCHANGED <<samples, points, records, budget>>

Copy(from, to, value) ==
    /\ Step(consumer, from, to)
    /\ in' = value
    /\ point' = i
    /\ UNCHANGED <<kvars, samples, i, out, results, records, budget>>

ConsumerCopy ==
    \/ Copy("u0d", "altd", [in EXCEPT !.u0d = acc_v[i]])
    \/ Copy("altd", "throtl", [in EXCEPT !.altd = baro_v[i]])
    \/ Copy("throtl", "release", [in EXCEPT !.throtl = gyro_v[i]])

ConsumerKeepsMutex ==           \* goes on without releasing raw_mutex
    /\ Step(consumer, "release", "create")
    /\ UNCHANGED <<kvars, samples, points, records, budget>>

(* The copies stay as they are until the next point: from here on they     *)
(* are stood for by point, the index they are of.                          *)
ConsumerRelease ==
    /\ Step(consumer, "release", "create")
    /\ rt_mutex_release(consumer, raw_mutex)
    /\ in' = NoPoint
    /\ UNCHANGED <<samples, i, point, out, results, records, budget>>

create_tasks ==
    /\ Step(consumer, "create", "start")
    /\ rt_thread_init(Stage)
    /\ UNCHANGED <<samples, points, records, budget>>

(* rt_thread_startup of the stages in their order: each call is a          *)
(* scheduling point.                                                       *)
start_tasks(k) ==
    /\ stat[stage[k]] = "INIT" /\ \A j \in 1..(k - 1) : stat[stage[j]] # "INIT"
    /\ Runs(consumer) /\ pc[consumer] = "start"
    /\ pc' = [pc EXCEPT ![consumer] = IF k = Last THEN "takebench" ELSE "start",
                        ![stage[k]] = "run"]
    /\ rt_thread_startup(stage[k])
    /\ UNCHANGED <<samples, points, records, budget>>

ConsumerTakeBench ==
    /\ Step(consumer, "takebench", "inputs")
    /\ rt_mutex_take(consumer, bench_mutex)
    /\ UNCHANGED <<samples, points, records, budget>>

ConsumerInputsEarly ==          \* releases bench_mutex half way through
    /\ Step(consumer, "inputs", "outputs")
    /\ results' = [results EXCEPT !.in = point]
    /\ rt_mutex_release(consumer, bench_mutex)
    /\ UNCHANGED <<samples, i, in, point, out, records, budget>>

ConsumerInputs ==
    /\ Step(consumer, "inputs", "outputs")
    /\ results' = [results EXCEPT !.in = point]
    /\ UNCHANGED <<kvars, samples, i, in, point, out, records, budget>>

ConsumerOutputs ==
    /\ Step(consumer, "outputs", "releasebench")
    /\ results' = [results EXCEPT !.out = out[Last]]
    /\ UNCHANGED <<kvars, samples, i, in, point, out, records, budget>>

ConsumerReleaseBench ==
    /\ Step(consumer, "releasebench", IF i < NumReadings - 1 THEN "take" ELSE "rest")
    /\ rt_mutex_release(consumer, bench_mutex)
    /\ i' = (i + 1) % NumReadings
    /\ UNCHANGED <<samples, in, point, out, results, records, budget>>

Consumer == \/ ConsumerRest \/ ConsumerTake \/ ConsumerCopy \/ ConsumerRelease
            \/ create_tasks \/ (\E k \in 1..Last : start_tasks(k))
            \/ ConsumerTakeBench \/ ConsumerInputs \/ ConsumerOutputs
            \/ ConsumerReleaseBench

-----------------------------------------------------------------------------
(***************************************************************************)
(* deduceInputs, getThermo, getGeo, calcPerf: each computes from what the  *)
(* one before has left, the first from the inputs.                         *)
(***************************************************************************)
StageRun(k) ==
    /\ Step(stage[k], "run", "exit")
    /\ out' = [out EXCEPT ![k] = IF k = 1 THEN point ELSE out[k - 1]]
    /\ UNCHANGED <<kvars, samples, i, in, point, results, records, budget>>

StageExit(k) ==
    /\ Step(stage[k], "exit", "run")
    /\ rt_thread_exit(stage[k])
    /\ UNCHANGED <<samples, points, records, budget>>

Stages == \E k \in 1..Last : StageRun(k) \/ StageExit(k)

-----------------------------------------------------------------------------
(***************************************************************************)
(* The server: a press resumes it for one of the four bodies.  Which       *)
(* presses it serves, and in which order, is the subject of Deferrable;    *)
(* what the bodies do with the FLASH, of Storage.                          *)
(***************************************************************************)
Press(m, write) ==
    /\ pc[server] = "idle"
    /\ pc' = [pc EXCEPT ![server] = "begin"]
    /\ job' = [m |-> m, write |-> write]
    /\ rt_thread_resume(server)
    /\ UNCHANGED <<samples, points, w, rec, budget>>

(* rt_timer_start; a write to a full part of the FLASH erases it first.    *)
ServerBegin ==
    /\ \/ Step(server, "begin", "take")
       \/ job.write /\ Step(server, "begin", "erase")
    /\ tim_capacity' = TRUE
    /\ UNCHANGED <<kvars, samples, points, records, bus, late>>

ServerTake ==
    /\ Step(server, "take", IF ~job.write THEN "transfer"
                            ELSE IF job.m = raw_mutex THEN "acc" ELSE "inputs")
    /\ rt_mutex_take(server, job.m)
    /\ late' = (late /\ owner[job.m] = Nobody)
    /\ UNCHANGED <<samples, points, records, tim_capacity, bus>>

Store(from, to, record) ==
    /\ Step(server, from, to)
    /\ rec' = record
    /\ UNCHANGED <<kvars, samples, points, job, w, budget>>

ServerStore ==
    \/ Store("acc", "gyro", [rec EXCEPT !.acc = acc_v[w]])
    \/ Store("gyro", "baro", [rec EXCEPT !.gyro = gyro_v[w]])
    \/ Store("baro", "transfer", [rec EXCEPT !.baro = baro_v[w]])
    \/ Store("inputs", "outputs", [rec EXCEPT !.in = results.in])
    \/ Store("outputs", "transfer", [rec EXCEPT !.out = results.out])

(* w25q64_control makes several transfers.  Each takes the lock of the SPI *)
(* bus, a mutex nobody else uses, and its release restores the priority    *)
(* the server had: also if that was changed meanwhile.                     *)
BusTake ==
    /\ \/ Step(server, "erase", "erasing")
       \/ Step(server, "transfer", "transferring")
    /\ bus' = prio[server]
    /\ UNCHANGED <<kvars, samples, points, records, tim_capacity, late>>

(* Is a thread of higher priority than the server ready? *)
Overtaken == \E u \in Thread : stat[u] = "READY" /\ prio[u] < prio[server]

BusRelease(last) ==
    /\ \/ Step(server, "erasing", IF last THEN "take" ELSE "erase")
       \/ Step(server, "transferring", IF last THEN "release" ELSE "transfer")
    /\ rt_thread_control(server, bus)
    /\ bus' = 255 /\ late' = Overtaken'
    /\ UNCHANGED <<samples, points, records, tim_capacity>>

(* The record is in the FLASH, and the arrays that held it are not looked  *)
(* at again.  Without a waiting thread the release does not schedule.      *)
ServerRelease ==
    /\ Step(server, "release", "suspend")
    /\ rt_mutex_release(server, job.m)
    /\ late' = (waiters[job.m] = <<>> /\ Overtaken')
    /\ w' = IF job = [m |-> raw_mutex, write |-> TRUE] THEN (w + 1) % NumReadings ELSE w
    /\ rec' = NoRec
    /\ UNCHANGED <<samples, points, job, tim_capacity, bus>>

(* rt_timer_stop, rt_thread_suspend, rt_schedule. *)
ServerSuspend ==
    /\ Step(server, "suspend", "idle")
    /\ rt_thread_suspend(server)
    /\ job' = NoJob
    /\ tim_capacity' = FALSE /\ late' = FALSE
    /\ UNCHANGED <<samples, points, w, rec, bus>>

Server == \/ ServerBegin \/ ServerTake \/ ServerStore
          \/ BusTake \/ (\E last \in BOOLEAN : BusRelease(last))
          \/ ServerRelease \/ ServerSuspend

-----------------------------------------------------------------------------
(***************************************************************************)
(* The tick interrupt.  rt_thread_timeout wakes a thread whose delay is    *)
(* over, and schedules; so does the end of a timeslice.                    *)
(***************************************************************************)
Tick(t) ==
    /\ rt_thread_timeout(t)
    /\ late' = FALSE
    /\ UNCHANGED <<pc, samples, points, records, tim_capacity, bus>>

rt_thread_yield ==
    /\ late /\ late' = FALSE
    /\ UNCHANGED <<kvars, pc, samples, points, records, tim_capacity, bus>>

(* rt_timer_deferrable_capacity: the server gets the priority p, the byte  *)
(* at the address RT_THREAD_PRIORITY_MAX - 1.  If it has the processor it  *)
(* keeps it.                                                               *)
rt_timer_deferrable_capacity(p) ==
    /\ tim_capacity /\ tim_capacity' = FALSE
    /\ rt_thread_control(server, p)
    /\ IF Runs(server) THEN late' \in {FALSE, Overtaken'} ELSE UNCHANGED late
    /\ UNCHANGED <<pc, samples, points, records, bus>>

Next == \/ Producer \/ Consumer \/ Stages \/ Server
        \/ \E m \in Mutex, write \in BOOLEAN : Press(m, write)
        \/ (\E t \in Thread : Tick(t)) \/ rt_thread_yield
        \/ \E p \in PriorityByte : rt_timer_deferrable_capacity(p)

Spec == Init /\ [][Next]_vars

(* Delays and timeslices end.  A thread that has the processor again and   *)
(* again goes on: the threads of higher priority spend most of their time  *)
(* in delays, presses leave the others time even if the server has been    *)
(* given the highest priority, and threads of one priority share the       *)
(* processor by timeslices.  A call of w25q64_control makes finitely many  *)
(* transfers.  The capacity may run out or not.                            *)
FairSpec ==
    /\ Spec
    /\ \A t \in Thread : WF_vars(Tick(t))
    /\ WF_vars(rt_thread_yield)
    /\ SF_vars(BusRelease(TRUE))
    /\ SF_vars(Producer) /\ SF_vars(Consumer) /\ SF_vars(Server) /\ SF_vars(Stages)

-----------------------------------------------------------------------------
(* A point of the consumer, and a record of write_raw_mem_async, are one   *)
(* reading of the sensors: the mutex covers the three stores of the        *)
(* producer and the three copies.  So when the mutex is to be released the *)
(* copies are what the arrays hold, and the accelerometer and the          *)
(* gyroscope are of the same sweep; the pressure is too, unless that       *)
(* reading had none.                                                       *)
SampleWhole ==
    /\ pc[consumer] = "release" =>
          /\ in = [u0d |-> acc_v[point], altd |-> baro_v[point], throtl |-> gyro_v[point]]
          /\ in.u0d = in.throtl
    /\ pc[server] = "transferring" /\ job = [m |-> raw_mutex, write |-> TRUE] =>
          /\ rec.acc = acc_v[w] /\ rec.gyro = gyro_v[w] /\ rec.baro = baro_v[w]
          /\ rec.acc = rec.gyro

(* The results published for a point were computed from its inputs by all  *)
(* the stages in their order: start_tasks waits for none of them, and      *)
(* relies on their priorities.                                             *)
PointComplete == pc[consumer] = "releasebench" => results = [in |-> i, out |-> i]

(* A record of write_bench_mem_async holds the results of one point.       *)
RecordWhole ==
    pc[server] = "transferring" /\ job = [m |-> bench_mutex, write |-> TRUE] => rec.in = rec.out

(* create_tasks initialises the stages again only when they have ended:    *)
(* it would overwrite the stack and the list links of a live thread.       *)
StagesClosed == pc[consumer] = "create" => \A t \in Stage : stat[t] = "CLOSE"

(* A loan of priority ends with the mutex it was made for: a thread that   *)
(* owns none has the priority it was created with.  The server may have    *)
(* one that the capacity timer gave it instead, also when the timer ran    *)
(* out inside rt_mutex_take or during a transfer, where a release saves or *)
(* restores priorities; but never one that a waiting thread lent it.       *)
Own(t) == {InitPriority[t]} \cup (IF t = server THEN PriorityByte ELSE {})
LoansReturned == \A t \in Thread : (\A m \in Mutex : owner[m] # t) => prio[t] \in Own(t)

(* Who waits for a mutex waits for a thread that waits for none: there is  *)
(* no circle of threads that wait for each other.                          *)
NoChain ==
    \A m, n \in Mutex : \A k \in 1..Len(waiters[m]), j \in 1..Len(waiters[n]) :
        owner[m] # Nobody /\ owner[m] # waiters[n][j]

(* The producer goes on sampling, and the consumer goes on from point to   *)
(* point and from benchmark to benchmark.                                  *)
Samples == []<>(pc[producer] = "rest")
Benchmarks == []<>(pc[consumer] = "rest")

(* Every body the server begins ends. *)
BodyEnds == (pc[server] = "begin") ~> (pc[server] = "idle")
=============================================================================
