------------------------- MODULE ApplicationProofs --------------------------
(***************************************************************************)
(* Proofs about the threads of the application, for any number of samples, *)
(* any number of stages and any priorities in which the stages come before *)
(* the consumer.                                                           *)
(***************************************************************************)
EXTENDS Application, TLAPS

PC == ProducerPC \cup ConsumerPC \cup ServerPC \cup {"run", "exit"}

LEMMA ThreadFacts ==
    /\ producer \in Thread /\ consumer \in Thread /\ server \in Thread
    /\ raw_mutex \in Mutex /\ bench_mutex \in Mutex
    /\ \A k \in 1..Last : stage[k] \in Stage
    /\ Stage \subseteq Thread
    /\ Last \in Nat \ {0} /\ Last \in 1..Last
BY ApplicationAssumption DEF Stage

(* A counter that wraps around stays an index of its array. *)
LEMMA Wrap ==
    ASSUME NEW n \in Nat \ {0}, NEW x \in 0..(n - 1)
    PROVE  (x + 1) % n \in 0..(n - 1)
OBVIOUS

-----------------------------------------------------------------------------
(***************************************************************************)
(* Types.                                                                  *)
(***************************************************************************)
LEMMA StepType ==
    ASSUME TypeOK, NEW t \in Thread, NEW from, NEW to \in PC, Step(t, from, to)
    PROVE  /\ pc' \in [Thread -> PC]
           /\ pc[t] = from /\ pc'[t] = to
           /\ \A u \in Thread \ {t} : pc'[u] = pc[u]
           /\ stat[t] = "READY"
BY DEF TypeOK, Step, Runs, PC, rt_schedule

(* Each operation of the kernel keeps the types of its variables. *)
LEMMA TakeType ==
    ASSUME KernelTypeOK, NEW t \in Thread, NEW m \in Mutex, rt_mutex_take(t, m)
    PROVE  KernelTypeOK'
<1>1. CASE owner[m] = Nobody
  BY <1>1 DEF KernelTypeOK, rt_mutex_take
<1>2. CASE owner[m] # Nobody
  <2>1. owner[m] \in Thread /\ prio[t] \in Nat /\ Append(waiters[m], t) \in Seq(Thread)
    BY <1>2 DEF KernelTypeOK
  <2>2. prio' \in [Thread -> Nat]
    BY <1>2, <2>1 DEF KernelTypeOK, rt_mutex_take
  <2>3. waiters' \in [Mutex -> Seq(Thread)]
    BY <1>2, <2>1 DEF KernelTypeOK, rt_mutex_take
  <2>4. stat' \in [Thread -> {"INIT", "READY", "SUSPEND", "CLOSE"}]
    BY <1>2 DEF KernelTypeOK, rt_mutex_take
  <2> QED BY <1>2, <2>2, <2>3, <2>4 DEF KernelTypeOK, rt_mutex_take
<1> QED BY <1>1, <1>2

LEMMA ReleaseType ==
    ASSUME KernelTypeOK, NEW t \in Thread, NEW m \in Mutex, rt_mutex_release(t, m)
    PROVE  KernelTypeOK'
<1>1. CASE owner[m] # t
  BY <1>1 DEF KernelTypeOK, rt_mutex_release, kvars
<1>2. CASE owner[m] = t /\ waiters[m] = <<>>
  <2>1. prio' \in [Thread -> Nat]
    BY <1>2 DEF KernelTypeOK, rt_mutex_release
  <2>2. owner' = [owner EXCEPT ![m] = Nobody] /\ orig' = [orig EXCEPT ![m] = 255]
    BY <1>2 DEF rt_mutex_release
  <2>3. owner' \in [Mutex -> Thread \cup {Nobody}]
    BY <2>2 DEF KernelTypeOK
  <2>4. orig' \in [Mutex -> Nat]
    BY <2>2 DEF KernelTypeOK
  <2>5. UNCHANGED <<stat, timer, waiters>>
    BY <1>2 DEF rt_mutex_release
  <2> QED BY <2>1, <2>3, <2>4, <2>5 DEF KernelTypeOK
<1>3. CASE owner[m] = t /\ waiters[m] # <<>>
  <2>1. Head(waiters[m]) \in Thread /\ Tail(waiters[m]) \in Seq(Thread)
    BY <1>3 DEF KernelTypeOK
  <2> QED BY <1>3, <2>1 DEF KernelTypeOK, rt_mutex_release
<1> QED BY <1>1, <1>2, <1>3

DataType ==
    /\ curr_read \in Index /\ i \in Index /\ w \in Index
    /\ sweep \in Sweep
    /\ {acc_v, gyro_v, baro_v} \subseteq [Index -> Sweep]
    /\ in \in Point
    /\ point \in Index
    /\ out \in [1..Last -> Index]
    /\ results \in [in : Index, out : Index]
    /\ job \in [m : Mutex, write : BOOLEAN]
    /\ rec \in [acc : Sweep, gyro : Sweep, baro : Sweep, in : Index, out : Index]
    /\ tim_capacity \in BOOLEAN /\ late \in BOOLEAN /\ bus \in Nat

LEMMA TypeParts == TypeOK <=> KernelTypeOK /\ pc \in [Thread -> PC] /\ DataType
BY DEF TypeOK, PC, DataType

(* What the tick interrupt does. *)
Interrupt == \/ (\E t \in Thread : Tick(t)) \/ rt_thread_yield
             \/ \E p \in PriorityByte : rt_timer_deferrable_capacity(p)

(* No thread leaves its program. *)
LEMMA PcNext == TypeOK /\ [Next]_vars => pc' \in [Thread -> PC]
<1> SUFFICES ASSUME TypeOK, [Next]_vars PROVE pc' \in [Thread -> PC]
  OBVIOUS
<1> USE ThreadFacts DEF Step, PC, ProducerPC, ConsumerPC, ServerPC
<1>1. pc \in [Thread -> PC]
  BY DEF TypeOK
<1>2. CASE Producer
  BY <1>1, <1>2 DEF Producer, ProducerTake, ProducerAcc, ProducerGyro, ProducerBaro, ProducerDelay,
                    ProducerRelease, ProducerRest
<1>3. CASE Consumer
  <2>1. CASE \E k \in 1..Last : start_tasks(k)
    BY <1>1, <2>1 DEF start_tasks
  <2> QED BY <1>1, <1>3, <2>1 DEF Consumer, ConsumerRest, ConsumerTake, ConsumerCopy, Copy, ConsumerRelease,
                    create_tasks, ConsumerTakeBench, ConsumerInputs, ConsumerOutputs,
                    ConsumerReleaseBench
<1>4. CASE Stages
  BY <1>1, <1>4 DEF Stages, StageRun, StageExit
<1>5. CASE Server
  BY <1>1, <1>5 DEF Server, ServerBegin, ServerTake, ServerStore, Store, BusTake, BusRelease,
                    ServerRelease, ServerSuspend
<1>6. CASE \E m \in Mutex, write \in BOOLEAN : Press(m, write)
  BY <1>1, <1>6 DEF Press
<1>7. CASE Interrupt \/ UNCHANGED vars
  BY <1>1, <1>7 DEF Interrupt, Tick, rt_thread_yield, rt_timer_deferrable_capacity, vars
<1> QED BY <1>2, <1>3, <1>4, <1>5, <1>6, <1>7 DEF Next, Interrupt

(* What the steps of the others leave alone. *)
LEMMA Frames ==
    ASSUME TypeOK, [Next]_vars
    PROVE  /\ Producer \/ (pc'[producer] = pc[producer] /\ UNCHANGED samples)
           /\ \/ Consumer
              \/ (pc'[consumer] = pc[consumer] /\ UNCHANGED <<i, in, point, results>>)
           /\ \/ Server \/ (\E m \in Mutex, write \in BOOLEAN : Press(m, write))
              \/ (pc'[server] = pc[server] /\ UNCHANGED <<records, bus>>)
           /\ Stages \/ UNCHANGED out
<1> USE ThreadFacts, ThreadAssumption DEF Step
<1>1. pc \in [Thread -> PC]
  BY TypeParts
<1>2. CASE Producer
  BY <1>1, <1>2 DEF Producer, ProducerTake, ProducerAcc, ProducerGyro, ProducerBaro, ProducerDelay,
                    ProducerRelease, ProducerRest, points, records, budget
<1>3. CASE Consumer
  <2>1. CASE \E k \in 1..Last : start_tasks(k)
    <3>1. PICK k \in 1..Last : start_tasks(k)
      BY <2>1
    <3>2. stage[k] \in Stage /\ stage[k] \notin {producer, server}
      OBVIOUS
    <3> QED BY <1>1, <1>3, <3>1, <3>2 DEF start_tasks, samples, points, records, budget
  <2> QED BY <1>1, <1>3, <2>1 DEF Consumer, ConsumerRest, ConsumerTake, ConsumerCopy, Copy, ConsumerRelease,
                    create_tasks, ConsumerTakeBench, ConsumerInputs, ConsumerOutputs,
                    ConsumerReleaseBench, samples, points, records, budget
<1>4. ASSUME NEW k \in 1..Last, StageRun(k) \/ StageExit(k)
      PROVE  /\ pc'[producer] = pc[producer] /\ pc'[consumer] = pc[consumer] /\ pc'[server] = pc[server]
             /\ UNCHANGED <<samples, i, in, point, results, records, bus>>
  <2>1. stage[k] \in Stage /\ stage[k] \notin {producer, consumer, server}
    OBVIOUS
  <2> QED BY <1>1, <1>4, <2>1 DEF StageRun, StageExit, samples, points, records, budget
<1>5. CASE Server
  BY <1>1, <1>5 DEF Server, ServerBegin, ServerTake, ServerStore, Store, BusTake, BusRelease,
                    ServerRelease, ServerSuspend, samples, points
<1>6. CASE \E m \in Mutex, write \in BOOLEAN : Press(m, write)
  BY <1>1, <1>6 DEF Press, samples, points
<1>7. CASE Interrupt \/ UNCHANGED vars
  BY <1>1, <1>7 DEF Interrupt, Tick, rt_thread_yield, rt_timer_deferrable_capacity, vars, samples,
                    points, records, budget
<1> QED BY <1>2, <1>3, <1>4, <1>5, <1>6, <1>7 DEF Next, Interrupt, Stages

(* The indices stay within the arrays. *)
LEMMA DataNext == TypeOK /\ [Next]_vars => DataType'
<1> SUFFICES ASSUME TypeOK, [Next]_vars PROVE DataType'
  OBVIOUS
<1> USE ThreadFacts
<1>1. DataType
  BY TypeParts
<1>2. \A x \in Index : (x + 1) % NumReadings \in Index
  BY Wrap, ApplicationAssumption DEF Index
<1>3. (sweep + 1) % Sweeps \in Sweep
  BY <1>1, Wrap, ApplicationAssumption DEF DataType, Sweep
<1>4. 0 \in Index /\ 0 \in Sweep
  BY ApplicationAssumption DEF Index, Sweep
<1>5. CASE Producer
  <2> USE <1>1, <1>2, <1>3 DEF DataType
  <2>1. CASE ProducerTake \/ ProducerDelay
    BY <2>1 DEF ProducerTake, ProducerDelay, samples, points, records, budget
  <2>2. CASE ProducerAcc
    BY <2>2 DEF ProducerAcc, points, records, budget
  <2>3. CASE ProducerGyro
    BY <2>3 DEF ProducerGyro, points, records, budget
  <2>4. ASSUME NEW data \in BOOLEAN, ProducerBaro(data) PROVE DataType'
    BY <2>4 DEF ProducerBaro, points, records, budget
  <2>5. CASE ProducerRelease \/ ProducerRest
    BY <2>5 DEF ProducerRelease, ProducerRest, points, records, budget
  <2> QED BY <1>5, <2>1, <2>2, <2>3, <2>4, <2>5 DEF Producer
<1>6. CASE Consumer
  <2> USE <1>1, <1>2, <1>4 DEF DataType
  <2>1. CASE \/ ConsumerRest \/ ConsumerTake \/ create_tasks
             \/ (\E k \in 1..Last : start_tasks(k)) \/ ConsumerTakeBench
    BY <2>1 DEF ConsumerRest, ConsumerTake, create_tasks, start_tasks,
                ConsumerTakeBench, samples, points, records, budget
  <2>2. CASE ConsumerCopy
    BY <2>2 DEF ConsumerCopy, Copy, Point, samples, records, budget
  <2>3. CASE ConsumerInputs \/ ConsumerOutputs
    BY <2>3 DEF ConsumerInputs, ConsumerOutputs, samples, records, budget
  <2>4. CASE ConsumerReleaseBench
    BY <2>4 DEF ConsumerReleaseBench, samples, records, budget
  <2>5. CASE ConsumerRelease
    BY <2>5 DEF ConsumerRelease, NoPoint, Point, samples, records, budget
  <2> QED BY <1>6, <2>1, <2>2, <2>3, <2>4, <2>5 DEF Consumer
<1>7. CASE Stages
  <2>1. ASSUME NEW k \in 1..Last, StageRun(k) PROVE DataType'
    <3>1. k # 1 => k - 1 \in 1..Last
      OBVIOUS
    <3>2. out' \in [1..Last -> Index]
      BY <1>1, <2>1, <3>1 DEF StageRun, DataType
    <3> QED BY <1>1, <2>1, <3>2 DEF StageRun, DataType, samples, records, budget
  <2>2. ASSUME NEW k \in 1..Last, StageExit(k) PROVE DataType'
    BY <1>1, <2>2 DEF StageExit, DataType, samples, points, records, budget
  <2> QED BY <1>7, <2>1, <2>2 DEF Stages
<1>8. CASE Server
  <2> USE <1>1, <1>2, <1>4 DEF DataType
  <2>1. CASE ServerTake
    <3>1. late' \in BOOLEAN
      BY <2>1 DEF ServerTake
    <3> QED BY <2>1, <3>1 DEF ServerTake, samples, points, records
  <2>2. CASE ServerStore
    BY <2>2 DEF ServerStore, Store, samples, points, budget
  <2>3. CASE ServerRelease
    BY <2>3 DEF ServerRelease, NoRec, samples, points
  <2>4. CASE ServerSuspend
    BY <2>4 DEF ServerSuspend, NoJob, samples, points
  <2>5. CASE BusTake
    BY <2>5 DEF BusTake, KernelTypeOK, TypeOK, samples, points, records
  <2>6. ASSUME NEW last \in BOOLEAN, BusRelease(last) PROVE DataType'
    <3>1. late' \in BOOLEAN /\ bus' \in Nat
      BY <2>6 DEF BusRelease, Overtaken
    <3> QED BY <2>6, <3>1 DEF BusRelease, samples, points, records
  <2>7. CASE ServerBegin
    BY <2>7 DEF ServerBegin, samples, points, records
  <2> QED BY <1>8, <2>1, <2>2, <2>3, <2>4, <2>5, <2>6, <2>7 DEF Server
<1>9. CASE \E m \in Mutex, write \in BOOLEAN : Press(m, write)
  BY <1>1, <1>9 DEF Press, DataType, samples, points, budget
<1>10. CASE Interrupt
  <2>1. CASE (\E t \in Thread : Tick(t)) \/ rt_thread_yield
    BY <1>1, <2>1 DEF Tick, rt_thread_yield, DataType, samples, points, records
  <2>2. ASSUME NEW p \in PriorityByte, rt_timer_deferrable_capacity(p) PROVE DataType'
    <3>1. late' \in BOOLEAN
      BY <1>1, <2>2 DEF rt_timer_deferrable_capacity, DataType, Overtaken
    <3> QED BY <1>1, <2>2, <3>1 DEF rt_timer_deferrable_capacity, DataType, samples, points, records
  <2> QED BY <1>10, <2>1, <2>2 DEF Interrupt
<1>11. CASE UNCHANGED vars
  BY <1>1, <1>11 DEF vars, DataType, samples, points, records, budget
<1> QED BY <1>5, <1>6, <1>7, <1>8, <1>9, <1>10, <1>11 DEF Next, Interrupt

-----------------------------------------------------------------------------
(***************************************************************************)
(* The mutexes.  A thread is in the critical section of one mutex at most, *)
(* and where it is says of which: NeedsAt for a thread at a place of its   *)
(* program, given the mutex of the body that the server runs.              *)
(***************************************************************************)
ServerHolds == {"acc", "gyro", "baro", "inputs", "outputs", "transfer", "transferring", "release"}

NeedsAt(t, at, m) ==
    CASE t = producer /\ at \in {"acc", "gyro", "baro", "delay", "release"} -> raw_mutex
      [] t = consumer /\ at \in {"u0d", "altd", "throtl", "release"}        -> raw_mutex
      [] t = consumer /\ at \in {"inputs", "outputs", "releasebench"}       -> bench_mutex
      [] t = server /\ at \in ServerHolds                                     -> m
      [] OTHER -> Nobody

Needs(t) == NeedsAt(t, pc[t], job.m)

(* Every other thread needs what it did. *)
Keeps(t) == \A u \in Thread \ {t} : Needs(u)' = Needs(u)

(* What a step is for the kernel. *)
Enters(t, m) == /\ rt_mutex_take(t, m) /\ stat[t] = "READY"
                /\ Needs(t) = Nobody /\ Needs(t)' = m /\ Keeps(t)
Leaves(t, m) == /\ rt_mutex_release(t, m) /\ stat[t] = "READY"
                /\ Needs(t) = m /\ Needs(t)' = Nobody /\ Keeps(t)
Changes(t)   == /\ \/ rt_thread_startup(t) \/ rt_thread_exit(t)
                   \/ rt_thread_suspend(t) \/ rt_thread_resume(t)
                /\ t \in Stage \cup {server}
                /\ Needs(t) = Nobody /\ Needs(t)' = Nobody /\ Keeps(t)
Stays        == /\ \/ UNCHANGED kvars
                   \/ \E t \in Thread : rt_thread_timeout(t)
                   \/ rt_thread_init(Stage)
                   \/ \E t \in {producer, consumer} : rt_thread_mdelay(t) /\ stat[t] = "READY"
                /\ \A t \in Thread : Needs(t)' = Needs(t)

Sets(p)      == /\ rt_thread_control(server, p) /\ p \in Nat
                /\ \/ p \in Own(server)
                   \/ /\ p = bus /\ stat[server] = "READY"
                      /\ pc[server] \in {"erasing", "transferring"}
                /\ \A t \in Thread : Needs(t)' = Needs(t)

KernelStep == \/ \E t \in Thread, m \in Mutex : Enters(t, m) \/ Leaves(t, m)
              \/ \E t \in Thread : Changes(t)
              \/ \E p \in Nat : Sets(p)
              \/ Stays

LEMMA NeedsFacts ==
    ASSUME NEW at, NEW m
    PROVE  /\ NeedsAt(producer, at, m) = IF at \in {"acc", "gyro", "baro", "delay", "release"}
                                         THEN raw_mutex ELSE Nobody
           /\ NeedsAt(consumer, at, m) = IF at \in {"u0d", "altd", "throtl", "release"} THEN raw_mutex
                                         ELSE IF at \in {"inputs", "outputs", "releasebench"}
                                         THEN bench_mutex ELSE Nobody
           /\ NeedsAt(server, at, m) = IF at \in ServerHolds THEN m ELSE Nobody
           /\ \A t \in Stage : NeedsAt(t, at, m) = Nobody
BY ThreadAssumption DEF NeedsAt

LEMMA StageNeeds == \A t \in Stage : Needs(t) = Nobody
BY NeedsFacts DEF Needs

(* Only what the server needs depends on the body it runs.                 *)
LEMMA KeepsFacts ==
    ASSUME NEW t \in Thread, \A u \in Thread \ {t} : pc'[u] = pc[u], t = server \/ job' = job
    PROVE  Keeps(t)
<1>1. ASSUME NEW u \in Thread \ {t}
      PROVE NeedsAt(u, pc[u], job'.m) = NeedsAt(u, pc[u], job.m)
  <2>1. CASE u = server
    BY <2>1
  <2>2. CASE u # server
    BY <2>2 DEF NeedsAt
  <2> QED BY <2>1, <2>2
<1> QED BY <1>1 DEF Keeps, Needs

(* Every step is one of these for the kernel. *)
LEMMA KernelNext == TypeOK /\ [Next]_vars => KernelStep
<1> SUFFICES ASSUME TypeOK, [Next]_vars PROVE KernelStep
  OBVIOUS
<1> USE ThreadFacts
<1>1. pc \in [Thread -> PC] /\ job.m \in Mutex
  BY TypeParts DEF DataType
<1>2. ASSUME NEW t \in Thread, NEW from, NEW to \in PC, Step(t, from, to), t = server \/ job' = job
      PROVE  /\ Keeps(t) /\ stat[t] = "READY" /\ pc[t] = from
             /\ Needs(t) = NeedsAt(t, from, job.m) /\ Needs(t)' = NeedsAt(t, to, job'.m)
             /\ Needs(t)' = Needs(t) => \A u \in Thread : Needs(u)' = Needs(u)
  BY <1>2, StepType, KeepsFacts DEF Needs, Keeps
<1>3. /\ "take" \in PC /\ "acc" \in PC /\ "gyro" \in PC /\ "baro" \in PC /\ "delay" \in PC
      /\ "release" \in PC /\ "rest" \in PC /\ "u0d" \in PC /\ "altd" \in PC /\ "throtl" \in PC
      /\ "create" \in PC /\ "start" \in PC /\ "takebench" \in PC /\ "inputs" \in PC
      /\ "outputs" \in PC /\ "releasebench" \in PC /\ "idle" \in PC /\ "suspend" \in PC
      /\ "begin" \in PC /\ "erase" \in PC /\ "erasing" \in PC
      /\ "transfer" \in PC /\ "transferring" \in PC
      /\ "run" \in PC /\ "exit" \in PC
  BY DEF PC, ProducerPC, ConsumerPC, ServerPC
<1>4. CASE Producer
  <2>1. CASE ProducerTake
    <3>1. Enters(producer, raw_mutex)
      BY <1>2, <1>3, <2>1, NeedsFacts DEF ProducerTake, records, Enters
    <3> QED BY <3>1 DEF KernelStep
  <2>2. CASE ProducerAcc \/ ProducerGyro \/ \E data \in BOOLEAN : ProducerBaro(data)
    <3>1. UNCHANGED kvars /\ \A u \in Thread : Needs(u)' = Needs(u)
      BY <1>2, <1>3, <2>2, NeedsFacts DEF ProducerAcc, ProducerGyro, ProducerBaro, records
    <3> QED BY <3>1 DEF KernelStep, Stays
  <2>3. CASE ProducerDelay \/ ProducerRest
    <3>1. /\ rt_thread_mdelay(producer) /\ stat[producer] = "READY"
          /\ \A u \in Thread : Needs(u)' = Needs(u)
      BY <1>2, <1>3, <2>3, NeedsFacts DEF ProducerDelay, ProducerRest, records
    <3> QED BY <3>1 DEF KernelStep, Stays
  <2>4. CASE ProducerRelease
    <3>1. Leaves(producer, raw_mutex)
      BY <1>2, <1>3, <2>4, NeedsFacts DEF ProducerRelease, records, Leaves
    <3> QED BY <3>1 DEF KernelStep
  <2> QED BY <1>4, <2>1, <2>2, <2>3, <2>4 DEF Producer
<1>5. CASE Consumer
  <2>1. CASE ConsumerTake
    <3>1. Enters(consumer, raw_mutex)
      BY <1>2, <1>3, <2>1, NeedsFacts DEF ConsumerTake, records, Enters
    <3> QED BY <3>1 DEF KernelStep
  <2>2. CASE ConsumerTakeBench
    <3>1. Enters(consumer, bench_mutex)
      BY <1>2, <1>3, <2>2, NeedsFacts DEF ConsumerTakeBench, records, Enters
    <3> QED BY <3>1 DEF KernelStep
  <2>3. CASE ConsumerCopy \/ ConsumerInputs \/ ConsumerOutputs
    <3>1. UNCHANGED kvars /\ \A u \in Thread : Needs(u)' = Needs(u)
      BY <1>2, <1>3, <2>3, NeedsFacts DEF ConsumerCopy, Copy, ConsumerInputs, ConsumerOutputs, records
    <3> QED BY <3>1 DEF KernelStep, Stays
  <2>4. CASE ConsumerRest
    <3>1. /\ rt_thread_mdelay(consumer) /\ stat[consumer] = "READY"
          /\ \A u \in Thread : Needs(u)' = Needs(u)
      BY <1>2, <1>3, <2>4, NeedsFacts DEF ConsumerRest, records
    <3> QED BY <3>1 DEF KernelStep, Stays
  <2>5. CASE ConsumerRelease
    <3>1. Leaves(consumer, raw_mutex)
      BY <1>2, <1>3, <2>5, NeedsFacts DEF ConsumerRelease, records, Leaves
    <3> QED BY <3>1 DEF KernelStep
  <2>6. CASE ConsumerReleaseBench
    <3>1. Leaves(consumer, bench_mutex)
      BY <1>2, <1>3, <2>6, NeedsFacts DEF ConsumerReleaseBench, records, Leaves
    <3> QED BY <3>1 DEF KernelStep
  <2>7. CASE create_tasks
    <3>1. rt_thread_init(Stage) /\ \A u \in Thread : Needs(u)' = Needs(u)
      BY <1>2, <1>3, <2>7, NeedsFacts DEF create_tasks, records
    <3> QED BY <3>1 DEF KernelStep, Stays
  <2>8. ASSUME NEW k \in 1..Last, start_tasks(k) PROVE KernelStep
    <3>1. stage[k] \in Stage /\ rt_thread_startup(stage[k]) /\ job' = job
      BY <2>8 DEF start_tasks, records
    <3>2. /\ pc[consumer] = "start" /\ pc'[consumer] \in {"start", "takebench"}
          /\ \A u \in Thread \ {consumer, stage[k]} : pc'[u] = pc[u]
      BY <1>1, <2>8, <3>1, ThreadAssumption DEF start_tasks
    <3>3. Needs(consumer) = Nobody /\ Needs(consumer)' = Nobody
      BY <3>2, NeedsFacts DEF Needs
    <3>4. Needs(stage[k]) = Nobody /\ Needs(stage[k])' = Nobody
      BY <3>1, NeedsFacts DEF Needs
    <3>5. Keeps(stage[k])
      BY <3>1, <3>2, <3>3 DEF Keeps, Needs
    <3> QED BY <3>1, <3>4, <3>5 DEF KernelStep, Changes
  <2> QED BY <1>5, <2>1, <2>2, <2>3, <2>4, <2>5, <2>6, <2>7, <2>8 DEF Consumer
<1>6. CASE Stages
  <2>1. ASSUME NEW k \in 1..Last, StageRun(k) PROVE KernelStep
    <3>1. /\ stage[k] \in Stage /\ stage[k] \in Thread /\ job' = job
          /\ Step(stage[k], "run", "exit") /\ UNCHANGED kvars
      BY <2>1 DEF StageRun, records
    <3>2. Needs(stage[k]) = Nobody /\ Needs(stage[k])' = Nobody
      BY <3>1, NeedsFacts DEF Needs
    <3>3. \A u \in Thread : Needs(u)' = Needs(u)
      BY <1>2, <1>3, <3>1, <3>2
    <3> QED BY <3>1, <3>3 DEF KernelStep, Stays
  <2>2. ASSUME NEW k \in 1..Last, StageExit(k) PROVE KernelStep
    <3>1. /\ stage[k] \in Stage /\ stage[k] \in Thread /\ job' = job
          /\ Step(stage[k], "exit", "run") /\ rt_thread_exit(stage[k])
      BY <2>2 DEF StageExit, records
    <3>2. Needs(stage[k]) = Nobody /\ Needs(stage[k])' = Nobody
      BY <3>1, NeedsFacts DEF Needs
    <3>3. Keeps(stage[k])
      BY <1>2, <1>3, <3>1
    <3> QED BY <3>1, <3>2, <3>3 DEF KernelStep, Changes
  <2> QED BY <1>6, <2>1, <2>2 DEF Stages
<1>7. CASE Server
  <2>1. CASE ServerTake
    <3>1. /\ rt_mutex_take(server, job.m) /\ job' = job /\ stat[server] = "READY" /\ Keeps(server)
          /\ pc[server] = "take" /\ pc'[server] \in {"transfer", "acc", "inputs"}
      BY <1>1, <1>2, <1>3, <2>1, StepType DEF ServerTake, records
    <3>2. Enters(server, job.m)
      BY <3>1, NeedsFacts DEF Enters, Needs, ServerHolds
    <3> QED BY <1>1, <3>2 DEF KernelStep
  <2>2. CASE ServerStore \/ ServerBegin \/ BusTake
    <3>1. UNCHANGED kvars /\ \A u \in Thread : Needs(u)' = Needs(u)
      BY <1>2, <1>3, <2>2, NeedsFacts DEF ServerStore, Store, ServerBegin, BusTake, records, ServerHolds
    <3> QED BY <3>1 DEF KernelStep, Stays
  <2>3. CASE ServerRelease
    <3>1. Leaves(server, job.m)
      BY <1>2, <1>3, <2>3, NeedsFacts DEF ServerRelease, Leaves, ServerHolds
    <3> QED BY <1>1, <3>1 DEF KernelStep
  <2>4. CASE ServerSuspend
    <3>1. Changes(server)
      BY <1>2, <1>3, <2>4, NeedsFacts DEF ServerSuspend, Changes, ServerHolds
    <3> QED BY <3>1 DEF KernelStep
  <2>5. ASSUME NEW last \in BOOLEAN, BusRelease(last) PROVE KernelStep
    <3>1. /\ rt_thread_control(server, bus) /\ stat[server] = "READY"
          /\ pc[server] \in {"erasing", "transferring"}
          /\ \A u \in Thread : Needs(u)' = Needs(u)
      BY <1>2, <1>3, <2>5, NeedsFacts DEF BusRelease, records, ServerHolds
    <3>2. bus \in Nat
      BY TypeParts DEF DataType
    <3> QED BY <3>1, <3>2 DEF KernelStep, Sets
  <2> QED BY <1>7, <2>1, <2>2, <2>3, <2>4, <2>5 DEF Server
<1>8. ASSUME NEW m \in Mutex, NEW write \in BOOLEAN, Press(m, write) PROVE KernelStep
  <2>1. /\ rt_thread_resume(server) /\ pc[server] = "idle" /\ pc'[server] = "begin"
        /\ \A u \in Thread \ {server} : pc'[u] = pc[u]
    BY <1>1, <1>8 DEF Press
  <2>2. Changes(server)
    BY <2>1, NeedsFacts, KeepsFacts DEF Changes, Needs, ServerHolds
  <2> QED BY <2>2 DEF KernelStep
<1>9. ASSUME NEW t \in Thread, Tick(t) PROVE KernelStep
  BY <1>9 DEF Tick, KernelStep, Stays, Needs, records
<1>10. CASE rt_thread_yield \/ UNCHANGED vars
  BY <1>10 DEF rt_thread_yield, vars, kvars, records, KernelStep, Stays, Needs
<1>11. ASSUME NEW p \in PriorityByte, rt_timer_deferrable_capacity(p) PROVE KernelStep
  <2>1. p \in Nat /\ p \in Own(server)
    BY ApplicationAssumption DEF Own
  <2>2. rt_thread_control(server, p) /\ \A u \in Thread : Needs(u)' = Needs(u)
    BY <1>11 DEF rt_timer_deferrable_capacity, Needs, records
  <2> QED BY <2>1, <2>2 DEF KernelStep, Sets
<1> QED BY <1>4, <1>5, <1>6, <1>7, <1>8, <1>9, <1>10, <1>11 DEF Next

LEMMA KernelTypeNext == KernelTypeOK /\ KernelStep => KernelTypeOK'
<1> SUFFICES ASSUME KernelTypeOK, KernelStep PROVE KernelTypeOK'
  OBVIOUS
<1> USE ThreadFacts
<1>1. ASSUME NEW t \in Thread, NEW m \in Mutex, Enters(t, m) \/ Leaves(t, m) PROVE KernelTypeOK'
  BY <1>1, TakeType, ReleaseType DEF Enters, Leaves
<1>2. ASSUME NEW t \in Thread, Changes(t) PROVE KernelTypeOK'
  <2>1. InitPriority[t] \in Nat
    BY KernelAssumption
  <2> QED BY <1>2, <2>1 DEF Changes, KernelTypeOK, rt_thread_startup, rt_thread_exit,
                            rt_thread_suspend, rt_thread_resume
<1>3. CASE Stays
  <2>1. \A t \in Thread : InitPriority[t] \in Nat
    BY KernelAssumption
  <2>2. CASE rt_thread_init(Stage)
    BY <2>1, <2>2 DEF KernelTypeOK, rt_thread_init
  <2> QED BY <1>3, <2>2 DEF Stays, KernelTypeOK, kvars, rt_thread_timeout, rt_thread_mdelay
<1>4. ASSUME NEW p \in Nat, Sets(p) PROVE KernelTypeOK'
  BY <1>4 DEF Sets, KernelTypeOK, rt_thread_control
<1> QED BY <1>1, <1>2, <1>3, <1>4 DEF KernelStep

(* The program counters, the data and the kernel have their types: no      *)
(* thread leaves its program, and curr_read, i and w stay within the       *)
(* arrays of NUM_READINGS elements.                                        *)
THEOREM ApplicationTypeCorrect == Spec => []TypeOK
<1>1. Init => TypeOK
  <2> SUFFICES ASSUME Init PROVE TypeOK
    OBVIOUS
  <2>1. KernelTypeOK
    BY KernelAssumption DEF Init, KernelInit, KernelTypeOK
  <2>2. pc \in [Thread -> PC]
    BY DEF Init, PC, ProducerPC, ConsumerPC, ServerPC
  <2>3. 0 \in Index /\ 0 \in Sweep /\ Sweeps - 1 \in Sweep
    BY ApplicationAssumption DEF Index, Sweep
  <2>4. DataType
    BY <2>3, ThreadFacts DEF Init, DataType, NoPoint, Point, NoJob, NoRec
  <2> QED BY <2>1, <2>2, <2>4, TypeParts
<1>2. TypeOK /\ [Next]_vars => TypeOK'
  <2> SUFFICES ASSUME TypeOK, [Next]_vars PROVE TypeOK'
    OBVIOUS
  <2>1. KernelTypeOK' /\ pc' \in [Thread -> PC] /\ DataType'
    BY KernelNext, KernelTypeNext, PcNext, DataNext, TypeParts
  <2> QED BY <2>1 DEF TypeOK, PC, DataType
<1> QED BY <1>1, <1>2, PTL DEF Spec

-----------------------------------------------------------------------------
(***************************************************************************)
(* The invariant of the mutexes: a thread owns or waits for exactly the    *)
(* mutex it needs, who waits is suspended and will be woken by nothing     *)
(* else, and a priority that is not a thread's own is lent to the owner of *)
(* a mutex, which keeps one of its own to restore.  BusInv says the same   *)
(* of the lock of the SPI bus where the server has no other.               *)
(***************************************************************************)
In(s) == {s[k] : k \in 1..Len(s)}
Once(s) == \A j, k \in 1..Len(s) : s[j] = s[k] => j = k

Locks == \A m \in Mutex, t \in Thread : Needs(t) = m <=> owner[m] = t \/ t \in In(waiters[m])
Queues == \A m \in Mutex :
    /\ Once(waiters[m])
    /\ waiters[m] # <<>> => owner[m] # Nobody
    /\ \A t \in In(waiters[m]) : owner[m] # t /\ stat[t] = "SUSPEND" /\ t \notin timer
Timers == \A t \in timer : stat[t] = "SUSPEND" /\ t \in {producer, consumer}
Priorities ==
    /\ \A t \in Thread : (\A m \in Mutex : owner[m] # t) => prio[t] \in Own(t)
    /\ \A m \in Mutex : owner[m] # Nobody => orig[m] \in Own(owner[m])

MutexInv == Locks /\ Queues /\ Timers /\ Priorities
BusInv == pc[server] = "erasing" => bus \in Own(server)

LEMMA OwnFacts ==
    /\ \A t \in Thread : InitPriority[t] \in Own(t)
    /\ \A t \in Thread : t # server => Own(t) = {InitPriority[t]}
BY DEF Own

LEMMA InAppend ==
    ASSUME NEW s \in Seq(Thread), NEW t \in Thread
    PROVE  /\ In(Append(s, t)) = In(s) \cup {t}
           /\ Append(s, t) # <<>>
           /\ Once(s) /\ t \notin In(s) => Once(Append(s, t))
<1> DEFINE q == Append(s, t)
<1>1. /\ Len(q) = Len(s) + 1 /\ q[Len(s) + 1] = t /\ Len(s) \in Nat
      /\ \A k \in 1..Len(s) : q[k] = s[k]
  OBVIOUS
<1>2. q # <<>>
  BY <1>1
<1> HIDE DEF q
<1>3. 1..Len(q) = 1..Len(s) \cup {Len(s) + 1}
  BY <1>1
<1>4. In(q) = In(s) \cup {t}
  BY <1>1, <1>3 DEF In
<1>5. Once(s) /\ t \notin In(s) => Once(q)
  BY <1>1, <1>3 DEF In, Once
<1> QED BY <1>2, <1>4, <1>5 DEF q

LEMMA InTail ==
    ASSUME NEW s \in Seq(Thread), s # <<>>, Once(s)
    PROVE  /\ In(Tail(s)) = In(s) \ {Head(s)}
           /\ Head(s) \in In(s)
           /\ Once(Tail(s))
<1>1. /\ Len(Tail(s)) = Len(s) - 1 /\ Head(s) = s[1] /\ Len(s) \in Nat /\ Len(s) >= 1
      /\ \A k \in 1..(Len(s) - 1) : Tail(s)[k] = s[k + 1]
  OBVIOUS
<1>2. \A k \in 1..Len(s) : k # 1 => k - 1 \in 1..(Len(s) - 1) /\ Tail(s)[k - 1] = s[k]
  BY <1>1
<1>3. Once(Tail(s))
  BY <1>1 DEF Once
<1>4. In(Tail(s)) \subseteq In(s) \ {Head(s)}
  <2>1. ASSUME NEW k \in 1..(Len(s) - 1) PROVE s[k + 1] \in In(s) /\ s[k + 1] # s[1]
    <3>1. k + 1 \in 1..Len(s) /\ 1 \in 1..Len(s) /\ k + 1 # 1
      BY <1>1
    <3> QED BY <3>1 DEF In, Once
  <2> QED BY <1>1, <2>1 DEF In
<1>5. In(s) \ {Head(s)} \subseteq In(Tail(s))
  <2> SUFFICES ASSUME NEW k \in 1..Len(s), s[k] # s[1] PROVE s[k] \in In(Tail(s))
    BY <1>1 DEF In
  <2>1. k - 1 \in 1..Len(Tail(s)) /\ Tail(s)[k - 1] = s[k]
    BY <1>1, <1>2
  <2> QED BY <2>1 DEF In
<1>6. Head(s) \in In(s)
  BY <1>1 DEF In
<1> QED BY <1>3, <1>4, <1>5, <1>6

LEMMA InThread == KernelTypeOK => \A m \in Mutex : In(waiters[m]) \subseteq Thread
BY DEF KernelTypeOK, In

LEMMA MutexEnters ==
    ASSUME KernelTypeOK, MutexInv, NEW t \in Thread, NEW m \in Mutex, Enters(t, m)
    PROVE  MutexInv'
<1> USE KernelAssumption DEF Enters, Keeps
<1>1. \A n \in Mutex : owner[n] # t /\ t \notin In(waiters[n])
  BY DEF MutexInv, Locks
<1>2. prio[t] \in Own(t)
  BY <1>1 DEF MutexInv, Priorities
<1>3. t \notin timer
  BY DEF MutexInv, Timers
<1>4. CASE owner[m] = Nobody
  <2>1. /\ owner' = [owner EXCEPT ![m] = t] /\ orig' = [orig EXCEPT ![m] = prio[t]]
        /\ UNCHANGED <<stat, prio, timer, waiters>>
    BY <1>4 DEF rt_mutex_take
  <2>2. owner'[m] = t /\ orig'[m] = prio[t]
        /\ \A n \in Mutex \ {m} : owner'[n] = owner[n] /\ orig'[n] = orig[n]
    BY <2>1 DEF KernelTypeOK
  <2>3. waiters[m] = <<>> /\ In(waiters[m]) = {}
    BY <1>4 DEF MutexInv, Queues, In
  <2>4. Locks'
    BY <1>1, <1>4, <2>1, <2>2, <2>3 DEF MutexInv, Locks
  <2>5. Queues'
    BY <1>1, <2>1, <2>2, <2>3 DEF MutexInv, Queues
  <2>6. Priorities'
    BY <1>2, <1>4, <2>1, <2>2 DEF MutexInv, Priorities
  <2> QED BY <2>1, <2>4, <2>5, <2>6 DEF MutexInv, Timers
<1>5. CASE owner[m] # Nobody
  <2>1. /\ waiters' = [waiters EXCEPT ![m] = Append(@, t)]
        /\ stat' = [stat EXCEPT ![t] = "SUSPEND"]
        /\ UNCHANGED <<timer, owner, orig>>
        /\ prio' = IF prio[t] < prio[owner[m]] THEN [prio EXCEPT ![owner[m]] = prio[t]] ELSE prio
    BY <1>5 DEF rt_mutex_take
  <2>2. /\ waiters'[m] = Append(waiters[m], t) /\ \A n \in Mutex \ {m} : waiters'[n] = waiters[n]
        /\ stat'[t] = "SUSPEND" /\ \A u \in Thread \ {t} : stat'[u] = stat[u]
        /\ \A u \in Thread \ {owner[m]} : prio'[u] = prio[u]
    BY <1>5, <2>1 DEF KernelTypeOK
  <2>3. waiters[m] \in Seq(Thread)
    BY DEF KernelTypeOK
  <2>4. /\ In(waiters'[m]) = In(waiters[m]) \cup {t} /\ waiters'[m] # <<>>
        /\ Once(waiters[m]) => Once(waiters'[m])
    BY <1>1, <2>2, <2>3, InAppend
  <2>5. Locks'
    BY <1>1, <2>1, <2>2, <2>4 DEF MutexInv, Locks
  <2>6. Queues'
    <3>1. ASSUME NEW n \in Mutex, n # m
          PROVE  \A u \in In(waiters[n]) : owner[n] # u /\ stat'[u] = "SUSPEND" /\ u \notin timer
      BY <1>1, <2>2, <3>1, InThread DEF MutexInv, Queues
    <3>2. \A u \in In(waiters[m]) \cup {t} : owner[m] # u /\ stat'[u] = "SUSPEND" /\ u \notin timer
      BY <1>1, <1>3, <2>2, InThread DEF MutexInv, Queues
    <3> QED BY <1>5, <2>1, <2>2, <2>4, <3>1, <3>2 DEF MutexInv, Queues
  <2>7. Timers'
    BY <1>3, <2>1, <2>2 DEF MutexInv, Timers, KernelTypeOK
  <2>8. Priorities'
    BY <2>1, <2>2 DEF MutexInv, Priorities
  <2> QED BY <2>5, <2>6, <2>7, <2>8 DEF MutexInv
<1> QED BY <1>4, <1>5

LEMMA MutexLeaves ==
    ASSUME KernelTypeOK, MutexInv, NEW t \in Thread, NEW m \in Mutex, Leaves(t, m)
    PROVE  MutexInv'
<1> USE KernelAssumption DEF Leaves, Keeps
<1>1. \A n \in Mutex : t \notin In(waiters[n])
  BY DEF MutexInv, Queues
<1>2. owner[m] = t /\ \A n \in Mutex \ {m} : owner[n] # t
  BY <1>1 DEF MutexInv, Locks
<1>3. orig[m] \in Own(t)
  BY <1>2 DEF MutexInv, Priorities
<1>4. prio' = [prio EXCEPT ![t] = orig[m]] /\ UNCHANGED timer
  BY <1>2 DEF rt_mutex_release
<1>5. prio'[t] \in Own(t) /\ \A u \in Thread \ {t} : prio'[u] = prio[u]
  BY <1>3, <1>4 DEF KernelTypeOK
<1>6. CASE waiters[m] = <<>>
  <2>1. /\ owner' = [owner EXCEPT ![m] = Nobody] /\ orig' = [orig EXCEPT ![m] = 255]
        /\ UNCHANGED <<stat, waiters>>
    BY <1>2, <1>6 DEF rt_mutex_release
  <2>2. owner'[m] = Nobody /\ \A n \in Mutex \ {m} : owner'[n] = owner[n] /\ orig'[n] = orig[n]
    BY <2>1 DEF KernelTypeOK
  <2>3. In(waiters[m]) = {}
    BY <1>6 DEF In
  <2>4. Locks'
    BY <1>1, <1>2, <2>1, <2>2, <2>3 DEF MutexInv, Locks
  <2>5. Queues'
    BY <1>4, <1>6, <2>1, <2>2, <2>3 DEF MutexInv, Queues
  <2>6. Priorities'
    BY <1>2, <1>5, <2>2 DEF MutexInv, Priorities
  <2> QED BY <1>4, <2>1, <2>4, <2>5, <2>6 DEF MutexInv, Timers
<1>7. CASE waiters[m] # <<>>
  <2> DEFINE next == Head(waiters[m])
  <2>1. /\ owner' = [owner EXCEPT ![m] = next] /\ orig' = [orig EXCEPT ![m] = prio[next]]
        /\ stat' = [stat EXCEPT ![next] = "READY"]
        /\ waiters' = [waiters EXCEPT ![m] = Tail(@)]
    BY <1>2, <1>7 DEF rt_mutex_release
  <2>2. waiters[m] \in Seq(Thread) /\ Once(waiters[m])
    BY DEF KernelTypeOK, MutexInv, Queues
  <2>3. /\ In(Tail(waiters[m])) = In(waiters[m]) \ {next} /\ next \in In(waiters[m])
        /\ Once(Tail(waiters[m]))
    BY <1>7, <2>2, InTail
  <2> HIDE DEF next
  <2>4. next \in Thread /\ next # t /\ next \notin timer
    BY <1>1, <2>3, InThread DEF MutexInv, Queues
  <2>5. \A n \in Mutex : owner[n] # next /\ (n # m => next \notin In(waiters[n]))
    BY <2>3, <2>4 DEF MutexInv, Locks, Queues
  <2>6. /\ owner'[m] = next /\ orig'[m] = prio[next] /\ waiters'[m] = Tail(waiters[m])
        /\ \A n \in Mutex \ {m} :
              owner'[n] = owner[n] /\ orig'[n] = orig[n] /\ waiters'[n] = waiters[n]
        /\ stat'[next] = "READY" /\ \A u \in Thread \ {next} : stat'[u] = stat[u]
    BY <2>1, <2>4 DEF KernelTypeOK
  <2>7. Locks'
    BY <1>1, <1>2, <2>3, <2>4, <2>5, <2>6 DEF MutexInv, Locks
  <2>8. Queues'
    <3>1. ASSUME NEW n \in Mutex, n # m
          PROVE  \A u \in In(waiters[n]) : owner[n] # u /\ stat'[u] = "SUSPEND" /\ u \notin timer'
      BY <1>4, <2>5, <2>6, <3>1, InThread DEF MutexInv, Queues
    <3>2. \A u \in In(waiters'[m]) : next # u /\ stat'[u] = "SUSPEND" /\ u \notin timer'
      BY <1>4, <2>3, <2>6, InThread DEF MutexInv, Queues
    <3>3. next # Nobody
      BY <2>4
    <3> QED BY <2>3, <2>6, <3>1, <3>2, <3>3 DEF MutexInv, Queues
  <2>9. Timers'
    BY <1>4, <2>4, <2>6 DEF MutexInv, Timers, KernelTypeOK
  <2>10. Priorities'
    <3>1. prio[next] \in Own(next)
      BY <2>4, <2>5 DEF MutexInv, Priorities
    <3> QED BY <1>2, <1>5, <2>6, <3>1 DEF MutexInv, Priorities
  <2> QED BY <2>7, <2>8, <2>9, <2>10 DEF MutexInv
<1> QED BY <1>6, <1>7

LEMMA MutexNext == TypeOK /\ MutexInv /\ BusInv /\ KernelStep => MutexInv'
<1> SUFFICES ASSUME TypeOK, KernelTypeOK, MutexInv, BusInv, KernelStep PROVE MutexInv'
  BY TypeParts
<1>1. ASSUME NEW t \in Thread, Changes(t) PROVE MutexInv'
  <2>1. /\ UNCHANGED <<timer, owner, orig, waiters>> /\ t \notin timer
        /\ \A u \in Thread \ {t} : stat'[u] = stat[u] /\ prio'[u] = prio[u]
        /\ prio'[t] = prio[t] \/ prio'[t] = InitPriority[t]
    BY <1>1, ThreadAssumption DEF Changes, KernelTypeOK, MutexInv, Timers, rt_thread_startup, rt_thread_exit,
                rt_thread_suspend, rt_thread_resume
  <2>2. \A n \in Mutex : owner[n] # t /\ t \notin In(waiters[n])
    BY <1>1, KernelAssumption DEF Changes, MutexInv, Locks
  <2>3. Locks'
    BY <1>1, <2>1 DEF Changes, Keeps, MutexInv, Locks
  <2>4. Queues'
    BY <2>1, <2>2, InThread DEF MutexInv, Queues
  <2>5. Timers'
    BY <2>1 DEF MutexInv, Timers, KernelTypeOK
  <2>6. Priorities'
    BY <2>1, <2>2, OwnFacts DEF MutexInv, Priorities
  <2> QED BY <2>3, <2>4, <2>5, <2>6 DEF MutexInv
<1>2. CASE Stays
  <2>1. UNCHANGED <<owner, orig, waiters>>
    BY <1>2 DEF Stays, kvars, rt_thread_timeout, rt_thread_init, rt_thread_mdelay
  <2>2. Locks'
    BY <1>2, <2>1 DEF Stays, MutexInv, Locks
  <2>3. CASE UNCHANGED kvars
    BY <2>2, <2>3 DEF kvars, MutexInv, Queues, Timers, Priorities
  <2>4. ASSUME NEW t \in Thread, rt_thread_timeout(t) PROVE MutexInv'
    <3>1. /\ t \in timer /\ timer' = timer \ {t} /\ prio' = prio
          /\ \A u \in Thread \ {t} : stat'[u] = stat[u]
      BY <2>4 DEF rt_thread_timeout, KernelTypeOK
    <3>2. Queues'
      BY <2>1, <3>1, InThread DEF MutexInv, Queues
    <3>3. Timers'
      BY <3>1 DEF MutexInv, Timers, KernelTypeOK
    <3> QED BY <2>1, <2>2, <3>1, <3>2, <3>3 DEF MutexInv, Priorities
  <2>5. CASE rt_thread_init(Stage)
    <3>1. /\ timer' = timer
          /\ \A u \in Thread \ Stage : stat'[u] = stat[u] /\ prio'[u] = prio[u]
          /\ \A u \in Stage : prio'[u] = InitPriority[u]
      BY <2>5, ThreadFacts DEF rt_thread_init
    <3>2. \A n \in Mutex : \A u \in Stage : owner[n] # u /\ u \notin In(waiters[n])
      <4>1. \A u \in Stage : u \in Thread /\ Needs(u) = Nobody
        BY StageNeeds, ThreadFacts
      <4> QED BY <4>1, KernelAssumption DEF MutexInv, Locks
    <3>3. Queues'
      BY <2>1, <3>1, <3>2, InThread DEF MutexInv, Queues
    <3>4. Timers'
      BY <3>1, ThreadAssumption DEF MutexInv, Timers, KernelTypeOK
    <3>5. Priorities'
      BY <2>1, <3>1, OwnFacts, ThreadFacts DEF MutexInv, Priorities
    <3> QED BY <2>2, <3>3, <3>4, <3>5 DEF MutexInv
  <2>6. ASSUME NEW t \in {producer, consumer}, rt_thread_mdelay(t), stat[t] = "READY" PROVE MutexInv'
    <3>1. /\ t \in Thread /\ timer' = timer \cup {t} /\ prio' = prio
          /\ stat'[t] = "SUSPEND" /\ \A u \in Thread \ {t} : stat'[u] = stat[u]
      BY <2>6, ThreadFacts DEF rt_thread_mdelay, KernelTypeOK
    <3>2. Queues'
      BY <2>1, <2>6, <3>1, InThread DEF MutexInv, Queues
    <3>3. Timers'
      BY <3>1 DEF MutexInv, Timers, KernelTypeOK
    <3> QED BY <2>1, <2>2, <3>1, <3>2, <3>3 DEF MutexInv, Priorities
  <2> QED BY <1>2, <2>3, <2>4, <2>5, <2>6 DEF Stays
<1>3. ASSUME NEW p \in Nat, Sets(p) PROVE MutexInv'
  <2>1. /\ UNCHANGED <<stat, timer, owner, orig, waiters>>
        /\ prio'[server] = p /\ \A u \in Thread \ {server} : prio'[u] = prio[u]
    BY <1>3, ThreadFacts DEF Sets, rt_thread_control, KernelTypeOK
  <2>2. (\A m \in Mutex : owner[m] # server) => p \in Own(server)
    <3>1. CASE pc[server] = "transferring" /\ stat[server] = "READY"
      <4>1. Needs(server) = job.m
        BY <3>1, NeedsFacts DEF Needs, ServerHolds
      <4>2. \A m \in Mutex : server \notin In(waiters[m])
        BY <3>1, ThreadFacts DEF MutexInv, Queues
      <4>3. job.m \in Mutex
        BY TypeParts DEF DataType
      <4>4. owner[job.m] = server
        BY <4>1, <4>2, <4>3, ThreadFacts DEF MutexInv, Locks
      <4> QED BY <4>3, <4>4
    <3> QED BY <1>3, <3>1 DEF Sets, BusInv
  <2>3. Locks'
    BY <1>3, <2>1 DEF Sets, MutexInv, Locks
  <2>4. Priorities'
    BY <2>1, <2>2 DEF MutexInv, Priorities
  <2> QED BY <2>1, <2>3, <2>4 DEF MutexInv, Queues, Timers
<1> QED BY <1>1, <1>2, <1>3, MutexEnters, MutexLeaves DEF KernelStep

LEMMA MutexInit == Init => MutexInv
<1> SUFFICES ASSUME Init PROVE MutexInv
  OBVIOUS
<1>1. /\ prio = InitPriority /\ timer = {}
      /\ \A m \in Mutex : owner[m] = Nobody /\ waiters[m] = <<>> /\ In(waiters[m]) = {}
  BY DEF Init, KernelInit, In
<1>2. \A t \in Thread : pc[t] \in {"take", "rest", "idle", "run"}
  BY DEF Init
<1>3. \A t \in Thread : Needs(t) = Nobody
  BY <1>2 DEF Needs, NeedsAt, ServerHolds
<1>4. Locks
  BY <1>1, <1>3, KernelAssumption DEF Locks
<1> QED BY <1>1, <1>4, OwnFacts DEF MutexInv, Queues, Once, Timers, Priorities

(* The erasure comes before the mutex: the priority its transfers save is  *)
(* the server's own.                                                       *)
LEMMA BusNext == TypeOK /\ MutexInv /\ BusInv /\ [Next]_vars => BusInv'
<1> SUFFICES ASSUME TypeOK, MutexInv, BusInv, [Next]_vars, pc'[server] = "erasing"
             PROVE  bus' \in Own(server)
  BY DEF BusInv
<1>1. pc \in [Thread -> PC] /\ server \in Thread
  BY TypeParts, ThreadFacts
<1>2. CASE Server
  <2>1. BusTake /\ pc[server] = "erase"
    BY <1>1, <1>2 DEF Server, ServerBegin, ServerTake, ServerStore, Store, BusTake, BusRelease,
                      ServerRelease, ServerSuspend, Step
  <2>2. Needs(server) = Nobody
    BY <2>1, NeedsFacts DEF Needs, ServerHolds
  <2>3. prio[server] \in Own(server)
    BY <1>1, <2>2, KernelAssumption DEF MutexInv, Locks, Priorities
  <2> QED BY <2>1, <2>3 DEF BusTake
<1>3. CASE \E m \in Mutex, write \in BOOLEAN : Press(m, write)
  BY <1>1, <1>3 DEF Press
<1>4. CASE pc'[server] = pc[server] /\ UNCHANGED <<records, bus>>
  BY <1>4 DEF BusInv
<1> QED BY <1>2, <1>3, <1>4, Frames

LEMMA MutexSafe == Spec => [](TypeOK /\ MutexInv /\ BusInv)
<1>1. TypeOK /\ MutexInv /\ BusInv /\ [Next]_vars => MutexInv' /\ BusInv'
  BY KernelNext, MutexNext, BusNext
<1>2. Init => BusInv
  BY ThreadFacts, ThreadAssumption DEF Init, BusInv
<1> QED BY MutexInit, <1>1, <1>2, ApplicationTypeCorrect, PTL DEF Spec

(* Whatever priority the waiting threads lend to the owner of a mutex,     *)
(* rt_mutex_release gives it back, wherever the capacity timer changes     *)
(* that of the server and whatever the lock of the bus restores: a thread  *)
(* without a mutex has a priority of its own.                              *)
THEOREM LoanCorrect == Spec => []LoansReturned
<1>1. MutexInv => LoansReturned
  BY DEF MutexInv, Priorities, LoansReturned
<1> QED BY <1>1, MutexSafe, PTL

(* Who waits for raw_mutex or bench_mutex waits for a thread that waits    *)
(* for nothing but the processor or a delay: there is no deadlock on them. *)
THEOREM ChainCorrect == Spec => []NoChain
<1>1. TypeOK /\ MutexInv => NoChain
  <2> SUFFICES ASSUME TypeOK, MutexInv, NEW m \in Mutex, NEW n \in Mutex,
                      NEW k \in 1..Len(waiters[m]), NEW j \in 1..Len(waiters[n])
               PROVE  owner[m] # Nobody /\ owner[m] # waiters[n][j]
    BY DEF NoChain
  <2>1. waiters[m] # <<>> /\ waiters[n][j] \in In(waiters[n]) /\ waiters[n][j] \in Thread
    BY TypeParts, InThread DEF In
  <2> QED BY <2>1 DEF MutexInv, Locks, Queues
<1> QED BY <1>1, MutexSafe, PTL

-----------------------------------------------------------------------------
(***************************************************************************)
(* The data the mutexes protect.  A thread past the first place of a       *)
(* critical section owns its mutex (at the first it may still wait).       *)
(***************************************************************************)
HoldInv ==
    /\ pc[producer] \in {"gyro", "baro", "delay", "release"} => owner[raw_mutex] = producer
    /\ pc[consumer] \in {"altd", "throtl", "release"} => owner[raw_mutex] = consumer
    /\ pc[consumer] \in {"outputs", "releasebench"} => owner[bench_mutex] = consumer
    /\ pc[server] \in {"gyro", "baro", "outputs", "transferring", "release"} => owner[job.m] = server
    /\ pc[server] = "transfer" /\ job.write => owner[job.m] = server

(* The body the server runs says where it is. *)
JobInv ==
    /\ pc[server] \in {"acc", "gyro", "baro"} => job = [m |-> raw_mutex, write |-> TRUE]
    /\ pc[server] \in {"inputs", "outputs"} => job = [m |-> bench_mutex, write |-> TRUE]

(* A thread that runs owns the mutex it needs, and keeps it while it does. *)
LEMMA ReadyOwns ==
    ASSUME TypeOK, MutexInv, NEW t \in Thread, NEW m \in Mutex, stat[t] = "READY", Needs(t) = m
    PROVE  owner[m] = t
BY DEF MutexInv, Locks, Queues

LEMMA OwnerKept ==
    ASSUME TypeOK, MutexInv, KernelStep, NEW t \in Thread, NEW m \in Mutex,
           owner[m] = t, Needs(t)' = m
    PROVE  owner'[m] = t
<1> USE KernelAssumption
<1>1. owner \in [Mutex -> Thread \cup {Nobody}]
  BY DEF TypeOK, KernelTypeOK
<1>2. ASSUME NEW u \in Thread, NEW n \in Mutex, Enters(u, n) PROVE owner'[m] = t
  BY <1>1, <1>2 DEF Enters, rt_mutex_take
<1>3. ASSUME NEW u \in Thread, NEW n \in Mutex, Leaves(u, n) PROVE owner'[m] = t
  <2>1. CASE n = m
    <3>1. owner[m] = u
      BY <1>3, <2>1, ReadyOwns DEF Leaves
    <3> QED BY <1>3, <3>1 DEF Leaves
  <2>2. CASE n # m
    BY <1>1, <1>3, <2>2 DEF Leaves, rt_mutex_release, kvars
  <2> QED BY <2>1, <2>2
<1>4. CASE Stays \/ (\E u \in Thread : Changes(u)) \/ (\E p \in Nat : Sets(p))
  BY <1>4 DEF Stays, Changes, Sets, rt_thread_control, kvars, rt_thread_timeout, rt_thread_init, rt_thread_mdelay,
              rt_thread_startup, rt_thread_exit, rt_thread_suspend, rt_thread_resume
<1> QED BY <1>2, <1>3, <1>4 DEF KernelStep

LEMMA JobNext == TypeOK /\ JobInv /\ [Next]_vars => JobInv'
<1> SUFFICES ASSUME TypeOK, JobInv, [Next]_vars PROVE JobInv'
  OBVIOUS
<1>1. pc \in [Thread -> PC] /\ job \in [m : Mutex, write : BOOLEAN] /\ server \in Thread
  BY TypeParts, ThreadFacts DEF DataType
<1>2. CASE pc'[server] = pc[server] /\ UNCHANGED <<records, bus>>
  BY <1>2 DEF JobInv, records
<1>3. CASE \E m \in Mutex, write \in BOOLEAN : Press(m, write)
  BY <1>1, <1>3 DEF JobInv, Press
<1>4. CASE Server
  <2>1. CASE ServerTake
    <3>1. job = [m |-> job.m, write |-> job.write] /\ job.m \in {raw_mutex, bench_mutex}
          /\ job.write \in BOOLEAN
      BY <1>1, ApplicationAssumption
    <3>2. job' = job /\ pc'[server] = IF ~job.write THEN "transfer"
                                      ELSE IF job.m = raw_mutex THEN "acc" ELSE "inputs"
      BY <1>1, <2>1 DEF ServerTake, Step, records
    <3>3. CASE job.write
      BY <3>1, <3>2, <3>3 DEF JobInv
    <3>4. CASE ~job.write
      BY <3>2, <3>4 DEF JobInv
    <3> QED BY <3>3, <3>4
  <2>2. CASE ServerStore
    BY <1>1, <2>2 DEF JobInv, ServerStore, Store, Step
  <2>3. CASE ServerBegin \/ BusTake \/ (\E last \in BOOLEAN : BusRelease(last))
             \/ ServerRelease \/ ServerSuspend
    BY <1>1, <2>3 DEF JobInv, ServerBegin, BusTake, BusRelease, ServerRelease, ServerSuspend, Step
  <2> QED BY <1>4, <2>1, <2>2, <2>3 DEF Server
<1> QED BY <1>2, <1>3, <1>4, Frames

LEMMA HoldNext == TypeOK /\ MutexInv /\ HoldInv /\ [Next]_vars => HoldInv'
<1> SUFFICES ASSUME TypeOK, MutexInv, HoldInv, [Next]_vars PROVE HoldInv'
  OBVIOUS
<1> USE ThreadFacts
<1>1. /\ pc \in [Thread -> PC] /\ job.m \in Mutex /\ job'.m \in Mutex
      /\ pc' \in [Thread -> PC]
  BY TypeParts, PcNext, DataNext DEF DataType
<1>2. KernelStep
  BY KernelNext
<1>3. ASSUME pc'[producer] \in {"gyro", "baro", "delay", "release"} PROVE owner'[raw_mutex] = producer
  <2>1. Needs(producer)' = raw_mutex
    BY <1>3, NeedsFacts DEF Needs
  <2>2. CASE pc'[producer] = pc[producer]
    BY <1>2, <1>3, <2>1, <2>2, OwnerKept DEF HoldInv
  <2>3. CASE Producer
    <3>1. stat[producer] = "READY" /\ pc[producer] \in {"acc", "gyro", "baro", "delay"}
      BY <1>1, <1>3, <2>3 DEF Producer, ProducerTake, ProducerAcc, ProducerGyro, ProducerBaro,
                  ProducerDelay, ProducerRelease, ProducerRest, Step, Runs, rt_schedule
    <3>2. Needs(producer) = raw_mutex
      BY <3>1, NeedsFacts DEF Needs
    <3> QED BY <1>2, <2>1, <3>1, <3>2, ReadyOwns, OwnerKept
  <2> QED BY <2>2, <2>3, Frames
<1>4. ASSUME pc'[consumer] \in {"altd", "throtl", "release"} PROVE owner'[raw_mutex] = consumer
  <2>1. Needs(consumer)' = raw_mutex
    BY <1>4, NeedsFacts DEF Needs
  <2>2. CASE pc'[consumer] = pc[consumer]
    BY <1>2, <1>4, <2>1, <2>2, OwnerKept DEF HoldInv
  <2>3. CASE Consumer
    <3>1. stat[consumer] = "READY" /\ pc[consumer] \in {"u0d", "altd", "throtl"}
      BY <1>1, <1>4, <2>3, ThreadAssumption DEF Consumer, ConsumerRest, ConsumerTake, ConsumerCopy, Copy,
                  ConsumerRelease, create_tasks, start_tasks, ConsumerTakeBench, ConsumerInputs,
                  ConsumerOutputs, ConsumerReleaseBench, Step, Runs, rt_schedule
    <3>2. Needs(consumer) = raw_mutex
      BY <3>1, NeedsFacts DEF Needs
    <3> QED BY <1>2, <2>1, <3>1, <3>2, ReadyOwns, OwnerKept
  <2> QED BY <2>2, <2>3, Frames
<1>5. ASSUME pc'[consumer] \in {"outputs", "releasebench"} PROVE owner'[bench_mutex] = consumer
  <2>1. Needs(consumer)' = bench_mutex
    BY <1>5, NeedsFacts DEF Needs
  <2>2. CASE pc'[consumer] = pc[consumer]
    BY <1>2, <1>5, <2>1, <2>2, OwnerKept DEF HoldInv
  <2>3. CASE Consumer
    <3>1. stat[consumer] = "READY" /\ pc[consumer] \in {"inputs", "outputs"}
      BY <1>1, <1>5, <2>3, ThreadAssumption DEF Consumer, ConsumerRest, ConsumerTake, ConsumerCopy, Copy,
                  ConsumerRelease, create_tasks, start_tasks, ConsumerTakeBench, ConsumerInputs,
                  ConsumerOutputs, ConsumerReleaseBench, Step, Runs, rt_schedule
    <3>2. Needs(consumer) = bench_mutex
      BY <3>1, NeedsFacts DEF Needs
    <3> QED BY <1>2, <2>1, <3>1, <3>2, ReadyOwns, OwnerKept
  <2> QED BY <2>2, <2>3, Frames
<1>6. ASSUME \/ pc'[server] \in {"gyro", "baro", "outputs", "transferring", "release"}
             \/ pc'[server] = "transfer" /\ job'.write
      PROVE  owner'[job'.m] = server
  <2>1. Needs(server)' = job'.m
    BY <1>6, NeedsFacts DEF Needs, ServerHolds
  <2>2. CASE pc'[server] = pc[server] /\ UNCHANGED <<records, bus>>
    <3>1. job' = job /\ owner[job.m] = server
      BY <1>6, <2>2 DEF HoldInv, records
    <3> QED BY <1>1, <1>2, <2>1, <3>1, OwnerKept
  <2>3. CASE Server
    <3>1. /\ stat[server] = "READY" /\ job' = job
          /\ pc[server] \in ServerHolds
      BY <1>1, <1>6, <2>3 DEF Server, ServerBegin, ServerTake, ServerStore, Store, BusTake,
                  BusRelease, ServerRelease, ServerSuspend,
                  Step, Runs, rt_schedule, records, ServerHolds
    <3>2. Needs(server) = job.m
      BY <3>1, NeedsFacts DEF Needs
    <3> QED BY <1>1, <1>2, <2>1, <3>1, <3>2, ReadyOwns, OwnerKept
  <2>4. CASE \E m \in Mutex, write \in BOOLEAN : Press(m, write)
    BY <1>1, <1>6, <2>4 DEF Press
  <2> QED BY <2>2, <2>3, <2>4, Frames
<1> QED BY <1>3, <1>4, <1>5, <1>6 DEF HoldInv

(* The arrays are changed by the owner of raw_mutex, the results by the    *)
(* owner of bench_mutex.                                                   *)
LEMMA SamplesKept ==
    ASSUME TypeOK, MutexInv, [Next]_vars, owner[raw_mutex] # producer
    PROVE  UNCHANGED <<acc_v, gyro_v, baro_v>>
<1>1. CASE Producer
  <2>1. ASSUME pc[producer] \in {"acc", "gyro", "baro"}, stat[producer] = "READY" PROVE FALSE
    <3>1. Needs(producer) = raw_mutex
      BY <2>1, NeedsFacts DEF Needs
    <3> QED BY <2>1, <3>1, ReadyOwns, ThreadFacts
  <2>2. ~ProducerAcc /\ ~ProducerGyro /\ \A data \in BOOLEAN : ~ProducerBaro(data)
    BY <2>1 DEF ProducerAcc, ProducerGyro, ProducerBaro, Step, Runs, rt_schedule
  <2> QED BY <1>1, <2>2 DEF Producer, ProducerTake, ProducerDelay, ProducerRelease, ProducerRest, samples
<1> QED BY <1>1, Frames DEF samples

LEMMA ResultsKept ==
    ASSUME TypeOK, MutexInv, [Next]_vars, owner[bench_mutex] # consumer
    PROVE  UNCHANGED results
<1>1. CASE Consumer
  <2>1. ASSUME pc[consumer] \in {"inputs", "outputs"}, stat[consumer] = "READY" PROVE FALSE
    <3>1. Needs(consumer) = bench_mutex
      BY <2>1, NeedsFacts DEF Needs
    <3> QED BY <2>1, <3>1, ReadyOwns, ThreadFacts
  <2>2. ~ConsumerInputs /\ ~ConsumerOutputs
    BY <2>1 DEF ConsumerInputs, ConsumerOutputs, Step, Runs, rt_schedule
  <2> QED BY <1>1, <2>2 DEF Consumer, ConsumerRest, ConsumerTake, ConsumerCopy, Copy, ConsumerRelease,
                  create_tasks, start_tasks, ConsumerTakeBench, ConsumerReleaseBench, points
<1> QED BY <1>1, Frames

(* A reading is stored in two halves; between them only the producer can   *)
(* look at it.                                                             *)
PairInv ==
    /\ pc[producer] = "gyro" => acc_v[curr_read] = sweep
    /\ \A k \in Index : (pc[producer] = "gyro" /\ k = curr_read) \/ acc_v[k] = gyro_v[k]

(* The copies of the consumer are what the arrays hold. *)
CopyInv ==
    /\ pc[consumer] \in {"altd", "throtl", "release"} => in.u0d = acc_v[i] /\ point = i
    /\ pc[consumer] \in {"throtl", "release"} => in.altd = baro_v[i]
    /\ pc[consumer] = "release" => in.throtl = gyro_v[i]

(* And so are the parts of the record of write_raw_mem_async. *)
RawWrite == job = [m |-> raw_mutex, write |-> TRUE]
Saves == {"transfer", "transferring"}
StoreInv ==
    /\ RawWrite /\ pc[server] \in {"gyro", "baro"} \cup Saves => rec.acc = acc_v[w]
    /\ RawWrite /\ pc[server] \in {"baro"} \cup Saves => rec.gyro = gyro_v[w]
    /\ RawWrite /\ pc[server] \in Saves => rec.baro = baro_v[w]

LEMMA PairNext == TypeOK /\ PairInv /\ [Next]_vars => PairInv'
<1> SUFFICES ASSUME TypeOK, PairInv, [Next]_vars PROVE PairInv'
  OBVIOUS
<1>1. /\ pc \in [Thread -> PC] /\ curr_read \in Index /\ producer \in Thread
      /\ acc_v \in [Index -> Sweep] /\ gyro_v \in [Index -> Sweep]
  BY TypeParts, ThreadFacts DEF DataType
<1>2. CASE Producer
  BY <1>1, <1>2 DEF PairInv, Producer, ProducerTake, ProducerAcc, ProducerGyro, ProducerBaro, ProducerDelay,
                    ProducerRelease, ProducerRest, Step, samples
<1> QED BY <1>2, Frames DEF PairInv, samples

LEMMA CopyNext == TypeOK /\ MutexInv /\ HoldInv /\ CopyInv /\ [Next]_vars => CopyInv'
<1> SUFFICES ASSUME TypeOK, MutexInv, HoldInv, CopyInv, [Next]_vars PROVE CopyInv'
  OBVIOUS
<1>1. pc \in [Thread -> PC] /\ in \in Point /\ consumer \in Thread /\ producer # consumer
  BY TypeParts, ThreadFacts, ThreadAssumption DEF DataType
<1>2. CASE Consumer
  <2>1. CASE ConsumerCopy
    BY <1>1, <2>1 DEF ConsumerCopy, Copy, Step, CopyInv, Point, samples
  <2>2. CASE ~ConsumerCopy
    <3>1. pc'[consumer] \notin {"altd", "throtl", "release"}
      BY <1>1, <1>2, <2>2, ThreadFacts, ThreadAssumption
         DEF Consumer, ConsumerRest, ConsumerTake, ConsumerRelease, create_tasks, start_tasks,
             ConsumerTakeBench, ConsumerInputs, ConsumerOutputs, ConsumerReleaseBench, Step
    <3> QED BY <3>1 DEF CopyInv
  <2> QED BY <2>1, <2>2
<1>3. CASE pc'[consumer] = pc[consumer] /\ UNCHANGED <<i, in, point, results>>
  <2>1. CASE pc[consumer] \in {"altd", "throtl", "release"}
    <3>1. UNCHANGED <<acc_v, gyro_v, baro_v>>
      BY <1>1, <2>1, SamplesKept DEF HoldInv
    <3> QED BY <1>3, <3>1 DEF CopyInv
  <2>2. CASE pc[consumer] \notin {"altd", "throtl", "release"}
    BY <1>3, <2>2 DEF CopyInv
  <2> QED BY <2>1, <2>2
<1> QED BY <1>2, <1>3, Frames

LEMMA StoreNext == TypeOK /\ MutexInv /\ HoldInv /\ JobInv /\ StoreInv /\ [Next]_vars => StoreInv'
<1> SUFFICES ASSUME TypeOK, MutexInv, HoldInv, JobInv, StoreInv, [Next]_vars PROVE StoreInv'
  OBVIOUS
<1>1. /\ pc \in [Thread -> PC] /\ server \in Thread /\ producer # server
      /\ rec \in [acc : Sweep, gyro : Sweep, baro : Sweep, in : Index, out : Index]
  BY TypeParts, ThreadFacts, ThreadAssumption DEF DataType
<1>2. CASE Server
  <2>1. CASE ServerStore
    BY <1>1, <2>1, ApplicationAssumption DEF ServerStore, Store, Step, StoreInv, JobInv, RawWrite,
           Saves, samples
  <2>2. CASE ServerTake
    <3>1. RawWrite => pc'[server] = "acc"
      BY <1>1, <2>2 DEF ServerTake, Step, RawWrite
    <3> QED BY <2>2, <3>1 DEF ServerTake, StoreInv, RawWrite, Saves, records
  <2>3. CASE ServerBegin \/ ServerRelease \/ ServerSuspend
    BY <1>1, <2>3 DEF ServerBegin, ServerRelease, ServerSuspend, Step, StoreInv, Saves
  <2>4. CASE BusTake \/ \E last \in BOOLEAN : BusRelease(last)
    <3>1. pc'[server] \in Saves => pc[server] \in Saves
      BY <1>1, <2>4 DEF BusTake, BusRelease, Step, Saves
    <3>2. pc'[server] \notin {"gyro", "baro"}
      BY <1>1, <2>4 DEF BusTake, BusRelease, Step
    <3> QED BY <2>4, <3>1, <3>2 DEF BusTake, BusRelease, StoreInv, RawWrite, samples, records
  <2> QED BY <1>2, <2>1, <2>2, <2>3, <2>4 DEF Server
<1>3. CASE \E m \in Mutex, write \in BOOLEAN : Press(m, write)
  BY <1>1, <1>3 DEF Press, StoreInv, Saves
<1>4. CASE pc'[server] = pc[server] /\ UNCHANGED <<records, bus>>
  <2>1. CASE RawWrite /\ pc[server] \in {"gyro", "baro"} \cup Saves
    <3>1. UNCHANGED <<acc_v, gyro_v, baro_v>>
      BY <1>1, <2>1, SamplesKept DEF HoldInv, RawWrite, Saves
    <3> QED BY <1>4, <3>1 DEF StoreInv, RawWrite, records
  <2>2. CASE ~(RawWrite /\ pc[server] \in {"gyro", "baro"} \cup Saves)
    BY <1>4, <2>2 DEF StoreInv, RawWrite, records
  <2> QED BY <2>1, <2>2
<1> QED BY <1>2, <1>3, <1>4, Frames

-----------------------------------------------------------------------------
(***************************************************************************)
(* The benchmark.  The consumer runs only when no stage is ready, so when  *)
(* it starts a stage all that were started before have ended.              *)
(***************************************************************************)
Ended(k) == stat[stage[k]] = "CLOSE" /\ out[k] = point

Working(k) ==
    /\ stat[stage[k]] = "READY"
    /\ pc[stage[k]] = "run" \/ (pc[stage[k]] = "exit" /\ out[k] = point)
    /\ \A j \in 1..(k - 1) : Ended(j)

StageInv ==
    /\ pc[consumer] \in {"start", "takebench"} => \A k \in 1..Last :
          \/ Ended(k) \/ Working(k)
          \/ stat[stage[k]] = "INIT" /\ pc[consumer] = "start"
    /\ pc[consumer] \notin {"start", "takebench"} =>
          \A k \in 1..Last : stat[stage[k]] = "CLOSE"

(* The inputs are of the index of the consumer, and the results of a point *)
(* are complete but between the two halves of their publication.           *)
PointInv ==
    /\ pc[consumer] \notin {"rest", "take", "u0d"} => point = i
    /\ pc[consumer] \in {"inputs", "outputs"} => out[Last] = point
    /\ pc[consumer] \in {"outputs", "releasebench"} => results.in = point
    /\ pc[consumer] = "outputs" \/ results.in = results.out

BenchWrite == job = [m |-> bench_mutex, write |-> TRUE]
BenchInv ==
    /\ pc[server] = "outputs" => rec.in = results.in
    /\ pc[server] \in Saves /\ BenchWrite => rec.in = rec.out

(* While it starts the stages the consumer has its own priority, which is  *)
(* lower than theirs.                                                      *)
LEMMA NoStageReady ==
    ASSUME TypeOK, MutexInv, Runs(consumer), pc[consumer] \in {"start", "takebench"},
           NEW k \in 1..Last
    PROVE  stat[stage[k]] # "READY"
<1>1. stage[k] \in Stage /\ stage[k] \in Thread /\ consumer \in Thread
  BY ThreadFacts
<1>2. Needs(consumer) = Nobody /\ Needs(stage[k]) = Nobody
  BY <1>1, NeedsFacts DEF Needs
<1>3. \A m \in Mutex : owner[m] # consumer /\ owner[m] # stage[k]
  BY <1>1, <1>2, KernelAssumption DEF MutexInv, Locks
<1>4. prio[consumer] = InitPriority[consumer] /\ prio[stage[k]] = InitPriority[stage[k]]
  BY <1>1, <1>3, ThreadAssumption, OwnFacts DEF MutexInv, Priorities
<1>5. /\ InitPriority[stage[k]] < InitPriority[consumer]
      /\ InitPriority[stage[k]] \in Nat /\ InitPriority[consumer] \in Nat
  BY <1>1, ThreadAssumption, KernelAssumption
<1> QED BY <1>1, <1>4, <1>5, ThreadAssumption DEF Runs, rt_schedule

(* The steps of the others leave the state of the stages alone. *)
LEMMA StageFrame ==
    ASSUME TypeOK, MutexInv, [Next]_vars, NEW t \in Stage,
           ~create_tasks, \A k \in 1..Last : ~start_tasks(k), ~Stages
    PROVE  stat'[t] = stat[t] /\ pc'[t] = pc[t]
<1> USE ThreadFacts, ThreadAssumption
<1>1. pc \in [Thread -> PC] /\ stat \in [Thread -> {"INIT", "READY", "SUSPEND", "CLOSE"}]
  BY TypeParts DEF KernelTypeOK
<1>2. \A m \in Mutex : t \notin In(waiters[m])
  <2>1. Needs(t) = Nobody
    BY StageNeeds
  <2> QED BY <2>1, KernelAssumption DEF MutexInv, Locks
<1>3. ASSUME NEW u \in Thread \ {t}, NEW m \in Mutex, rt_mutex_take(u, m) PROVE stat'[t] = stat[t]
  BY <1>1, <1>3 DEF rt_mutex_take
<1>4. ASSUME NEW u \in Thread, NEW m \in Mutex, rt_mutex_release(u, m) PROVE stat'[t] = stat[t]
  <2>1. CASE waiters[m] # <<>>
    <3>1. Head(waiters[m]) \in In(waiters[m]) /\ Head(waiters[m]) # t
      BY <1>2, <2>1, InTail, TypeParts DEF MutexInv, Queues, KernelTypeOK
    <3> QED BY <1>1, <1>4, <3>1 DEF rt_mutex_release, kvars
  <2>2. CASE waiters[m] = <<>>
    BY <1>4, <2>2 DEF rt_mutex_release, kvars
  <2> QED BY <2>1, <2>2
<1>5. CASE Producer
  BY <1>1, <1>3, <1>4, <1>5 DEF Producer, ProducerTake, ProducerAcc, ProducerGyro, ProducerBaro,
        ProducerDelay, ProducerRelease, ProducerRest, Step, rt_thread_mdelay, kvars
<1>6. CASE Consumer
  BY <1>1, <1>3, <1>4, <1>6 DEF Consumer, ConsumerRest, ConsumerTake, ConsumerCopy, Copy, ConsumerRelease,
        ConsumerTakeBench, ConsumerInputs, ConsumerOutputs, ConsumerReleaseBench, Step,
        rt_thread_mdelay, kvars
<1>7. CASE Server
  <2>1. job.m \in Mutex
    BY TypeParts DEF DataType
  <2> QED BY <1>1, <1>3, <1>4, <1>7, <2>1 DEF Server, ServerBegin, ServerTake, ServerStore, Store,
             BusTake, BusRelease, ServerRelease,
        ServerSuspend, Step, rt_thread_suspend, rt_thread_control, kvars
<1>8. CASE \E m \in Mutex, write \in BOOLEAN : Press(m, write)
  BY <1>1, <1>8 DEF Press, rt_thread_resume
<1>9. ASSUME NEW u \in Thread, Tick(u) PROVE stat'[t] = stat[t] /\ pc'[t] = pc[t]
  BY <1>1, <1>9 DEF Tick, rt_thread_timeout, MutexInv, Timers
<1>10. CASE \/ rt_thread_yield \/ UNCHANGED vars
             \/ \E p \in PriorityByte : rt_timer_deferrable_capacity(p)
  BY <1>10 DEF rt_thread_yield, rt_timer_deferrable_capacity, rt_thread_control, vars, kvars
<1> QED BY <1>5, <1>6, <1>7, <1>8, <1>9, <1>10 DEF Next

LEMMA StageNext == TypeOK /\ MutexInv /\ StageInv /\ [Next]_vars => StageInv'
<1> SUFFICES ASSUME TypeOK, MutexInv, StageInv, [Next]_vars PROVE StageInv'
  OBVIOUS
<1> USE ThreadFacts
<1>1. /\ pc \in [Thread -> PC] /\ stat \in [Thread -> {"INIT", "READY", "SUSPEND", "CLOSE"}]
      /\ out \in [1..Last -> Index]
  BY TypeParts DEF KernelTypeOK, DataType
<1>2. \A j, k \in 1..Last : stage[j] = stage[k] => j = k
  BY ThreadAssumption
<1>3. \A k \in 1..Last : stage[k] \in Thread /\ stage[k] # consumer
  BY ThreadAssumption
<1>4. CASE create_tasks
  <2>1. pc'[consumer] = "start" /\ \A k \in 1..Last : stat'[stage[k]] = "INIT"
    BY <1>1, <1>3, <1>4 DEF create_tasks, Step, rt_thread_init
  <2> QED BY <2>1 DEF StageInv
<1>5. ASSUME NEW k \in 1..Last, start_tasks(k) PROVE StageInv'
  <2>1. /\ pc[consumer] = "start" /\ Runs(consumer)
        /\ pc'[consumer] = IF k = Last THEN "takebench" ELSE "start"
        /\ stat'[stage[k]] = "READY" /\ pc'[stage[k]] = "run"
        /\ \A j \in 1..Last \ {k} : stat'[stage[j]] = stat[stage[j]]
        /\ UNCHANGED <<out, point>>
    BY <1>1, <1>2, <1>3, <1>5 DEF start_tasks, rt_thread_startup, points
  <2>2. \A j \in 1..Last : Ended(j) \/ stat[stage[j]] = "INIT"
    BY <2>1, NoStageReady DEF StageInv, Working
  <2>3. \A j \in 1..(k - 1) : j \in 1..Last \ {k} /\ stat[stage[j]] # "INIT"
    BY <1>5 DEF start_tasks
  <2>4. \A j \in 1..Last \ {k} : Ended(j) => Ended(j)'
    BY <2>1 DEF Ended
  <2>5. Working(k)'
    BY <2>1, <2>2, <2>3, <2>4 DEF Working
  <2>6. \A j \in 1..Last \ {k} : Ended(j)' \/ (stat'[stage[j]] = "INIT" /\ pc'[consumer] = "start")
    <3> SUFFICES ASSUME NEW j \in 1..Last \ {k}, ~Ended(j)
                 PROVE  stat'[stage[j]] = "INIT" /\ pc'[consumer] = "start"
      BY <2>4
    <3>1. stat[stage[j]] = "INIT" /\ j > k
      BY <2>2, <2>3
    <3> QED BY <2>1, <3>1
  <2> QED BY <2>1, <2>5, <2>6 DEF StageInv
<1>6. ASSUME NEW k \in 1..Last, StageRun(k) \/ StageExit(k) PROVE StageInv'
  <2>1. /\ stat[stage[k]] = "READY"
        /\ pc'[consumer] = pc[consumer] /\ point' = point
        /\ \A j \in 1..Last \ {k} :
              stat'[stage[j]] = stat[stage[j]] /\ pc'[stage[j]] = pc[stage[j]] /\ out'[j] = out[j]
    BY <1>1, <1>2, <1>3, <1>6 DEF StageRun, StageExit, Step, Runs, rt_schedule, rt_thread_exit, kvars, points
  <2>2. pc[consumer] \in {"start", "takebench"} /\ Working(k)
    BY <2>1 DEF StageInv, Ended
  <2>3. \A j \in 1..Last \ {k} : Ended(j) \/ (stat[stage[j]] = "INIT" /\ pc[consumer] = "start")
    <3> SUFFICES ASSUME NEW j \in 1..Last \ {k}, Working(j) PROVE Ended(j)
      BY <2>2 DEF StageInv
    <3>1. CASE j < k
      BY <2>2, <3>1 DEF Working
    <3>2. CASE j > k
      <4>1. Ended(k)
        BY <3>2 DEF Working
      <4> QED BY <2>1, <4>1 DEF Ended
    <3> QED BY <3>1, <3>2
  <2>4. \A j \in 1..Last \ {k} : Ended(j) => Ended(j)'
    BY <2>1 DEF Ended
  <2>5. CASE StageRun(k)
    <3>1. \A j \in 1..(k - 1) : j \in 1..Last \ {k} /\ Ended(j) /\ Ended(j)'
      BY <2>2, <2>4 DEF Working
    <3>2. out'[k] = point
      <4>1. k # 1 => k - 1 \in 1..(k - 1) /\ out[k - 1] = point
        BY <3>1 DEF Ended
      <4> QED BY <1>1, <2>5, <4>1 DEF StageRun
    <3>3. stat'[stage[k]] = "READY" /\ pc'[stage[k]] = "exit"
      BY <1>1, <1>3, <2>1, <2>5 DEF StageRun, Step, kvars
    <3>4. Working(k)'
      BY <2>1, <3>1, <3>2, <3>3 DEF Working
    <3> QED BY <2>1, <2>2, <2>3, <2>4, <3>4 DEF StageInv
  <2>6. CASE StageExit(k)
    <3>1. Ended(k)'
      BY <1>1, <1>3, <2>1, <2>2, <2>6 DEF StageExit, Step, rt_thread_exit, points, Working, Ended
    <3> QED BY <2>1, <2>2, <2>3, <2>4, <3>1 DEF StageInv
  <2> QED BY <1>6, <2>5, <2>6
<1>7. CASE ~create_tasks /\ (\A k \in 1..Last : ~start_tasks(k)) /\ ~Stages
  <2>1. \A k \in 1..Last : stat'[stage[k]] = stat[stage[k]] /\ pc'[stage[k]] = pc[stage[k]]
    BY <1>7, StageFrame
  <2>2. UNCHANGED out
    BY <1>7, Frames
  <2>3. CASE pc'[consumer] = pc[consumer] /\ point' = point
    BY <2>1, <2>2, <2>3 DEF StageInv, Ended, Working
  <2>4. CASE ConsumerTakeBench
    <3>1. \A k \in 1..Last : stat[stage[k]] = "CLOSE" /\ pc'[consumer] = "inputs"
      BY <1>1, <2>4, NoStageReady DEF ConsumerTakeBench, Step, StageInv, Ended, Working
    <3> QED BY <2>1, <3>1 DEF StageInv
  <2>5. CASE Consumer /\ ~ConsumerTakeBench
    <3>1. /\ pc[consumer] \notin {"start", "takebench"}
          /\ pc'[consumer] \notin {"start", "takebench"}
      BY <1>1, <1>7, <2>5 DEF Consumer, ConsumerRest, ConsumerTake, ConsumerCopy, Copy, ConsumerRelease,
            ConsumerInputs, ConsumerOutputs, ConsumerReleaseBench, Step
    <3> QED BY <2>1, <3>1 DEF StageInv
  <2> QED BY <2>3, <2>4, <2>5, Frames
<1> QED BY <1>4, <1>5, <1>6, <1>7 DEF Stages

LEMMA PointNext ==
    TypeOK /\ MutexInv /\ StageInv /\ PointInv /\ [Next]_vars => PointInv'
<1> SUFFICES ASSUME TypeOK, MutexInv, StageInv, PointInv, [Next]_vars PROVE PointInv'
  OBVIOUS
<1>1. /\ pc \in [Thread -> PC] /\ consumer \in Thread /\ results \in [in : Index, out : Index]
      /\ Last \in 1..Last
  BY TypeParts, ThreadFacts DEF DataType
<1>2. CASE Consumer
  <2> USE <1>1
  <2>1. CASE ConsumerTakeBench
    <3>1. /\ pc[consumer] = "takebench" /\ pc'[consumer] = "inputs"
          /\ Runs(consumer) /\ UNCHANGED <<i, point, out, results>>
      BY <2>1 DEF ConsumerTakeBench, Step, points
    <3>2. Ended(Last)
      BY <3>1, NoStageReady DEF StageInv, Working
    <3> QED BY <3>1, <3>2 DEF PointInv, Ended
  <2>2. CASE ConsumerRest \/ ConsumerTake \/ ConsumerRelease \/ create_tasks
    BY <2>2 DEF ConsumerRest, ConsumerTake, ConsumerRelease, create_tasks, Step, points, PointInv
  <2>3. CASE ConsumerCopy
    BY <2>3 DEF ConsumerCopy, Copy, Step, PointInv
  <2>4. ASSUME NEW k \in 1..Last, start_tasks(k) PROVE PointInv'
    <3>1. pc[consumer] = "start" /\ pc'[consumer] \in {"start", "takebench"}
      BY <2>4, ThreadFacts, ThreadAssumption DEF start_tasks
    <3> QED BY <2>4, <3>1 DEF start_tasks, points, PointInv
  <2>5. CASE ConsumerInputs
    BY <2>5 DEF ConsumerInputs, Step, PointInv
  <2>6. CASE ConsumerOutputs
    BY <2>6 DEF ConsumerOutputs, Step, PointInv
  <2>7. CASE ConsumerReleaseBench
    BY <2>7 DEF ConsumerReleaseBench, Step, PointInv
  <2> QED BY <1>2, <2>1, <2>2, <2>3, <2>4, <2>5, <2>6, <2>7 DEF Consumer
<1>3. CASE pc'[consumer] = pc[consumer] /\ UNCHANGED <<i, in, point, results>>
  <2>1. CASE UNCHANGED out
    BY <1>3, <2>1 DEF PointInv
  <2>2. CASE Stages
    <3>1. pc[consumer] \in {"start", "takebench"}
      BY <2>2 DEF Stages, StageRun, StageExit, Step, Runs, rt_schedule, StageInv
    <3> QED BY <1>3, <3>1 DEF PointInv
  <2> QED BY <2>1, <2>2, Frames
<1> QED BY <1>2, <1>3, Frames

LEMMA BenchNext ==
    TypeOK /\ MutexInv /\ HoldInv /\ JobInv /\ PointInv /\ BenchInv /\ [Next]_vars => BenchInv'
<1> SUFFICES ASSUME TypeOK, MutexInv, HoldInv, JobInv, PointInv, BenchInv, [Next]_vars PROVE BenchInv'
  OBVIOUS
<1>1. /\ pc \in [Thread -> PC] /\ server \in Thread /\ consumer # server
      /\ rec \in [acc : Sweep, gyro : Sweep, baro : Sweep, in : Index, out : Index]
  BY TypeParts, ThreadFacts, ThreadAssumption DEF DataType
<1>2. CASE Server
  <2>1. CASE pc[server] = "outputs"
    <3>1. /\ pc'[server] = "transfer" /\ rec' = [rec EXCEPT !.out = results.out]
          /\ owner[bench_mutex] = server
      BY <1>1, <1>2, <2>1 DEF Server, ServerBegin, ServerTake, ServerStore, Store, BusTake,
                  BusRelease, ServerRelease, ServerSuspend,
             Step, HoldInv, JobInv
    <3>2. results.in = results.out
      BY <1>1, <3>1 DEF HoldInv, PointInv
    <3> QED BY <1>1, <2>1, <3>1, <3>2 DEF BenchInv, Saves
  <2>2. CASE pc[server] = "inputs"
    BY <1>1, <1>2, <2>2 DEF Server, ServerBegin, ServerTake, ServerStore, Store, BusTake,
                  BusRelease, ServerRelease, ServerSuspend,
           Step, BenchInv, Saves, points
  <2>3. CASE pc[server] \notin {"inputs", "outputs"}
    <3>1. /\ pc'[server] # "outputs"
          /\ pc'[server] \in Saves /\ BenchWrite' => pc[server] \in Saves /\ BenchWrite /\ rec' = rec
      BY <1>1, <1>2, <2>3, ApplicationAssumption DEF Server, ServerBegin, ServerTake, ServerStore, Store,
             BusTake, BusRelease, ServerRelease,
             ServerSuspend, Step, BenchWrite, JobInv, Saves, records
    <3> QED BY <3>1 DEF BenchInv
  <2> QED BY <2>1, <2>2, <2>3
<1>3. CASE \E m \in Mutex, write \in BOOLEAN : Press(m, write)
  BY <1>1, <1>3 DEF Press, BenchInv, Saves
<1>4. CASE pc'[server] = pc[server] /\ UNCHANGED <<records, bus>>
  <2>1. pc[server] = "outputs" => results' = results
    BY <1>1, ResultsKept DEF HoldInv, JobInv
  <2> QED BY <1>4, <2>1 DEF BenchInv, BenchWrite, records
<1> QED BY <1>2, <1>3, <1>4, Frames

(* All of it holds at the start, when no thread is in a critical section.  *)
AppInv == MutexInv /\ BusInv /\ HoldInv /\ JobInv /\ PairInv /\ CopyInv /\ StoreInv
          /\ StageInv /\ PointInv /\ BenchInv

LEMMA AppInit == Init => AppInv
<1> SUFFICES ASSUME Init PROVE AppInv
  OBVIOUS
<1>1. /\ pc[producer] = "take" /\ pc[consumer] = "rest" /\ pc[server] = "idle"
      /\ \A k \in 1..Last : stat[stage[k]] = "CLOSE"
  BY ThreadFacts, ThreadAssumption DEF Init, KernelInit
<1>2. acc_v = gyro_v /\ results.in = results.out
  BY DEF Init
<1> QED BY <1>1, <1>2, MutexInit DEF AppInv, BusInv, HoldInv, JobInv, PairInv, CopyInv, StoreInv,
            Saves, StageInv, PointInv, BenchInv

LEMMA AppSafe == Spec => [](TypeOK /\ AppInv)
<1>1. TypeOK /\ AppInv /\ [Next]_vars => AppInv'
  <2> SUFFICES ASSUME TypeOK, AppInv, [Next]_vars PROVE AppInv'
    OBVIOUS
  <2>1. MutexInv' /\ BusInv'
    BY KernelNext, MutexNext, BusNext DEF AppInv
  <2> QED BY <2>1, HoldNext, JobNext, PairNext, CopyNext, StoreNext, StageNext, PointNext, BenchNext
          DEF AppInv
<1> QED BY AppInit, <1>1, ApplicationTypeCorrect, PTL DEF Spec

(* The three values of a point of the consumer, and the three parts of a   *)
(* record of write_raw_mem_async, are one reading of the sensors: both     *)
(* copy under raw_mutex, under which the producer stores.                  *)
THEOREM SampleCorrect == Spec => []SampleWhole
<1>1. TypeOK /\ AppInv => SampleWhole
  <2> SUFFICES ASSUME TypeOK, AppInv PROVE SampleWhole
    OBVIOUS
  <2>1. /\ i \in Index /\ w \in Index /\ in \in Point
        /\ producer # consumer /\ producer # server
    BY TypeParts, ThreadAssumption DEF DataType
  <2>2. ASSUME pc[consumer] = "release"
        PROVE  /\ in = [u0d |-> acc_v[point], altd |-> baro_v[point], throtl |-> gyro_v[point]]
               /\ in.u0d = in.throtl
    <3>1. acc_v[i] = gyro_v[i]
      BY <2>1, <2>2 DEF AppInv, HoldInv, PairInv
    <3>2. in.u0d = acc_v[i] /\ in.altd = baro_v[i] /\ in.throtl = gyro_v[i] /\ point = i
      BY <2>2 DEF AppInv, CopyInv
    <3> QED BY <2>1, <3>1, <3>2 DEF Point
  <2>3. ASSUME pc[server] = "transferring", RawWrite
        PROVE  /\ rec.acc = acc_v[w] /\ rec.gyro = gyro_v[w] /\ rec.baro = baro_v[w]
               /\ rec.acc = rec.gyro
    <3>1. acc_v[w] = gyro_v[w]
      BY <2>1, <2>3 DEF AppInv, HoldInv, PairInv, RawWrite
    <3> QED BY <2>3, <3>1 DEF AppInv, StoreInv, Saves
  <2> QED BY <2>2, <2>3 DEF SampleWhole, RawWrite
<1> QED BY <1>1, AppSafe, PTL

(* A record of write_bench_mem_async holds the inputs and the outputs of   *)
(* one point.                                                              *)
THEOREM RecordCorrect == Spec => []RecordWhole
<1>1. AppInv => RecordWhole
  BY DEF AppInv, BenchInv, BenchWrite, Saves, RecordWhole
<1> QED BY <1>1, AppSafe, PTL

(* create_tasks finds all the threads of the last benchmark ended, though  *)
(* nothing in the code waits for them.                                     *)
THEOREM ClosedCorrect == Spec => []StagesClosed
<1>1. AppInv => StagesClosed
  BY DEF AppInv, StageInv, StagesClosed, Stage
<1> QED BY <1>1, AppSafe, PTL

(* What the consumer publishes for a point was computed from the inputs of *)
(* that point by all the stages in their order.                            *)
THEOREM PointCorrect == Spec => []PointComplete
<1>1. TypeOK /\ AppInv => PointComplete
  <2> SUFFICES ASSUME TypeOK, AppInv, pc[consumer] = "releasebench"
               PROVE  results = [in |-> i, out |-> i]
    BY DEF PointComplete
  <2>1. results \in [in : Index, out : Index]
    BY TypeParts DEF DataType
  <2>2. results.in = i /\ results.out = i
    BY DEF AppInv, PointInv
  <2> QED BY <2>1, <2>2
<1> QED BY <1>1, AppSafe, PTL
=============================================================================
