----------------------------- MODULE BootProofs -----------------------------
(***************************************************************************)
(* Proofs about the start of the application, for any number of presses at *)
(* any moment of it, any failures of transfers and any state in which an   *)
(* earlier start left the sensors.                                         *)
(***************************************************************************)
EXTENDS Boot, TLAPS

(* The places of main from the barometer on, and past it. *)
Barometer == {"check", "getmode", "reset", "delay", "calibration", "standby", "filter", "osrst",
              "osrsp", "setmode", "report"}
Past == Start \cup {"done"}

-----------------------------------------------------------------------------
(***************************************************************************)
(* The order of the start.  The server exists before a button is enabled,  *)
(* and both mutexes before main is done.                                   *)
(***************************************************************************)
OrderInv ==
    /\ pc \in Device \cup Start \cup End
    /\ pc \in Past \ {"server"} => server # "none"
    /\ enabled # {} => server # "none"
    /\ created \subseteq Button
    /\ pc = "bench_mutex" => raw \in created
    /\ pc \in {"producer", "consumer", "done"} => created = Button
    /\ queue \in Seq(Button)
    /\ server \in {"ready", "body"} => queue # <<>>
    /\ fault => pc = "error" /\ created # Button

LEMMA OrderInit == Init => OrderInv
BY DEF Init, OrderInv, Device, Start, End, Past

(* A step of main that concerns the devices only. *)
LEMMA OrderDevice ==
    ASSUME OrderInv, UNCHANGED <<irq, system>>, pc \in Device,
           pc' \in Device \cup {"server", "error", "crash"}
    PROVE  OrderInv'
<1>1. pc # "error" /\ pc' \notin Past \ {"server"}
  BY DEF Device, Past, Start
<1> QED BY <1>1 DEF OrderInv, irq, system, Device, Start, End, Past

LEMMA OrderNext == OrderInv /\ [Next]_vars => OrderInv'
<1> SUFFICES ASSUME OrderInv, [Next]_vars PROVE OrderInv'
  OBVIOUS
<1>1. ASSUME NEW r \in BOOLEAN, NEW w \in BOOLEAN,
             \/ MpuInit \/ Erase \/ BMP280_init \/ Delay \/ MpuReset(w) \/ w25q64_init(w)
             \/ Configure(r, w) \/ Report(r)
      PROVE  OrderInv'
  <2>1. UNCHANGED <<irq, system>>
    BY <1>1 DEF MpuInit, Erase, BMP280_init, Delay, MpuReset, w25q64_init, Configure, Chip, Report
  <2>2. pc \in Device /\ pc' \in Device \cup {"server", "error", "crash"}
    BY <1>1 DEF MpuInit, Erase, BMP280_init, Delay, MpuReset, w25q64_init, Configure, Chip, Report,
                At, Device
  <2> QED BY <2>1, <2>2, OrderDevice
<1>2. CASE StartSystem
  <2> USE DEF OrderInv, At, Device, Start, End, Past, irq
  <2>1. CASE StartServer
    BY <2>1 DEF StartServer, system
  <2>2. CASE \/ Enable(raw, "raw_button", "bench_button") \/ Enable(bench, "bench_button", "raw_mutex")
    BY <2>2 DEF Enable
  <2>3. ASSUME NEW ok \in BOOLEAN,
               \/ Create(raw, "raw_mutex", "bench_mutex", ok)
               \/ Create(bench, "bench_mutex", "producer", ok)
        PROVE  OrderInv'
    BY <2>3, BootAssumption DEF Create
  <2>4. CASE StartThread("producer", "consumer") \/ StartThread("consumer", "done")
    BY <2>4 DEF StartThread
  <2> QED BY <1>2, <2>1, <2>2, <2>3, <2>4 DEF StartSystem
<1>3. ASSUME NEW b \in Button, Press(b) PROVE OrderInv'
  <2>1. server # "none" /\ queue' \in Seq(Button) /\ queue' # <<>>
    BY <1>3 DEF Press, OrderInv
  <2>2. fault' => fault
    BY <1>3, <2>1, Zenon DEF Press
  <2> QED BY <1>3, <2>1, <2>2 DEF Press, OrderInv, system
<1>4. CASE ServerTake
  <2>1. Head(queue) \in Button
    BY <1>4 DEF ServerTake, OrderInv
  <2>2. fault' => Head(queue) \notin created
    BY <1>4, Zenon DEF ServerTake
  <2>3. fault' => pc' = "error" /\ created' # Button
    BY <1>4, <2>1, <2>2 DEF ServerTake, OrderInv, system
  <2> QED BY <1>4, <2>3 DEF ServerTake, OrderInv, system
<1>5. CASE ServerDone
  BY <1>5 DEF ServerDone, OrderInv, system
<1>6. CASE Recover \/ Sample \/ (\E r \in BOOLEAN : Read(r)) \/ UNCHANGED vars
  BY <1>6 DEF Recover, Sample, Read, vars, OrderInv, irq, system
<1> QED BY <1>1, <1>2, <1>3, <1>4, <1>5, <1>6 DEF Next, Main

(* No press, at whatever moment, reaches a server that does not exist, or  *)
(* makes it take a mutex that does not: the server waits for main to end,  *)
(* which creates both unless it fails to.                                  *)
THEOREM MissingCorrect == Spec => []NothingMissing
<1>1. OrderInv => NothingMissing
  BY DEF OrderInv, NothingMissing
<1> QED BY OrderInit, OrderNext, <1>1, PTL DEF Spec

-----------------------------------------------------------------------------
(***************************************************************************)
(* The devices.  At each place of main, what the steps before it have done *)
(* if no transfer has failed.                                              *)
(***************************************************************************)
Measuring == [[Off EXCEPT !["osrs_t"] = 32] EXCEPT !["osrs_p"] = 8]

(* Nothing measured, or under the settings main has made. *)
Wanted == [UT : {"none", "set"}, UP : {"none", "set"}]

RegInv ==
    /\ pc \in {"delay", "calibration", "standby", "filter", "osrst"} => reg = Off
    /\ pc = "osrsp" => reg = [Off EXCEPT !["osrs_t"] = 32]
    /\ pc = "setmode" => reg = Measuring
    /\ pc \in {"report"} \cup Past => reg = Intended
    /\ pc \in {"standby", "filter", "osrst", "osrsp", "setmode", "report"} \cup Past =>
          cal_param = "read"
    /\ pc \in {"delay", "calibration", "standby", "filter", "osrst", "osrsp", "setmode"} =>
          data = NoData
    /\ pc \in {"report"} \cup Past => data \in Wanted
    /\ pc \in Past => mode = NORMAL

SetupInv ==
    /\ reg \in [Field -> Nat]
    /\ chip = "ready" \/ pc = "delay"
    /\ pc \in Barometer \cup Past => bus /\ erased
    /\ pc = "bmp_init" => erased
    /\ bus /\ ~failed => mpu \/ pc \in {"mpu_init", "mpu_reset"}
    /\ present /\ ~failed => RegInv

(* A setter whose transfers succeed changes its field only. *)
LEMMA SetWorks ==
    ASSUME reg \in [Field -> Nat], Answers, NEW f \in Field, NEW v, NEW r, NEW w, r, w, Set(f, v, r, w)
    PROVE  reg' = [reg EXCEPT ![f] = v]
<1>1. reg' = [g \in Field |-> IF g = f THEN v
                             ELSE IF g \in RegisterOf(f) THEN reg[g] ELSE reg[g]]
  BY DEF Set, __reg_read
<1> QED BY <1>1

LEMMA SetType ==
    ASSUME reg \in [Field -> Nat], NEW f \in Field, NEW v \in Nat, NEW r, NEW w, Set(f, v, r, w)
    PROVE  reg' \in [Field -> Nat]
<1>1. __reg_read(r) \in [Field -> Nat]
  BY DEF __reg_read, Off
<1> QED BY <1>1 DEF Set

(* The five settings, one after the other from a chip that was reset, are  *)
(* the intended ones.                                                      *)
LEMMA Settings ==
    /\ [Off EXCEPT !["t_sb"] = Intended.t_sb] = Off
    /\ [Off EXCEPT !["filter"] = Intended.filter] = Off
    /\ [Off EXCEPT !["osrs_t"] = Intended.osrs_t] = [Off EXCEPT !["osrs_t"] = 32]
    /\ [[Off EXCEPT !["osrs_t"] = 32] EXCEPT !["osrs_p"] = Intended.osrs_p] = Measuring
    /\ [Measuring EXCEPT !["mode"] = Intended.mode] = Intended
<1> DEFINE full == [Measuring EXCEPT !["mode"] = Intended.mode]
<1>1. /\ Intended.t_sb = 0 /\ Intended.filter = 0 /\ Intended.osrs_t = 32 /\ Intended.osrs_p = 8
      /\ Intended.mode = NORMAL
  BY DEF Intended
<1>2. Field = {"osrs_t", "osrs_p", "mode", "t_sb", "filter"}
  BY DEF Field, ctrl_meas, config
<1>3. /\ [Off EXCEPT !["t_sb"] = Intended.t_sb] = Off
      /\ [Off EXCEPT !["filter"] = Intended.filter] = Off
  BY <1>1, <1>2 DEF Off
<1>4. full = Intended
  <2>1. full = [f \in Field |-> IF f = "mode" THEN NORMAL ELSE IF f = "osrs_p" THEN 8
                                ELSE IF f = "osrs_t" THEN 32 ELSE 0]
    BY <1>1, <1>2 DEF Measuring, Off
  <2>2. Intended = [f \in {"t_sb", "filter", "osrs_t", "osrs_p", "mode"} |->
                      IF f = "mode" THEN NORMAL ELSE IF f = "osrs_p" THEN 8
                      ELSE IF f = "osrs_t" THEN 32 ELSE 0]
    BY DEF Intended
  <2> QED BY <1>2, <2>1, <2>2
<1> QED BY <1>1, <1>3, <1>4 DEF Measuring

(* Whoever is still without a failure had none before. *)
LEMMA NoFailure ==
    ASSUME NEW f, NEW v, NEW r \in BOOLEAN, NEW w \in BOOLEAN
    PROVE  /\ Set(f, v, r, w) /\ ~failed' => ~failed /\ r /\ w
           /\ Get(r) /\ ~failed' => ~failed /\ r
           /\ BMP280_Reset(w) /\ ~failed' => ~failed /\ w
           /\ BMP280_Read_Calibration(r) /\ ~failed' => ~failed /\ r
<1>1. Set(f, v, r, w) /\ ~failed' => ~failed /\ r /\ w
  BY Zenon DEF Set
<1>2. Get(r) /\ ~failed' => ~failed /\ r
  BY Zenon DEF Get
<1>3. BMP280_Reset(w) /\ ~failed' => ~failed /\ w
  BY Zenon DEF BMP280_Reset
<1>4. BMP280_Read_Calibration(r) /\ ~failed' => ~failed /\ r
  BY Zenon DEF BMP280_Read_Calibration
<1> QED BY <1>1, <1>2, <1>3, <1>4

(* One setting of the barometer: the registers go from one value to the    *)
(* next.                                                                   *)
LEMMA SetStep ==
    ASSUME SetupInv, NEW f \in Field, NEW v \in Nat, NEW r \in BOOLEAN, NEW w \in BOOLEAN,
           NEW from \in {"standby", "filter", "osrst", "osrsp", "setmode"},
           NEW to \in {"filter", "osrst", "osrsp", "setmode", "report"},
           Chip(from, to, Set(f, v, r, w)),
           present /\ ~failed /\ RegInv /\ reg' = [reg EXCEPT ![f] = v] /\ cal_param = "read"
              /\ UNCHANGED <<cal_param, data>> => RegInv'
    PROVE  SetupInv'
<1>1. /\ pc = from /\ pc' = to /\ Set(f, v, r, w)
      /\ UNCHANGED <<bus, mpu, erased, mode, present, chip, data, cal_param>>
  BY DEF Chip, At, device, Set
<1>2. chip = "ready" /\ bus /\ erased /\ pc \notin {"mpu_init", "mpu_reset"}
  BY <1>1 DEF SetupInv, Barometer
<1>3. reg' \in [Field -> Nat]
  BY <1>1, SetType DEF SetupInv
<1>4. ~failed' => ~failed /\ mpu'
  BY <1>1, <1>2, NoFailure DEF SetupInv
<1>5. ASSUME present', ~failed' PROVE RegInv'
  <2>1. present /\ ~failed /\ r /\ w /\ RegInv
    BY <1>1, <1>5, NoFailure DEF SetupInv
  <2>2. reg' = [reg EXCEPT ![f] = v]
    BY <1>1, <1>2, <2>1, SetWorks DEF SetupInv, Answers
  <2>3. cal_param = "read"
    BY <1>1, <2>1 DEF RegInv
  <2> QED BY <1>1, <2>1, <2>2, <2>3
<1> QED BY <1>1, <1>2, <1>3, <1>4, <1>5 DEF SetupInv, Past, Start

LEMMA SetupInit == Init => SetupInv
<1> SUFFICES ASSUME Init PROVE SetupInv
  OBVIOUS
<1>1. reg \in [Field -> Nat] /\ chip = "ready" /\ pc = "mpu_init"
  BY DEF Init, ChipInit
<1> QED BY <1>1 DEF SetupInv, RegInv, Barometer, Past, Start

LEMMA SetupConfigure ==
    ASSUME SetupInv, NEW r \in BOOLEAN, NEW w \in BOOLEAN, Configure(r, w)
    PROVE  SetupInv'
<1>1. CASE Chip("check", "getmode", Get(r))
  <2>1. /\ pc = "check" /\ pc' = "getmode" /\ UNCHANGED <<present, chip, reg, data, cal_param, bus, mpu, erased, mode>>
        /\ ~failed' => ~failed
    BY <1>1, NoFailure DEF Chip, At, Get, device
  <2> QED BY <2>1 DEF SetupInv, RegInv, Barometer, Past, Start
<1>2. CASE Chip("reset", "delay", BMP280_Reset(w))
  <2>1. /\ pc = "reset" /\ pc' = "delay" /\ UNCHANGED <<present, bus, mpu, erased, mode>>
        /\ ~failed' => ~failed /\ w
    BY <1>2, NoFailure DEF Chip, At, BMP280_Reset, device
  <2>2. reg' \in [Field -> Nat] /\ (present /\ w => reg' = Off /\ data' = NoData)
    BY <1>2, <2>1 DEF Chip, BMP280_Reset, Answers, SetupInv, Off
  <2> QED BY <2>1, <2>2 DEF SetupInv, RegInv, Barometer, Past, Start
<1>3. CASE Chip("calibration", "standby", BMP280_Read_Calibration(r))
  <2>1. /\ pc = "calibration" /\ pc' = "standby"
        /\ UNCHANGED <<present, chip, reg, data, bus, mpu, erased, mode>>
        /\ ~failed' => ~failed /\ r
    BY <1>3, NoFailure DEF Chip, At, BMP280_Read_Calibration, device
  <2>2. present /\ r => cal_param' = "read"
    BY <1>3, <2>1 DEF Chip, BMP280_Read_Calibration, Answers, SetupInv
  <2> QED BY <2>1, <2>2 DEF SetupInv, RegInv, Barometer, Past, Start
<1> USE Settings DEF RegInv, Past, Start, Wanted, NoData
<1>4. CASE Chip("standby", "filter", Set("t_sb", Intended.t_sb, r, w))
  <2>1. pc = "standby" /\ pc' = "filter" /\ "t_sb" \in Field /\ Intended.t_sb \in Nat
    BY <1>4 DEF Chip, At, Field, config, Intended
  <2> QED BY <1>4, <2>1, SetStep
<1>5. CASE Chip("filter", "osrst", Set("filter", Intended.filter, r, w))
  <2>1. pc = "filter" /\ pc' = "osrst" /\ "filter" \in Field /\ Intended.filter \in Nat
    BY <1>5 DEF Chip, At, Field, config, Intended
  <2> QED BY <1>5, <2>1, SetStep
<1>6. CASE Chip("osrst", "osrsp", Set("osrs_t", Intended.osrs_t, r, w))
  <2>1. pc = "osrst" /\ pc' = "osrsp" /\ "osrs_t" \in Field /\ Intended.osrs_t \in Nat
    BY <1>6 DEF Chip, At, Field, ctrl_meas, Intended
  <2> QED BY <1>6, <2>1, SetStep
<1>7. CASE Chip("osrsp", "setmode", Set("osrs_p", Intended.osrs_p, r, w))
  <2>1. pc = "osrsp" /\ pc' = "setmode" /\ "osrs_p" \in Field /\ Intended.osrs_p \in Nat
    BY <1>7 DEF Chip, At, Field, ctrl_meas, Intended
  <2> QED BY <1>7, <2>1, SetStep
<1>8. CASE Chip("setmode", "report", Set("mode", Intended.mode, r, w))
  <2>1. pc = "setmode" /\ pc' = "report" /\ "mode" \in Field /\ Intended.mode \in Nat
    BY <1>8 DEF Chip, At, Field, ctrl_meas, Intended, NORMAL
  <2> QED BY <1>8, <2>1, SetStep
<1> QED BY <1>1, <1>2, <1>3, <1>4, <1>5, <1>6, <1>7, <1>8 DEF Configure

LEMMA SetupNext == SetupInv /\ [Next]_vars => SetupInv'
<1> SUFFICES ASSUME SetupInv, [Next]_vars PROVE SetupInv'
  OBVIOUS
<1> USE DEF At, Barometer, Past, Start
<1>1. CASE MpuInit
  BY <1>1 DEF MpuInit, chipvars, device, SetupInv, RegInv
<1>2. ASSUME NEW w \in BOOLEAN, MpuReset(w) PROVE SetupInv'
  <2>1. /\ pc' \in {"w25q64_init", "crash"}
        /\ UNCHANGED <<present, chip, reg, data, cal_param, bus, erased, mode>>
        /\ chip = "ready"
    BY <1>2 DEF MpuReset, SetupInv
  <2>2. bus /\ ~failed' => mpu'
    BY <1>2, Zenon DEF MpuReset
  <2> QED BY <2>1, <2>2 DEF SetupInv, RegInv
<1>3. ASSUME NEW ok \in BOOLEAN, w25q64_init(ok) PROVE SetupInv'
  BY <1>3 DEF w25q64_init, chipvars, device, SetupInv, RegInv
<1>4. CASE Erase
  BY <1>4 DEF Erase, chipvars, SetupInv, RegInv
<1>5. CASE BMP280_init
  BY <1>5 DEF BMP280_init, chipvars, device, SetupInv, RegInv
<1>6. CASE Delay
  BY <1>6 DEF Delay, chipvars, device, SetupInv, RegInv
<1>7. ASSUME NEW r \in BOOLEAN, NEW w \in BOOLEAN, Configure(r, w) PROVE SetupInv'
  BY <1>7, SetupConfigure
<1>8. ASSUME NEW r \in BOOLEAN, Report(r) PROVE SetupInv'
  <2>1. /\ UNCHANGED <<present, chip, reg, data, cal_param, bus, mpu, erased>>
        /\ mode' = BMP280_GetMode(r)
        /\ ~failed' => ~failed /\ r
    BY <1>8, NoFailure DEF Report, Get
  <2>2. CASE pc = "getmode" /\ pc' = "reset"
    BY <2>1, <2>2 DEF SetupInv, RegInv
  <2>3. CASE pc = "report" /\ pc' = "server"
    <3>1. present /\ ~failed' => reg = Intended /\ cal_param = "read" /\ data \in Wanted
      BY <2>1, <2>3 DEF SetupInv, RegInv
    <3>2. present /\ ~failed' => mode' = NORMAL
      BY <2>1, <2>3, <3>1 DEF SetupInv, BMP280_GetMode, __reg_read, Answers, Intended
    <3> QED BY <2>1, <2>3, <3>1, <3>2 DEF SetupInv, RegInv
  <2> QED BY <1>8, <2>2, <2>3 DEF Report
<1>9. CASE StartSystem
  <2>1. UNCHANGED <<chipvars, device>> /\ pc \in Past /\ pc' \in Past \cup {"error"}
    BY <1>9 DEF StartSystem, StartServer, Enable, Create, StartThread
  <2> QED BY <2>1 DEF chipvars, device, SetupInv, RegInv
<1>10. ASSUME NEW r \in BOOLEAN, Read(r) PROVE SetupInv'
  BY <1>10 DEF Read, chipvars, device, SetupInv, RegInv
<1>11. CASE Recover
  BY <1>11 DEF Recover, ChipReady, device, SetupInv, RegInv
<1>12. CASE (\E b \in Button : Press(b)) \/ ServerTake \/ ServerDone \/ UNCHANGED vars
  BY <1>12 DEF Press, ServerTake, ServerDone, vars, chipvars, device, SetupInv, RegInv
<1>13. CASE Sample
  <2>1. /\ reg["mode"] = NORMAL /\ UNCHANGED <<present, chip, reg, cal_param, failed, pc, device>>
        /\ reg = Intended => data' = [UT |-> "set", UP |-> "set"]
    BY <1>13 DEF Sample, Measure, Intended
  <2>2. Off["mode"] # NORMAL /\ Measuring["mode"] # NORMAL /\ [Off EXCEPT !["osrs_t"] = 32]["mode"] # NORMAL
    BY DEF Off, Measuring, NORMAL, Field, ctrl_meas, config
  <2>3. [UT |-> "set", UP |-> "set"] \in Wanted
    BY DEF Wanted
  <2>4. ASSUME present, ~failed PROVE RegInv'
    BY <2>1, <2>2, <2>3, <2>4 DEF SetupInv, RegInv, device
  <2> QED BY <2>1, <2>4 DEF SetupInv, device
<1> QED BY <1>1, <1>2, <1>3, <1>4, <1>5, <1>6, <1>7, <1>8, <1>9, <1>10, <1>11, <1>12, <1>13
        DEF Next, Main

(* When main has come to the server there is a bus and the FLASH is        *)
(* erased; unless a transfer failed the sensors are set up as main wants   *)
(* them, whatever the registers held at first, and main has reported it.   *)
THEOREM ConfiguredCorrect == Spec => []Configured
<1>1. SetupInv => Configured
  <2> SUFFICES ASSUME SetupInv, Started PROVE Configured
    BY DEF Configured
  <2>1. pc \in Past /\ pc \notin {"mpu_init", "mpu_reset"}
    BY DEF Started, Past, Start
  <2> QED BY <2>1 DEF SetupInv, RegInv, Configured
<1> QED BY SetupInit, SetupNext, <1>1, PTL DEF Spec

-----------------------------------------------------------------------------
(* The producer runs only after main has left the barometer for good.      *)
FreshInv ==
    /\ "producer" \in threads => pc \in {"consumer", "done"}
    /\ pressure # NoPressure => pc \in {"consumer", "done"}
    /\ PressureFresh

LEMMA FreshNext == SetupInv /\ FreshInv /\ [Next]_vars => FreshInv'
<1> SUFFICES ASSUME SetupInv, FreshInv, [Next]_vars PROVE FreshInv'
  OBVIOUS
<1> USE DEF FreshInv
<1>1. ASSUME NEW r \in BOOLEAN, NEW w \in BOOLEAN,
             \/ MpuInit \/ Erase \/ BMP280_init \/ Delay \/ MpuReset(w) \/ w25q64_init(w)
             \/ Configure(r, w) \/ Report(r)
      PROVE  FreshInv'
  <2>1. UNCHANGED <<threads, pressure>> /\ pc \notin {"consumer", "done"}
    BY <1>1 DEF MpuInit, Erase, BMP280_init, Delay, MpuReset, w25q64_init, Configure, Chip, Report,
                At, system
  <2> QED BY <2>1 DEF PressureFresh
<1>2. CASE StartSystem
  BY <1>2 DEF StartSystem, StartServer, Enable, Create, StartThread, At, chipvars, system,
              PressureFresh
<1>3. ASSUME NEW r \in BOOLEAN, Read(r) PROVE FreshInv'
  <2>1. /\ pc \in {"consumer", "done"} /\ UNCHANGED <<failed, pc, threads>>
    BY <1>3 DEF Read, chipvars, system
  <2>2. CASE ~Computes(BMP280_Read_UTP(r))
    BY <1>3, <2>1, <2>2 DEF Read, PressureFresh
  <2>3. CASE Computes(BMP280_Read_UTP(r))
    <3>1. present /\ BMP280_Read_UTP(r) = data
      BY <2>3 DEF Computes, BMP280_Read_UTP, NoData, Answers
    <3>2. pressure' = [UT |-> data.UT, UP |-> data.UP, cal |-> cal_param]
      BY <1>3, <2>3, <3>1 DEF Read
    <3>3. ~failed => data \in Wanted /\ cal_param = "read"
      BY <2>1, <3>1 DEF SetupInv, RegInv, Past, Start
    <3>4. ~failed => data.UT = "set" /\ data.UP = "set"
      BY <2>3, <3>1, <3>3 DEF Computes, Wanted
    <3> QED BY <2>1, <3>2, <3>3, <3>4 DEF PressureFresh
  <2> QED BY <2>2, <2>3
<1>4. CASE \/ Recover \/ Sample \/ (\E b \in Button : Press(b)) \/ ServerTake \/ ServerDone
           \/ UNCHANGED vars
  BY <1>4 DEF Recover, ChipReady, Sample, Measure, Press, ServerTake, ServerDone, vars, chipvars,
              system, PressureFresh
<1> QED BY <1>1, <1>2, <1>3, <1>4 DEF Next, Main

(* Unless a transfer of main failed, every pressure comes from what the    *)
(* chip measured under the settings of this start, although the driver     *)
(* returns whatever the data registers hold.                               *)
THEOREM FreshCorrect == Spec => []PressureFresh
<1>1. Init => FreshInv
  BY DEF Init, FreshInv, PressureFresh
<1>2. FreshInv => PressureFresh
  BY DEF FreshInv
<1> QED BY SetupInit, SetupNext, <1>1, <1>2, FreshNext, PTL DEF Spec
=============================================================================
