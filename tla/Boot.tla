-------------------------------- MODULE Boot --------------------------------
(***************************************************************************)
(* The start of the application (applications/main.c): main configures the *)
(* devices, starts the deferrable server, enables the buttons, creates the *)
(* mutexes and starts the threads, in this order, and returns early on     *)
(* some errors.  A button may be pressed as soon as it is enabled, before  *)
(* the mutexes exist that its tasks take.                                  *)
(*                                                                         *)
(* main has priority 10, the server and the consumer 17, the producer 7.   *)
(* So the server runs when main has ended, or sleeps.  The server's own    *)
(* steps are in Deferrable; here it takes its tasks in order.              *)
(***************************************************************************)
EXTENDS Bmp280, Sequences

CONSTANTS
    Button,     \* raw and bench: the two buttons, and the mutexes of their tasks
    raw, bench,
    MaxPress    \* bound on presses that wait, for model checking

ASSUME BootAssumption == Button = {raw, bench} /\ raw # bench /\ MaxPress \in Nat

VARIABLES
    pc,         \* where main is
    bus,        \* does rt_i2c_bus_device_find find the bus?
    mpu,        \* is the accelerometer awake?
    erased,     \* has the FLASH been erased?
    mode,       \* the mode of the barometer main has reported last, 99 before
    server,     \* the deferrable server
    queue,      \* the presses it has to serve
    enabled,    \* the buttons that are enabled
    created,    \* the mutexes that exist
    threads,    \* the threads that are started
    pressure,   \* what the last element the producer has set of baro_v comes from
    fault       \* has a thread or an interrupt used what does not exist?

device == <<bus, mpu, erased, mode>>
irq    == <<server, queue, fault>>
system == <<enabled, created, threads>>
vars   == <<chipvars, pc, device, irq, system, pressure>>

(* A pressure comes from a reading of the chip and from the parameters.    *)
Pressure   == [UT : Measurement, UP : Measurement, cal : {"zero", "partial", "read"}]
NoPressure == [UT |-> "none", UP |-> "none", cal |-> "zero"]

(* The arguments of the setters in main. *)
Intended == [t_sb |-> 0, filter |-> 0, osrs_t |-> 32, osrs_p |-> 8, mode |-> NORMAL]

Device == {"mpu_init", "mpu_reset", "w25q64_init", "erase", "bmp_init", "check", "getmode",
           "reset", "delay", "calibration", "standby", "filter", "osrst", "osrsp", "setmode",
           "report"}
Start  == {"server", "raw_button", "bench_button", "raw_mutex", "bench_mutex", "producer",
           "consumer"}
End    == {"done", "error", "crash"}

TypeOK ==
    /\ ChipTypeOK
    /\ pc \in Device \cup Start \cup End
    /\ bus \in BOOLEAN /\ mpu \in BOOLEAN /\ erased \in BOOLEAN
    /\ mode \in 0..3 \cup {99}
    /\ server \in {"none", "suspend", "ready", "body"}
    /\ queue \in Seq(Button)
    /\ enabled \subseteq Button /\ created \subseteq Button
    /\ threads \subseteq {"producer", "consumer"}
    /\ pressure \in Pressure /\ fault \in BOOLEAN

(* A restart finds the sensors as an earlier start left them. *)
Init ==
    /\ ChipInit({r \in [Field -> {0, 3, 8, 32}] : \A f \in Field : r[f] \in {0, Intended[f]}})
    /\ pc = "mpu_init"
    /\ bus \in BOOLEAN /\ mpu \in BOOLEAN /\ erased = FALSE /\ mode = 99
    /\ server = "none" /\ queue = <<>> /\ fault = FALSE
    /\ enabled = {} /\ created = {} /\ threads = {}
    /\ pressure = NoPressure

At(from, to) == pc = from /\ pc' = to

-----------------------------------------------------------------------------
(* mpu6050_init only reports that there is no bus.                         *)
MpuInit ==
    /\ At("mpu_init", "mpu_reset")
    /\ UNCHANGED <<chipvars, device, irq, system, pressure>>

(* Without a bus the transfer goes through a null pointer: it may crash,   *)
(* or do nothing.                                                          *)
MpuReset(w) ==
    /\ \/ At("mpu_reset", "w25q64_init")
       \/ ~bus /\ At("mpu_reset", "crash")
    /\ mpu' = (mpu \/ (bus /\ w))
    /\ failed' = (failed \/ ~w)
    /\ UNCHANGED <<present, chip, reg, data, cal_param, bus, erased, mode, irq, system, pressure>>

w25q64_init(ok) ==
    /\ At("w25q64_init", IF ok THEN "erase" ELSE "error")
    /\ UNCHANGED <<chipvars, device, irq, system, pressure>>

Erase ==
    /\ At("erase", "bmp_init")
    /\ erased' = TRUE
    /\ UNCHANGED <<chipvars, bus, mpu, mode, irq, system, pressure>>

BMP280_init ==
    /\ At("bmp_init", IF bus THEN "check" ELSE "error")
    /\ UNCHANGED <<chipvars, device, irq, system, pressure>>

(* A step of main that only uses the chip. *)
Chip(from, to, operation) ==
    /\ At(from, to)
    /\ operation
    /\ UNCHANGED <<device, irq, system, pressure>>

(* Without a chip main says that it halts, and goes on. *)
Configure(r, w) ==
    \/ Chip("check", "getmode", Get(r))
    \/ Chip("reset", "delay", BMP280_Reset(w))
    \/ Chip("calibration", "standby", BMP280_Read_Calibration(r))
    \/ Chip("standby", "filter", Set("t_sb", Intended.t_sb, r, w))
    \/ Chip("filter", "osrst", Set("filter", Intended.filter, r, w))
    \/ Chip("osrst", "osrsp", Set("osrs_t", Intended.osrs_t, r, w))
    \/ Chip("osrsp", "setmode", Set("osrs_p", Intended.osrs_p, r, w))
    \/ Chip("setmode", "report", Set("mode", Intended.mode, r, w))

Report(r) ==
    /\ At("getmode", "reset") \/ At("report", "server")
    /\ mode' = BMP280_GetMode(r)
    /\ Get(r)
    /\ UNCHANGED <<bus, mpu, erased, irq, system, pressure>>

NoDelay ==          \* the delay after the reset is forgotten
    /\ At("delay", "calibration")
    /\ UNCHANGED <<chipvars, device, irq, system, pressure>>

(* rt_thread_mdelay(1000), longer than the chip takes. *)
Delay ==
    /\ At("delay", "calibration")
    /\ chip = "ready"
    /\ UNCHANGED <<chipvars, device, irq, system, pressure>>

-----------------------------------------------------------------------------
(* The table of tasks is filled in, and rt_thread_deferrable_init. *)
StartServer ==
    /\ At("server", "raw_button")
    /\ server' = "suspend"
    /\ UNCHANGED <<chipvars, device, queue, fault, system, pressure>>

Enable(b, from, to) ==
    /\ At(from, to)
    /\ enabled' = enabled \cup {b}
    /\ UNCHANGED <<chipvars, device, irq, created, threads, pressure>>

(* rt_mutex_create fails without memory: main returns, with the buttons    *)
(* enabled.                                                                *)
Create(b, from, to, ok) ==
    /\ At(from, IF ok THEN to ELSE "error")
    /\ created' = IF ok THEN created \cup {b} ELSE created
    /\ UNCHANGED <<chipvars, device, irq, enabled, threads, pressure>>

StartThread(t, to) ==
    /\ At(t, to)
    /\ threads' = threads \cup {t}
    /\ UNCHANGED <<chipvars, device, irq, enabled, created, pressure>>

StartSystem ==
    \/ StartServer
    \/ Enable(raw, "raw_button", "bench_button")
    \/ Enable(bench, "bench_button", "raw_mutex")
    \/ \E ok \in BOOLEAN : \/ Create(raw, "raw_mutex", "bench_mutex", ok)
                           \/ Create(bench, "bench_mutex", "producer", ok)
    \/ StartThread("producer", "consumer")
    \/ StartThread("consumer", "done")

Main == \/ MpuInit \/ Erase \/ BMP280_init \/ Delay \/ StartSystem
        \/ \E r, w \in BOOLEAN : \/ MpuReset(w) \/ w25q64_init(w)
                                 \/ Configure(r, w) \/ Report(r)

-----------------------------------------------------------------------------
PressAsleep(b) ==   \* the server is not resumed
    /\ b \in enabled /\ Len(queue) < MaxPress
    /\ fault' = (fault \/ server = "none")
    /\ queue' = Append(queue, b)
    /\ UNCHANGED <<chipvars, pc, device, server, system, pressure>>

(* A button: rt_thread_deferrable_insert_task.  Without the server there   *)
(* is no list to insert into.                                              *)
Press(b) ==
    /\ b \in enabled /\ Len(queue) < MaxPress
    /\ fault' = (fault \/ server = "none")
    /\ queue' = Append(queue, b)
    /\ server' = IF queue = <<>> /\ server = "suspend" THEN "ready" ELSE server
    /\ UNCHANGED <<chipvars, pc, device, system, pressure>>

ServerPreempts ==   \* a server of a higher priority than main
    /\ server = "ready" /\ ~fault
    /\ server' = "body"
    /\ fault' = (Head(queue) \notin created)
    /\ UNCHANGED <<chipvars, pc, device, queue, system, pressure>>

(* The server begins a body: rt_mutex_take asserts that there is a mutex.  *)
ServerTake ==
    /\ server = "ready" /\ ~fault
    /\ pc \in {"done", "error"}
    /\ server' = "body"
    /\ fault' = (Head(queue) \notin created)
    /\ UNCHANGED <<chipvars, pc, device, queue, system, pressure>>

ServerDone ==
    /\ server = "body" /\ ~fault
    /\ queue' = Tail(queue)
    /\ server' = IF Tail(queue) = <<>> THEN "suspend" ELSE "ready"
    /\ UNCHANGED <<chipvars, pc, device, fault, system, pressure>>

(* A pressure is computed when there are both quantities. *)
Computes(utp) == utp.UT # "none" /\ utp.UP # "none"

(* The producer reads the barometer: BMP280_CalcPf, or nothing. *)
Read(r) ==
    /\ "producer" \in threads
    /\ LET utp == BMP280_Read_UTP(r) IN
       pressure' = IF Computes(utp) THEN [UT |-> utp.UT, UP |-> utp.UP, cal |-> cal_param]
                                    ELSE pressure
    /\ UNCHANGED <<chipvars, pc, device, irq, system>>

(* The chip by itself: ready after a reset, and measuring. *)
Recover == ChipReady /\ UNCHANGED <<pc, device, irq, system, pressure>>
Sample  == Measure(Intended) /\ UNCHANGED <<pc, device, irq, system, pressure>>

Next == \/ Main \/ Recover \/ Sample
        \/ \E b \in Button : Press(b)
        \/ ServerTake \/ ServerDone
        \/ \E r \in BOOLEAN : Read(r)

Spec == Init /\ [][Next]_vars

(* The threads above the server sleep again and again. *)
FairSpec ==
    /\ Spec
    /\ WF_vars(Main) /\ WF_vars(Recover) /\ WF_vars(ServerTake) /\ WF_vars(ServerDone)

-----------------------------------------------------------------------------
Started == pc \in Start \cup {"done"}

(* No press, at whatever moment of the start, reaches the server before it *)
(* is initialised, or makes it take a mutex that does not exist: although  *)
(* the buttons are enabled before the mutexes are created, the server      *)
(* waits for main to end.  The exception is a start that failed to create  *)
(* a mutex, and returned with the buttons enabled.                         *)
NothingMissing == fault => pc = "error" /\ created # Button

(* When main has come to the server, there is a bus and the FLASH is       *)
(* erased; and unless a transfer failed both sensors are set up, and the   *)
(* barometer is in the mode main has reported, whatever an earlier start   *)
(* had left in its registers: no setter undoes another, and none talks to  *)
(* a chip that is still resetting.                                         *)
Configured ==
    Started => /\ bus /\ erased
               /\ present /\ ~failed =>
                     mpu /\ reg = Intended /\ cal_param = "read" /\ mode = NORMAL

(* Unless a transfer of main failed, every pressure the producer computes  *)
(* comes from a temperature and a pressure measured under the settings     *)
(* main has made, with all the parameters: what a start before this one    *)
(* had the chip measure is gone with the reset, and the chip measures      *)
(* nothing before the last setting.  BMP280_Read_UTP itself returns        *)
(* whatever the data registers hold.                                       *)
PressureFresh ==
    ~failed /\ pressure # NoPressure => pressure = [UT |-> "set", UP |-> "set", cal |-> "read"]

(* A press that came during the start, while the server cannot run yet, is *)
(* not forgotten: the server begins its body once main has ended.          *)
PressServed == (pc \in Start /\ queue # <<>>) ~> (server = "body")
=============================================================================
