------------------------------- MODULE Bmp280 -------------------------------
(***************************************************************************)
(* The driver of the barometer (peripherals/BMP280.c), with what it needs  *)
(* of the chip and of the I2C bus.  A register is the group of its fields: *)
(* a setter reads a register, replaces one field, and writes it back.      *)
(*                                                                         *)
(* Any transfer may fail.  A failed read of a register counts as 0, and a  *)
(* failed write is only reported: no caller learns of either.  The last    *)
(* arguments of an operation say which of its transfers succeed.           *)
(***************************************************************************)
EXTENDS Naturals

VARIABLES
    present,    \* is there a chip that answers?
    chip,       \* is it ready, or still resetting?
    reg,        \* the fields of ctrl_meas and config
    data,       \* what its data registers hold, of temperature and pressure
    cal_param,  \* what is in cal_param: nothing, some or all of the parameters
    failed      \* history: has a transfer of main failed?

chipvars == <<present, chip, reg, data, cal_param, failed>>

ctrl_meas == {"osrs_t", "osrs_p", "mode"}
config    == {"t_sb", "filter"}
Field     == ctrl_meas \cup config

NORMAL == 3     \* BMP280_MODE_NORMAL

Off == [f \in Field |-> 0]

(* A quantity in the data registers: none is 0x80000, BMP280_NO_PRESSURE   *)
(* and BMP280_NO_TEMPERATURE; set was measured under the settings main     *)
(* wants, and other under different ones, perhaps before a restart.        *)
Measurement == {"none", "other", "set"}
NoData      == [UT |-> "none", UP |-> "none"]

ChipTypeOK ==
    /\ present \in BOOLEAN /\ failed \in BOOLEAN
    /\ chip \in {"ready", "resetting"}
    /\ reg \in [Field -> Nat]
    /\ data \in [UT : Measurement, UP : Measurement]
    /\ cal_param \in {"zero", "partial", "read"}

(* Fields is what the registers may hold from an earlier start. *)
ChipInit(Fields) ==
    /\ present \in BOOLEAN
    /\ chip = "ready"
    /\ reg \in Fields
    /\ data \in [UT : {"none", "other"}, UP : {"none", "other"}]
    /\ cal_param = "zero"
    /\ failed = FALSE

Answers == present /\ chip = "ready"

(* The fields of a register, if the transfer succeeds. *)
__reg_read(ok) == IF ok /\ Answers THEN reg ELSE Off

(* The register that holds field f. *)
RegisterOf(f) == IF f \in ctrl_meas THEN ctrl_meas ELSE config

(* BMP280_SetMode, SetFilter, SetStandby, SetOSRST and SetOSRSP. *)
Set(f, value, r, w) ==
    /\ LET old == __reg_read(r) IN
       reg' = IF w /\ Answers
              THEN [g \in Field |-> IF g = f THEN value
                                    ELSE IF g \in RegisterOf(f) THEN old[g] ELSE reg[g]]
              ELSE reg
    /\ failed' = (failed \/ ~r \/ ~w)
    /\ UNCHANGED <<present, chip, data, cal_param>>

(* BMP280_GetMode, BMP280_GetVersion: nothing of the chip changes. *)
Get(r) == failed' = (failed \/ ~r) /\ UNCHANGED <<present, chip, reg, data, cal_param>>

BMP280_GetMode(r) == __reg_read(r)["mode"]

WrongKey(w) ==      \* not BMP280_SOFT_RESET_KEY: the chip ignores it
    /\ failed' = (failed \/ ~w)
    /\ UNCHANGED <<present, chip, reg, data, cal_param>>

(* A reset stops the measurements and clears what they had left. *)
BMP280_Reset(w) ==
    /\ reg' = IF w /\ Answers THEN Off ELSE reg
    /\ data' = IF w /\ Answers THEN NoData ELSE data
    /\ chip' = IF w /\ Answers THEN "resetting" ELSE chip
    /\ failed' = (failed \/ ~w)
    /\ UNCHANGED <<present, cal_param>>

(* The chip is accessible again, some 3 ms after a reset. *)
ChipReady ==
    /\ chip = "resetting"
    /\ chip' = "ready"
    /\ UNCHANGED <<present, reg, data, cal_param, failed>>

(* A transfer that fails may have filled a part of cal_param. *)
BMP280_Read_Calibration(r) ==
    /\ IF r /\ Answers THEN cal_param' = "read"
                       ELSE cal_param' \in {cal_param, "partial"}
    /\ failed' = (failed \/ ~r)
    /\ UNCHANGED <<present, chip, reg, data>>

(* In normal mode the chip measures again and again, whatever the driver   *)
(* does; a quantity whose oversampling is 0 is skipped.  A chip put to     *)
(* sleep keeps what it has measured.                                       *)
Measure(wanted) ==
    /\ Answers /\ reg["mode"] = NORMAL
    /\ LET Of(osrs) == IF reg[osrs] = 0 THEN "none" ELSE IF reg = wanted THEN "set" ELSE "other"
       IN  data' = [UT |-> Of("osrs_t"), UP |-> Of("osrs_p")]
    /\ UNCHANGED <<present, chip, reg, cal_param, failed>>

(* What the data registers hold, and 0x80000 after a failed transfer. *)
BMP280_Read_UTP(r) == IF r /\ Answers THEN data ELSE NoData
=============================================================================
