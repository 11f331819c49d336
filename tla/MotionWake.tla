----------------------------- MODULE MotionWake -----------------------------
(***************************************************************************)
(* How the device powers down and comes back (src/src/util/power.cpp and   *)
(* performShutdown() of PowerSavingPolicy.cpp): the power chip PM1 cuts    *)
(* the processor's supply and leaves the motion sensor running, so that a  *)
(* movement of the machine pulls a line low and PM1 starts the device.     *)
(*                                                                         *)
(* Both chips sit on one I2C bus on which any transfer may fail: the value *)
(* of a failed write may or may not have reached its register.  "hw" keeps *)
(* what the chips hold, one entry per setting the code makes, and outlives *)
(* the program.  The main task runs the sequences one write at a time;     *)
(* the bus lock is held throughout, so no other transfer comes between.    *)
(***************************************************************************)
EXTENDS Sequences, Faults

VARIABLES
  hw,      \* the settings in PM1 and in the motion sensor
  phase,   \* "run", "arm", "unwind", "asleep", "off" or "boot"
  pc,      \* the next write of the sequence that runs
  moving   \* the sensor is being moved; of interest unless the loop runs

wakeVars == <<hw, phase, pc, moving, faults>>

(* PM1: "ready" is _is_pm1_init of the program, "pin" GPIO4 as a wake      *)
(* input, "armed" its wake enable, "hold" the supply kept for the sensor.  *)
(* Sensor: accelerometer, any-motion feature, INT1 shaped and mapped, data *)
(* interrupts, low-power filter, advanced power save.                      *)
Pm1Keys    == {"ready", "pin", "armed", "hold", "led"}
SensorKeys == {"acc", "motion", "int1", "data", "lowPower", "aps"}

Set(key, value) == [key |-> key, value |-> value]

\* The state M5.begin() leaves in the sensor: sampling, data interrupts mapped.
SensorDefault == [k \in SensorKeys |-> k \in {"acc", "data"}]
PowerOnHw     == [k \in Pm1Keys \cup SensorKeys |->
                    IF k \in SensorKeys THEN SensorDefault[k] ELSE k = "led"]

_initPM1 == Set("ready", TRUE)
_ensureBmiReady == Set("acc", TRUE)
_configureBmiAnyMotion == Set("motion", TRUE)
_configureBmiInt1ForAnyMotion == Set("int1", TRUE)
_clearBmiDataInterruptMap == Set("data", FALSE)
_configureBmiLowPowerStandby == Set("lowPower", TRUE)
_setBmiAdvPowerSave == Set("aps", TRUE)

\* Not a write: the poll that wants the line high for 250 ms, within 2 s.
_waitForMotionInterruptIdle == Set("idle", TRUE)
pm1Shutdown                 == Set("shutdown", TRUE)

ArmSteps ==
  << _initPM1, Set("armed", FALSE), Set("pin", TRUE), Set("hold", TRUE),
     Set("led", TRUE), _ensureBmiReady, _configureBmiAnyMotion,
     _configureBmiInt1ForAnyMotion, _clearBmiDataInterruptMap,
     _configureBmiLowPowerStandby, _waitForMotionInterruptIdle,
     _setBmiAdvPowerSave, Set("armed", TRUE), pm1Shutdown >>

\* Mutant: the supply of the sensor stays held.
X_UnwindSteps == << _initPM1, Set("armed", FALSE), Set("pin", FALSE) >>

\* disableWakeUpOnMotion(): at boot, and to unwind an arming that failed.
UnwindSteps ==
  << _initPM1, Set("armed", FALSE), Set("pin", FALSE), Set("hold", FALSE) >>

\* Active low: any motion, or data ready while that is mapped, pulls INT1 down.
LineHigh == ~ (hw["int1"] /\ (hw["data"] \/ (hw["motion"] /\ moving)))

\* What PM1 and the sensor need to start the device when it is moved.
WakesOnMotion ==
  /\ \A k \in {"armed", "pin", "hold", "acc", "motion", "int1"} : hw[k]
  /\ ~ hw["data"]

WakeInit ==
  /\ hw = PowerOnHw /\ phase = "boot" /\ pc = 1
  /\ moving = FALSE

TypeOK ==
  /\ hw \in [Pm1Keys \cup SensorKeys -> BOOLEAN]
  /\ phase \in {"run", "arm", "unwind", "asleep", "off", "boot"}
  /\ pc \in 1..Len(ArmSteps)
  /\ moving \in BOOLEAN

Steps == IF phase = "arm" THEN ArmSteps ELSE UnwindSteps
Now   == Steps[pc]

\* The supply goes: without the hold the sensor loses its settings.
PowerCut(regs) ==
  hw' = [k \in DOMAIN regs |->
           IF k \in SensorKeys /\ ~ regs["hold"] THEN SensorDefault[k] ELSE regs[k]]

\* A transfer happens, and so may fail: not for a chip that is set up already.
Outcome(ok) == Ok(ok) /\ (ok \/ Now.key # "ready" \/ ~ hw["ready"]) /\ Count({ok})

\* Whether this entry goes through, for a transfer that did (TRUE) or did not.
Passes(ok) == ok /\ (Now.key = "idle" => LineHigh)

\* The settings after the entry.
Written(ok) ==
  IF Now.key \notin DOMAIN hw THEN {hw}
  ELSE LET done == [hw EXCEPT ![Now.key] = Now.value]
       IN  IF ok THEN {done} ELSE IF Now.key = "ready" THEN {hw} ELSE {hw, done}

(* enableWakeUpOnMotionAndShutdown(): every failure returns at once, and    *)
(* performShutdown() then unwinds.  The last entry cuts the power.         *)
ArmStep ==
  /\ phase = "arm"
  /\ \E ok \in BOOLEAN :
       /\ Outcome(ok)
       /\ \E regs \in Written(ok) :
            IF ~ Passes(ok) THEN hw' = regs /\ phase' = "unwind" /\ pc' = 1
            ELSE IF pc = Len(ArmSteps)
                 THEN PowerCut(regs) /\ phase' = "asleep" /\ pc' = 1
                 ELSE hw' = regs /\ phase' = "arm" /\ pc' = pc + 1
  /\ UNCHANGED moving

(* disableWakeUpOnMotion() before M5.Power.powerOff(), which follows        *)
(* whether or not the unwinding succeeded.                                 *)
UnwindStep ==
  /\ phase = "unwind"
  /\ \E ok \in BOOLEAN :
       /\ Outcome(ok)
       /\ \E regs \in Written(ok) :
            IF ~ Passes(ok) \/ pc = Len(UnwindSteps)
            THEN PowerCut(regs) /\ phase' = "off" /\ pc' = 1
            ELSE hw' = regs /\ phase' = "unwind" /\ pc' = pc + 1
  /\ UNCHANGED moving

\* The same calls in setup(), whose result is not looked at.
BootStep ==
  /\ phase = "boot" /\ pc <= Len(UnwindSteps)
  /\ \E ok \in BOOLEAN :
       /\ Outcome(ok)
       /\ \E regs \in Written(ok) :
            /\ hw' = regs
            /\ pc' = IF Passes(ok) THEN pc + 1 ELSE Len(UnwindSteps) + 1
  /\ UNCHANGED <<phase, moving>>

\* performShutdown() after its log entry and its callback.
BeginArming == phase' = "arm" /\ pc' = 1

(* The processor starts: the program's memory is new, M5.begin() has set   *)
(* the sensor up to sample again; PM1 keeps its settings.                  *)
PowerUp ==
  /\ hw' = [hw EXCEPT !["ready"] = FALSE, !["acc"] = TRUE, !["data"] = TRUE]
  /\ phase' = "boot" /\ pc' = 1

\* External: a movement of a sleeping device, the button, or a reset.
MotionBoots == phase \in {"asleep", "off"} /\ WakesOnMotion /\ moving /\ PowerUp
ButtonBoots == phase \in {"asleep", "off"} /\ PowerUp
Resets      == phase \in {"run", "arm", "unwind"} /\ PowerUp

\* External: PM1 itself cuts the power on a double click.
HardOff == phase = "run" /\ PowerCut(hw) /\ phase' = "off" /\ pc' = 1

Moves == moving' = ~ moving /\ UNCHANGED <<hw, phase, pc>>

-----------------------------------------------------------------------------
(* A device that went to sleep wakes when it is moved, and waits at the    *)
(* low current; one that was switched off because the arming failed keeps  *)
(* neither the supply of the sensor nor the wake input, unless a transfer  *)
(* failed too: a machine that shakes during the arming must not leave a    *)
(* device that drains its battery (power.cpp:371-464, :466-518).           *)
DownAsIntended ==
  /\ phase = "asleep" => WakesOnMotion /\ hw["lowPower"] /\ hw["aps"]
  /\ phase = "off" /\ faults = 0 => ~ hw["hold"] /\ ~ hw["armed"]
=============================================================================
