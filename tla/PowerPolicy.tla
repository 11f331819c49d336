----------------------------- MODULE PowerPolicy -----------------------------
(***************************************************************************)
(* The idle, battery, button and performance policies of the main loop      *)
(* (PowerManager.cpp without the scale's radio, PowerSavingPolicy.cpp,      *)
(* LowBatteryShutdownPolicy.cpp, and the button, battery and boot parts of  *)
(* util/power.cpp), over the event log and the power-down sequences.        *)
(*                                                                         *)
(* The three timers have scales of their own (minutes, seconds, tenths), so *)
(* each has a clock of its own, counted in the units of its thresholds.     *)
(* The memory of the policies is of no use once a shutdown has begun, which *)
(* does not return: it is set back there.                                   *)
(***************************************************************************)
EXTENDS PowerEventLog

CONSTANTS
  DimAfter, OffAfter,   \* _screenDimTimeout < _autoPowerOffTimeout
  Confirmation,         \* kConfirmationMs, in battery polls
  DoubleClick,          \* kPowerButtonDoubleClickWindowMs, in button polls
  MaxEvents, MaxBoots   \* bounds on the events from outside, and on the boots

ASSUME PolicyAssumption ==
  /\ DimAfter \in Nat /\ OffAfter \in Nat /\ DimAfter < OffAfter
  /\ Confirmation \in Nat /\ DoubleClick \in Nat \ {0}
  /\ MaxEvents \in Nat /\ MaxBoots \in Nat

VARIABLES
  idle,      \* since _lastActivityMs, up to OffAfter + 1
  dimmed,    \* _screenDimmed
  required,  \* _foregroundFullPerformanceRequired
  cpu,       \* [speed, applied, failed]: the clock, _appliedCpuMhz, _failedCpuTargetMhz
  led,       \* _statusLedEnabled
  battery,   \* [volt, ext]: what the chips would report
  polled,    \* since _lastBatteryPollMs: 0, or 1 when a poll is due
  low,       \* [seen, age, asked] of LowBatteryShutdownPolicy
  spare,     \* _lowBatteryDisplayModeEnabled
  key,       \* external, PM1's button: [held, flag, since, double]
  button,    \* [down, pending, since, due, failed] of updatePowerButton()
  cause,     \* mark: why the shutdown began
  events     \* mark: events from outside so far

policyVars == <<idle, dimmed, required, cpu, led, battery, polled, low, spare,
                key, button, cause, events>>
memory     == <<idle, dimmed, required, cpu, led, polled, low, spare, button>>
vars       == <<wakeVars, logVars, policyVars>>

NoLow      == [seen |-> FALSE, age |-> 0, asked |-> FALSE]
IdleButton == [down |-> FALSE, pending |-> FALSE, since |-> 0, due |-> TRUE,
               failed |-> FALSE]
IdleKey    == [held |-> FALSE, flag |-> FALSE, since |-> DoubleClick + 1,
               double |-> FALSE]
BootCpu    == [speed |-> "full", applied |-> "none", failed |-> "none"]

\* The memory as a boot finds it, and its loss.
MemoryInit ==
  /\ idle = 0 /\ dimmed = FALSE /\ required = FALSE /\ cpu = BootCpu /\ led = TRUE
  /\ polled = 1 /\ low = NoLow /\ spare = FALSE /\ button = IdleButton

MemoryLost ==
  /\ idle' = 0 /\ dimmed' = FALSE /\ required' = FALSE /\ cpu' = BootCpu /\ led' = TRUE
  /\ polled' = 1 /\ low' = NoLow /\ spare' = FALSE /\ button' = IdleButton

Init ==
  /\ faults = 0 /\ WakeInit /\ LogInit
  /\ MemoryInit
  /\ battery = [volt |-> "good", ext |-> FALSE]
  /\ key = IdleKey /\ cause = "none" /\ events = 0

PolicyTypeOK ==
  /\ TypeOK /\ LogTypeOK
  /\ idle \in 0..(OffAfter + 1) /\ dimmed \in BOOLEAN /\ required \in BOOLEAN
  /\ cpu.speed \in {"full", "reduced"}
  /\ low.age \in 0..Confirmation /\ button.since \in 0..(DoubleClick + 1)

-----------------------------------------------------------------------------
(* Performance *)

performanceTarget(d, r) == IF d /\ ~ r THEN "reduced" ELSE "full"

applyCpuPolicy(c, target, ok) ==
  IF c.applied = target \/ c.failed = target THEN c
  ELSE IF ok THEN [speed |-> target, applied |-> target, failed |-> "none"]
  ELSE [c EXCEPT !.failed = target]

retryCpuPolicy(c, target, ok) ==
  applyCpuPolicy([c EXCEPT !.failed = "none"], target, ok)

(* notifyActivity() of a press, a rotation, the pump, and keepAwake() of a  *)
(* screen at work, which leaves a failed target alone.                     *)
Activity(c) ==
  /\ phase = "run"
  /\ idle' = 0 /\ dimmed' = FALSE
  /\ \E ok \in BOOLEAN :
       /\ Ok(ok) /\ Count({ok})
       /\ cpu' = applyCpuPolicy(c, performanceTarget(FALSE, required), ok)
  /\ UNCHANGED <<hw, phase, pc, moving, logVars, required, led, battery, polled,
                 low, spare, key, button, cause, events>>

notifyActivity == Activity([cpu EXCEPT !.failed = "none"])  \* retryCpuPolicy()
keepAwake      == Activity(cpu)

setForegroundFullPerformanceRequired ==
  /\ phase = "run" /\ events < MaxEvents /\ events' = events + 1
  /\ required' = ~ required
  /\ \E ok \in BOOLEAN :
       /\ Ok(ok) /\ Count({ok})
       /\ cpu' = retryCpuPolicy(cpu, performanceTarget(dimmed, ~ required), ok)
  /\ UNCHANGED <<hw, phase, pc, moving, logVars, idle, dimmed, led, battery, polled,
                 low, spare, key, button, cause>>

-----------------------------------------------------------------------------
(* The battery *)

\* Mutant: every low sample starts the confirmation anew.
X_lowUpdate(l, volt, ext) ==
  IF ext THEN NoLow
  ELSE IF volt = "none" \/ l.asked THEN l
  ELSE IF volt = "low" THEN [NoLow EXCEPT !.seen = TRUE]
  ELSE IF volt = "good" THEN NoLow ELSE l

(* LowBatteryShutdownPolicy::update() on one sample: volt is "none" when    *)
(* the read failed, "mid" between the two thresholds.                      *)
lowUpdate(l, volt, ext) ==
  IF ext THEN NoLow
  ELSE IF volt = "none" \/ l.asked THEN l
  ELSE IF ~ l.seen THEN IF volt = "low" THEN [NoLow EXCEPT !.seen = TRUE] ELSE l
  ELSE IF volt = "good" THEN NoLow
  ELSE IF l.age < Confirmation THEN l
  ELSE [l EXCEPT !.asked = TRUE]

\* The decision of that sample is Shutdown.
decidesShutdown(l, volt, ext) == ~ l.asked /\ lowUpdate(l, volt, ext).asked

\* getBatteryStatus(): a failed read of VIN counts as no external power.
getBatteryStatus(ok) ==
  [volt |-> IF ok THEN battery.volt ELSE "none", ext |-> ok /\ battery.ext]

-----------------------------------------------------------------------------
(* The button *)

(* pollPowerButton(), when a poll is due: the flag is read and cleared, and *)
(* lost when the read of the level behind it fails.                        *)
polledButton(ok) ==
  IF ~ button.due THEN button
  ELSE IF ~ ok THEN [button EXCEPT !.failed = TRUE, !.due = FALSE]
  ELSE LET seen     == key.flag \/ key.held
           down     == button.down \/ seen
           released == down /\ ~ key.held
           waits    == released \/ (button.pending /\ ~ seen)
       IN  [down    |-> down /\ key.held,
            pending |-> waits,
            since   |-> IF released \/ ~ waits THEN 0 ELSE button.since,
            due     |-> FALSE, failed |-> FALSE]

\* A release is old enough: the double-click window and one poll.
asksSleep(b) == b.pending /\ b.since >= DoubleClick + 1

-----------------------------------------------------------------------------
(* The loop *)

\* performShutdown() up to the arming: the log entry, then the callback.
performShutdown(why, ok) ==
  /\ recordSleepEvent(ok)
  /\ BeginArming
  /\ cause' = why
  /\ MemoryLost
  /\ moving' \in BOOLEAN /\ UNCHANGED hw

\* PowerSavingPolicy::update(): too long idle, or long enough to dim.
over == idle > OffAfter
dims == ~ over /\ ~ dimmed /\ idle > DimAfter

applyStatusLedState(enabled, ok) == IF ok THEN enabled ELSE led

\* updateBatteryPolicies() but for the shutdown, which a charger takes back.
updateBatteryPolicies(sample, empty, ledOk) ==
  LET l == lowUpdate(low, sample.volt, sample.ext) IN
  /\ led' = applyStatusLedState(sample.ext, ledOk)
  /\ spare' = l.seen
  /\ low' = IF empty THEN NoLow ELSE l

(* PowerManager::update(): the button first, then the idle timer, the CPU,  *)
(* the LED and the low battery.  A shutdown ends the pass.  At most one     *)
(* transfer of a pass fails.                                               *)
Calls == {"button", "vin", "sample", "cpu", "led", "log"}

Update ==
  /\ phase = "run"
  /\ \E failing \in Calls \cup {"none"} :
       /\ Ok(failing = "none") /\ Count({failing = "none"})
       /\ \E flag \in IF failing = "button" THEN {FALSE, key.flag} ELSE {FALSE} :
            key' = [key EXCEPT !.flag = IF button.due THEN flag ELSE @]
       /\ LET press   == polledButton(failing # "button")
              onVin   == getBatteryStatus(failing # "vin").ext
              sample  == getBatteryStatus(failing # "sample")
              empty   == polled = 1 /\ decidesShutdown(low, sample.volt, sample.ext)
              why     == CASE asksSleep(press)   -> "button"
                           [] ~ asksSleep(press) /\ over /\ ~ onVin -> "idle"
                           [] ~ asksSleep(press) /\ ~ over /\ empty /\ ~ onVin -> "battery"
                           [] OTHER              -> "none"
          IN  IF why # "none" THEN performShutdown(why, failing # "log")
              ELSE /\ button' = press
                   /\ idle' = IF over THEN 0 ELSE idle
                   /\ dimmed' = (dimmed \/ dims)
                   /\ cpu' = applyCpuPolicy(cpu, performanceTarget(dimmed', required),
                                            failing # "cpu")
                   /\ polled' = 0
                   /\ IF polled = 1
                      THEN updateBatteryPolicies(sample, empty, failing # "led")
                      ELSE UNCHANGED <<led, spare, low>>
                   /\ UNCHANGED <<required, cause, hw, phase, pc, moving, logVars>>
  /\ UNCHANGED <<battery, events>>

IdleTick ==
  /\ phase = "run" /\ idle <= OffAfter /\ idle' = idle + 1
  /\ UNCHANGED <<wakeVars, logVars, dimmed, required, cpu, led, battery, polled,
                 low, spare, key, button, cause, events>>

BatteryTick ==
  /\ phase = "run"
  /\ polled' = 1
  /\ low' = [low EXCEPT !.age = IF low.seen /\ @ < Confirmation THEN @ + 1 ELSE @]
  /\ UNCHANGED <<wakeVars, logVars, idle, dimmed, required, cpu, led, battery,
                 spare, key, button, cause, events>>

\* PM1 acts on a double click before the next tick.
ButtonTick ==
  /\ phase = "run" /\ (key.double => key.held)
  /\ button' = [button EXCEPT !.due = TRUE,
                  !.since = IF button.pending /\ @ <= DoubleClick THEN @ + 1 ELSE @]
  /\ key' = [key EXCEPT !.since = IF @ <= DoubleClick THEN @ + 1 ELSE @]
  /\ UNCHANGED <<wakeVars, logVars, idle, dimmed, required, cpu, led, battery,
                 polled, low, spare, cause, events>>

-----------------------------------------------------------------------------
(* Boot, and what comes from outside *)

(* The rest of setup(): configurePowerButton() takes the button over and    *)
(* drops what it had pending; the log is loaded and the wake recorded.     *)
EndBoot ==
  /\ phase = "boot" /\ pc > Len(UnwindSteps)
  /\ phase' = "run" /\ pc' = 1
  /\ key' = [IdleKey EXCEPT !.held = key.held]
  /\ \E opened, ok \in BOOLEAN :
       /\ Ok(opened) /\ Ok(ok) /\ Count({opened, ok})
       /\ RecordWake(opened, ok)
  /\ UNCHANGED <<hw, moving, memory, battery, cause, events>>

\* External: the user, the charger and the battery.
External(change) == events < MaxEvents /\ events' = events + 1 /\ change

KeyDown ==
  /\ phase = "run" /\ ~ key.held
  /\ key' = [key EXCEPT !.held = TRUE, !.flag = TRUE,
                        !.double = @ \/ key.since <= DoubleClick]
  /\ UNCHANGED <<wakeVars, logVars, memory, battery, cause>>

KeyUp ==
  /\ key.held
  /\ key' = [key EXCEPT !.held = FALSE, !.since = 0]
  /\ UNCHANGED <<wakeVars, logVars, memory, battery, cause, events>>

BatteryChanges ==
  /\ phase = "run"
  /\ \/ battery' = [battery EXCEPT !.ext = ~ @]
     \/ \E v \in {"low", "mid", "good"} \ {battery.volt} :
          battery' = [battery EXCEPT !.volt = v]
  /\ UNCHANGED <<wakeVars, logVars, memory, key, cause>>

Shakes == phase # "run" /\ Moves /\ UNCHANGED <<faults, logVars, memory, battery, key, cause>>

\* PM1 turns the device off on a double click; the log gets no entry.
DoubleClickOff ==
  /\ key.double /\ HardOff /\ MemoryLost
  /\ key' = [key EXCEPT !.double = FALSE, !.flag = FALSE]
  /\ UNCHANGED <<faults, moving, logVars, battery, cause, events>>

Boots(how) ==
  /\ boot < MaxBoots
  /\ how /\ LogLost /\ MemoryLost /\ cause' = "none"
  /\ moving' = FALSE /\ UNCHANGED <<faults, battery, key>>

\* The motion and the button; a reset counts as an event.
Wakes    == Boots(MotionBoots \/ ButtonBoots) /\ UNCHANGED events
ResetsIt == External(Boots(Resets))

Lowering == (ArmStep \/ UnwindStep \/ BootStep) /\ UNCHANGED <<logVars, policyVars>>

Logging ==
  \/ StartSntp /\ UNCHANGED <<wakeVars, policyVars>>
  \/ External(SntpSyncs) /\ UNCHANGED <<wakeVars, memory, battery, key, cause>>
  \/ backfillWakeTimestamp /\ UNCHANGED <<hw, phase, pc, moving, policyVars>>

Clears == External(ClearLog) /\ UNCHANGED <<hw, phase, pc, moving, memory, battery, key, cause>>

Next ==
  \/ Update \/ IdleTick \/ BatteryTick \/ ButtonTick
  \/ notifyActivity \/ keepAwake \/ setForegroundFullPerformanceRequired
  \/ External(KeyDown) \/ KeyUp \/ External(BatteryChanges) \/ External(Shakes)
  \/ DoubleClickOff \/ Wakes \/ ResetsIt
  \/ Lowering \/ EndBoot \/ Logging \/ Clears

Spec == Init /\ [][Next]_vars

(* The loop runs and time passes; the sequences and the boot go on.         *)
FairSpec ==
  /\ Spec
  /\ WF_vars(Update) /\ WF_vars(BatteryTick)
  /\ WF_vars(Lowering) /\ WF_vars(EndBoot)

-----------------------------------------------------------------------------
(* The button sends the device to sleep for a single click only: not while  *)
(* it is held, and not when a second press came within PM1's window, which  *)
(* is PM1's to act on, nor before that window is over, however slow the     *)
(* loop is to look.  A read that failed may have hidden that press          *)
(* (PowerManager.cpp:219-263).            *)
SingleClickSleeps ==
  [][phase = "run" /\ cause' = "button" /\ faults' = 0 =>
       ~ key.double /\ ~ key.held /\ key.since > DoubleClick]_vars

(* The processor is at full speed whenever the display is lit or a shot     *)
(* needs it, unless the change of clock failed since the last activity      *)
(* (PowerManager.cpp:143-208).                                              *)
FullSpeedWhenNeeded ==
  phase = "run" /\ cpu.speed = "reduced" =>
    (dimmed /\ ~ required) \/ cpu.failed = "full"

(* A battery that is low and stays low, without external power, ends in a   *)
(* shutdown, however active the user is and whichever samples are missed    *)
(* (LowBatteryShutdownPolicy.cpp:8-35).                                     *)
LowBatteryShutsDown == []<> ~ (phase = "run" /\ battery.volt = "low" /\ ~ battery.ext)
=============================================================================
