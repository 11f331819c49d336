----------------------------- MODULE PumpSensor -----------------------------
(***************************************************************************)
(* The vibration sensor: the FIFO task that reads the accelerometer, the   *)
(* trigger and the decay tracker that turn each analyzed frame into "pump  *)
(* on" or "pump off", and the screens that own the sensor one after the    *)
(* other.  One frame is a batch of BATCH_FRAMES samples; the spectral part *)
(* of its analysis is PumpSpectrum's, here a frame is what that part says  *)
(* of it.  Times are ages counted in frame periods.                        *)
(***************************************************************************)
EXTENDS Integers, Sequences, FiniteSets
LOCAL INSTANCE TLC

CONSTANTS
  SnrOn, SnrStay,          \* SNR_ON_DB, SNR_STAY_DB
  StartDrop, RecoveryDrop, \* START_DROP_DB, RECOVERY_DROP_DB
  NOn, NOff,               \* N_ON, N_OFF
  ReferenceFrames,         \* REFERENCE_FRAMES
  MinReferenceFrames,      \* MIN_REFERENCE_FRAMES
  MaxCarry,                \* MAX_CARRY_MS
  Snrs,                    \* bound: the raw and smoothed SNRs there are, in dB
  MaxLate,                 \* bound: frame periods between two analyzed frames
  Screens                  \* the screens that begin and end the sensor

ASSUME SensorConstants ==
  /\ {SnrOn, SnrStay, StartDrop, RecoveryDrop} \subseteq Nat /\ Snrs \subseteq Nat
  /\ SnrStay < SnrOn /\ RecoveryDrop < StartDrop
  /\ {NOn, NOff, MinReferenceFrames, MaxLate} \subseteq Nat \ {0}
  /\ ReferenceFrames \in Nat /\ MinReferenceFrames <= ReferenceFrames
  /\ MaxCarry \in Nat /\ "none" \notin Screens

VARIABLES
  fifo,      \* AccelFIFO::_state
  worker,    \* what the FIFO task is at: "none", "waiting", "analyzing",
             \* "analyzed" (mutex given back), or "restoring" the IMU
  owner,     \* the screen whose begin() was last let in, "none" after its end()
  ending,    \* owner is in end(), waiting for isStopped()
  listener,  \* the screen whose callback _onTransition is, or "none"
  called,    \* the screen told of the last transition, or "none"
  trigger,   \* VibrationWindowTrigger
  decay,     \* PumpDecayTracker
  smoothed,  \* _smoothedSnr, <<>> before it is primed
  openFor,   \* age of _detectedSinceMs while the window is open
  event      \* the transition the analysis in progress has returned

sensorVars == <<fifo, worker, owner, ending, listener, called, trigger, decay,
                smoothed, openFor, event>>
analysisVars == <<trigger, decay, smoothed, openFor>>

------------------------------------------------------------------------------
(* VibrationWindowTrigger::stepDetailed.  A frame whose tone is not inside *)
(* the pump band has no tone at all (PumpSpectrum), and the average is 0   *)
(* before its first sample.                                                *)
TriggerReset == [active |-> FALSE, on |-> 0, off |-> 0]

Level(s) == IF s = <<>> THEN 0 ELSE s[1]
Enter(still, tone, s) == still /\ tone /\ Level(s) >= SnrOn
Stay(still, tone, s)  == still /\ tone /\ Level(s) >= SnrStay

StepDetailed(w, still, tone, s) ==
  CASE ~w.active /\ Enter(still, tone, s) ->
         IF w.on + 1 >= NOn THEN [active |-> TRUE, on |-> NOn, off |-> 0]
         ELSE [w EXCEPT !.on = @ + 1]
    [] ~w.active /\ ~Enter(still, tone, s) -> [w EXCEPT !.on = 0]
    [] w.active /\ Stay(still, tone, s) -> [w EXCEPT !.off = 0]
    [] w.active /\ ~Stay(still, tone, s) ->
         IF w.off + 1 >= NOff THEN TriggerReset ELSE [w EXCEPT !.off = @ + 1]

------------------------------------------------------------------------------
(* PumpDecayTracker::step.  accepted is the onset's age in the frame that  *)
(* confirmed pump-off, <<>> when none was accepted.                        *)
DecayReset  == [reference |-> <<>>, candidate |-> FALSE, onset |-> 0, accepted |-> <<>>]
ClearWindow(d) == [DecayReset EXCEPT !.accepted = d.accepted]

AppendReference(r, snr) ==
  Append(IF Len(r) < ReferenceFrames THEN r ELSE Tail(r), snr)

\* Twice the median, as the code averages the middle two of an even number.
TwiceMedian(r) ==
  LET s == SortSeq(r, <)  m == Len(r) \div 2
  IN IF Len(r) % 2 = 1 THEN 2 * s[m + 1] ELSE s[m] + s[m + 1]

\* raw is <<>> in a frame without a usable pump measurement.
Usable(raw) == raw # <<>>
Noted(d, raw) ==
  IF Usable(raw) THEN [d EXCEPT !.reference = AppendReference(@, raw[1])] ELSE d

\* What a frame tells a window that was open before it; gap is its distance.
Tracked(d, raw, gap) ==
  LET have == Len(d.reference) >= MinReferenceFrames
      reference == TwiceMedian(d.reference)
      age == d.onset + gap
      recovered == Usable(raw) /\ have /\ 2 * raw[1] >= reference - 2 * RecoveryDrop
      expired == age > MaxCarry
      dropped == ~Usable(raw) \/ 2 * raw[1] <= reference - 2 * StartDrop
      over == [d EXCEPT !.candidate = FALSE, !.onset = 0]
  IN CASE d.candidate /\ expired -> Noted([over EXCEPT !.reference = <<>>], raw)
       [] d.candidate /\ ~expired /\ recovered -> Noted(over, raw)
       [] d.candidate /\ ~expired /\ ~recovered -> [d EXCEPT !.onset = age]
       [] ~d.candidate /\ have /\ dropped -> [d EXCEPT !.candidate = TRUE, !.onset = 0]
       [] OTHER -> Noted(d, raw)

DecayStep(d, was, is, raw, gap) ==
  LET t == IF was THEN Tracked(d, raw, gap) ELSE d
  IN CASE ~was /\ is  -> Noted(DecayReset, raw)
       [] was /\ ~is  -> [DecayReset EXCEPT !.accepted = IF t.candidate THEN <<t.onset>> ELSE <<>>]
       [] ~was /\ ~is -> ClearWindow(t)
       [] was /\ is   -> t

\* PumpSignalObservation: what a consumer reads.
PumpSignalState ==
  IF ~trigger.active THEN "Off" ELSE IF decay.candidate THEN "DecayCandidate" ELSE "On"
IsOn == PumpSignalState # "Off"

------------------------------------------------------------------------------
(* The FIFO task.                                                          *)
SensorInit ==
  /\ fifo = "NOT_INIT" /\ worker = "none" /\ owner = "none" /\ ending = FALSE
  /\ listener = "none" /\ called = "none" /\ event = "None"
  /\ trigger = TriggerReset /\ decay = DecayReset /\ smoothed = <<>> /\ openFor = 0

\* The task wakes with a whole batch in the FIFO, or reads no length, no batch,
\* or too few samples and sleeps on; a batch that was already there is analyzed
\* even when a stop was requested since the task last looked.
BatchRead ==
  /\ worker = "waiting" /\ worker' = "analyzing"
  /\ UNCHANGED <<fifo, owner, ending, listener, called, event, analysisVars>>

\* An average moves from its value towards the sample and not past it.
Averages(s, x) ==
  IF s = <<>> THEN {<<x>>}
  ELSE {<<y>> : y \in {y \in Snrs : (s[1] <= y /\ y <= x) \/ (x <= y /\ y <= s[1])}}

(* fifoCallback with analyze(), under the mutex.  still: the flux says the *)
(* device is at rest; raw: the tone's SNR, <<>> when no tone was selected. *)
FifoCallback(still, raw, gap) ==
  /\ worker = "analyzing" /\ worker' = "analyzed"
  /\ \E s \in IF still /\ raw # <<>> THEN Averages(smoothed, raw[1]) ELSE {smoothed} :
       LET was == trigger.active
           t   == StepDetailed(trigger, still, raw # <<>>, s)
           usable == IF still THEN raw ELSE <<>>
       IN /\ smoothed' = s /\ trigger' = t
          /\ decay' = DecayStep(decay, was, t.active, usable, gap)
          /\ event' = IF t.active = was THEN "None" ELSE IF was THEN "Closed" ELSE "Opened"
          /\ openFor' = IF ~(was /\ t.active) THEN 0
                        ELSE IF openFor + gap > MaxCarry + MaxLate THEN MaxCarry + MaxLate
                        ELSE openFor + gap
  /\ UNCHANGED <<fifo, owner, ending, listener, called>>

(* After the mutex is given back the transition is reported, on this task. *)
NotifyTransition ==
  /\ worker = "analyzed" /\ worker' = "waiting" /\ event' = "None"
  /\ called' = IF event # "None" /\ listener # "none" THEN listener ELSE called
  /\ UNCHANGED <<fifo, owner, ending, listener, analysisVars>>

TaskStops ==
  /\ worker = "waiting" /\ fifo = "STOP_REQUESTED" /\ worker' = "restoring"
  /\ UNCHANGED <<fifo, owner, ending, listener, called, event, analysisVars>>

\* restoreIMU(), whose failed writes change nothing here, then STOPPED.
RestoreIMU ==
  /\ worker = "restoring" /\ worker' = "none" /\ fifo' = "STOPPED"
  /\ UNCHANGED <<owner, ending, listener, called, event, analysisVars>>

------------------------------------------------------------------------------
(* The screens, on the main task.                                          *)
IsStopped == fifo \in {"STOPPED", "NOT_INIT"}

ResetAnalysisLocked ==
  trigger' = TriggerReset /\ decay' = DecayReset /\ smoothed' = <<>> /\ openFor' = 0

(* VibrationSensor::begin by a screen, with a callback or without one.     *)
(* Refused while another screen's session runs; fails, after the analysis  *)
(* was reset, when a register cannot be accessed (the state stays) or the  *)
(* task cannot be created (NOT_INIT).                                      *)
Begin(screen, callback) ==
  /\ IsStopped /\ ~ending /\ ResetAnalysisLocked
  /\ \/ /\ owner' = screen /\ fifo' = "TASK_RUNNING" /\ worker' = "waiting"
        /\ listener' = callback /\ called' = "none"
     \/ /\ fifo' \in {fifo, "NOT_INIT"} /\ listener' = "none"
        /\ UNCHANGED <<owner, worker, called>>
  /\ UNCHANGED <<ending, event>>

(* VibrationSensor::end by the owner: requests the stop and waits for it.  *)
End ==
  /\ owner # "none" /\ ~ending /\ ending' = TRUE
  /\ fifo' = IF fifo = "TASK_RUNNING" THEN "STOP_REQUESTED" ELSE fifo
  /\ UNCHANGED <<worker, owner, listener, called, event, analysisVars>>

\* Without waiting for the task.
X_EndReturns ==
  /\ ending
  /\ ending' = FALSE /\ owner' = "none" /\ listener' = "none"
  /\ UNCHANGED <<fifo, worker, called, event, analysisVars>>

EndReturns ==
  /\ ending /\ IsStopped
  /\ ending' = FALSE /\ owner' = "none" /\ listener' = "none"
  /\ UNCHANGED <<fifo, worker, called, event, analysisVars>>

SensorTask == BatchRead \/ NotifyTransition \/ TaskStops \/ RestoreIMU
Frame == \E still \in BOOLEAN, raw \in {<<>>} \cup {<<x>> : x \in Snrs}, gap \in 1..MaxLate :
           FifoCallback(still, raw, gap)
Sessions == (\E s \in Screens, cb \in Screens \cup {"none"} : cb \in {s, "none"} /\ Begin(s, cb))
              \/ End \/ EndReturns

SensorNext == SensorTask \/ Frame \/ Sessions
SensorSpec == SensorInit /\ [][SensorNext]_sensorVars

------------------------------------------------------------------------------
(* Properties.                                                             *)

(* A screen hears of transitions only between its begin and the return of  *)
(* its end(), and once end() returned nothing analyzes or calls: the task  *)
(* is gone (VibrationSensor::end, AccelFIFO::task).                        *)
CallsStayInSession ==
  /\ worker # "none" => owner # "none" /\ fifo \in {"TASK_RUNNING", "STOP_REQUESTED"}
  /\ owner = "none" => listener = "none"
  /\ called # "none" /\ owner # "none" => called = owner
  /\ worker \in {"analyzing", "analyzed"} /\ listener # "none" => listener = owner

(* A pump-off that is backdated to the onset of the decay is backdated to  *)
(* a moment at which the pump was detected on: inside the window it closes *)
(* and no longer ago than MAX_CARRY_MS (PumpDecayTracker::step).           *)
OnsetInsideWindow ==
  /\ decay.candidate => trigger.active /\ decay.onset < openFor /\ decay.onset <= MaxCarry
  /\ decay.accepted # <<>> => ~trigger.active /\ decay.accepted[1] <= MaxCarry
=============================================================================
