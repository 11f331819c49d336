------------------------------ MODULE Backflush ------------------------------
(***************************************************************************)
(* The backflush routine: BackflushCycle, which measures the periods, and  *)
(* BackflushScreen, which owns a session of the vibration sensor, sounds   *)
(* the cues and shows the durations.  All of it runs on the main task; the *)
(* sensor publishes a frame, with the pump on or off, at any time between  *)
(* two ticks, or stalls.  Times are ages: a period, a pending change and   *)
(* every timer carry the time since they began.                            *)
(***************************************************************************)
EXTENDS Integers, Sequences, FiniteSets, Sums

CONSTANTS
  CycleCount,    \* CYCLE_COUNT
  PhaseTarget,   \* PHASE_TARGET_MS
  ConfirmEarly,  \* BEFORE_TARGET_PUMP_CHANGE_CONFIRM_MS
  ConfirmLate,   \* AFTER_TARGET_PUMP_CHANGE_CONFIRM_MS
  Inactivity,    \* kInactivityMs
  SensorStale,   \* kSensorStaleMs
  SummaryAwake,  \* kSummaryAwakeMs
  Countdown,     \* the last seconds of a timed period that are counted
  MaxTickGap     \* bound: time between two ticks

ASSUME BackflushConstants ==
  /\ {CycleCount, PhaseTarget, ConfirmEarly, ConfirmLate, MaxTickGap} \subseteq Nat \ {0}
  /\ {Inactivity, SensorStale, SummaryAwake, Countdown} \subseteq Nat
  /\ ConfirmLate <= ConfirmEarly

VARIABLES
  cycle,       \* BackflushCycle: phase, index, elapsed, change, on, off
  running,     \* _sensorRunning
  detected,    \* _pumpDetected
  framed,      \* _hasSensorFrame
  ended,       \* _sessionEnd
  spoken,      \* _lastInstruction, "" until one was announced, and _lastCountdownSecond
  timers,      \* ages of _lastProgressMs, _resultsShownMs and the sensor's last result
  drawn,       \* _drawnState
  picture,     \* what the last requested draw put on the display
  awake,       \* the latest step called keepAwake()
  watch        \* properties only: time since the pump first ran, and since
               \* the detected state last changed; and the latest period's end

backflushVars == <<cycle, running, detected, framed, ended, spoken, timers, drawn,
                   picture, awake, watch>>

------------------------------------------------------------------------------
(* BackflushCycle.  change is the age of a pending pump change, or <<>>.   *)
NewCycle == [phase |-> "WaitingForPump", index |-> 0, elapsed |-> 0, change |-> <<>>,
             on |-> <<>>, off |-> <<>>]

BeginPhase(c, phase, elapsed) ==
  [c EXCEPT !.phase = phase, !.elapsed = elapsed, !.change = <<>>]

Elapsed(c) == IF c.phase \in {"PumpOn", "PumpOff"} THEN c.elapsed ELSE 0
Remaining(c) == IF Elapsed(c) >= PhaseTarget THEN 0 ELSE PhaseTarget - Elapsed(c)
LastCycle(c) == c.index + 1 = CycleCount

DisplayPhase(c) ==
  CASE c.change # <<>> /\ c.phase = "PumpOn" /\ ~LastCycle(c) -> "PumpOff"
    [] c.change # <<>> /\ c.phase = "PumpOff" -> "PumpOn"
    [] OTHER -> c.phase
DisplayElapsed(c) == IF DisplayPhase(c) # c.phase THEN c.change[1] ELSE Elapsed(c)
DisplayIndex(c) == IF c.change # <<>> /\ c.phase = "PumpOff" THEN c.index + 1 ELSE c.index

OnRecorded(c, i) ==
  i < CycleCount /\ (i < c.index \/ (i = c.index /\ c.phase \in {"PumpOff", "Complete"}))
OffRecorded(c, i) == i < CycleCount /\ i < c.index

Instruction(c) ==
  CASE c.phase = "WaitingForPump" -> "StartPump"
    [] c.phase = "PumpOn"  -> IF Elapsed(c) >= PhaseTarget THEN "StopPump" ELSE "PumpOn"
    [] c.phase = "PumpOff" -> IF Elapsed(c) >= PhaseTarget THEN "StartPump" ELSE "Wait"
    [] c.phase = "Complete" -> "Complete"

DisplayInstruction(c) ==
  CASE c.change = <<>> -> Instruction(c)
    [] c.change # <<>> /\ c.phase = "PumpOn" /\ LastCycle(c) -> "StopPump"
    [] OTHER -> CASE DisplayPhase(c) = "PumpOn" -> "PumpOn"
                  [] DisplayPhase(c) = "PumpOff" -> "Wait"
                  [] OTHER -> Instruction(c)

\* The window of the moment at which the change is applied.
X_ShouldApplyPumpChange(c) ==
  /\ c.change # <<>>
  /\ c.change[1] >= IF c.elapsed >= PhaseTarget THEN ConfirmLate ELSE ConfirmEarly

\* The window is the one of the moment the change was first seen.
ShouldApplyPumpChange(c) ==
  /\ c.change # <<>>
  /\ c.change[1] >= IF c.elapsed - c.change[1] >= PhaseTarget THEN ConfirmLate ELSE ConfirmEarly

Remembered(c) == IF c.change = <<>> THEN [c EXCEPT !.change = <<0>>] ELSE c

\* update() with the pump in the state the period lasts for, and in the other.
Steady(c) == [c EXCEPT !.change = <<>>]
Changed(c) ==
  LET r == Remembered(c)
      length == r.elapsed - r.change[1]
  IN CASE ~ShouldApplyPumpChange(r) -> r
       [] ShouldApplyPumpChange(r) /\ r.phase = "PumpOff" ->
            BeginPhase([r EXCEPT !.off = Append(@, length), !.index = @ + 1], "PumpOn", r.change[1])
       [] ShouldApplyPumpChange(r) /\ r.phase = "PumpOn" ->
            BeginPhase([r EXCEPT !.on = Append(@, length)],
                       IF LastCycle(r) THEN "Complete" ELSE "PumpOff", r.change[1])

Update(c, pump) ==
  CASE c.phase = "WaitingForPump" -> IF pump THEN BeginPhase(c, "PumpOn", 0) ELSE c
    [] c.phase = "PumpOn"  -> IF pump THEN Steady(c) ELSE Changed(c)
    [] c.phase = "PumpOff" -> IF pump THEN Changed(c) ELSE Steady(c)
    [] c.phase = "Complete" -> c

\* Returned by update(): a period began or the run finished.
MovedOn(c, d) == c.phase # d.phase

\* The clock moves on by gap.
Aged(c, gap) ==
  [c EXCEPT !.elapsed = IF c.phase \in {"PumpOn", "PumpOff"} THEN @ + gap ELSE @,
            !.change = IF @ = <<>> THEN @ ELSE <<@[1] + gap>>]

------------------------------------------------------------------------------
(* The screen.                                                             *)
HasResults(c) == OnRecorded(c, 0)

\* displayState(): what the active view is drawn from.
DisplayState(c, hasFrame) ==
  [phase |-> DisplayPhase(c), instruction |-> DisplayInstruction(c),
   elapsed |-> DisplayElapsed(c), index |-> DisplayIndex(c), hasFrame |-> hasFrame]
InitialDisplay == DisplayState(NewCycle, FALSE)

\* drawActive(): the cycle, the instruction, the timer and its bar.
ActiveView(c) == [view |-> "active", state |-> DisplayState(c, TRUE)]

\* drawSummary(): every recorded duration, under a line saying how the run ended.
Summary(c, note) == [view |-> "summary", note |-> note, on |-> c.on, off |-> c.off]

\* onDraw(): the state of the screen that is drawn.
View(c, run, hasFrame, end) ==
  CASE c.phase = "Complete" -> Summary(c, "COMPLETE")
    [] c.phase # "Complete" /\ end # "None" ->
         IF HasResults(c) THEN Summary(c, end) ELSE [view |-> "card", note |-> end]
    [] c.phase # "Complete" /\ end = "None" /\ ~run -> [view |-> "card", note |-> "unavailable"]
    [] c.phase # "Complete" /\ end = "None" /\ run ->
         IF hasFrame THEN ActiveView(c) ELSE [view |-> "starting"]

\* buttonHints(): how starting over is offered.
Hint(c, run, end) ==
  IF run \/ HasResults(c) THEN "hold: AGAIN" ELSE IF end = "None" THEN "tap: RETRY" ELSE "tap: AGAIN"

RequestDraw == picture' = View(cycle', running', framed', ended')

\* updateAudio(): the command and the countdown second that have been sounded.
Silence == [command |-> "", second |-> 0]
UpdateAudio(c, s) ==
  LET now == Instruction(c)
      announced == IF s.command # now THEN [command |-> now, second |-> 0] ELSE s
      second == Remaining(c)
      counts == now \in {"PumpOn", "Wait"} /\ second # 0 /\ second <= Countdown
                /\ second # announced.second
  IN IF c.change # <<>> THEN s
     ELSE IF counts THEN [announced EXCEPT !.second = second] ELSE announced

------------------------------------------------------------------------------
NoTimers == [progress |-> 0, results |-> 0, sensor |-> 0]
NoWatch == [since |-> 0, steady |-> 0, last |-> <<>>]

BackflushInit ==
  /\ cycle = NewCycle /\ running = FALSE /\ detected = FALSE /\ framed = FALSE
  /\ ended = "None" /\ spoken = Silence /\ timers = NoTimers /\ drawn = InitialDisplay
  /\ picture = View(NewCycle, FALSE, FALSE, "None") /\ awake = FALSE /\ watch = NoWatch

(* startSession(), after the one before it was stopped; the sensor may be  *)
(* refused.  The screen is drawn by what called it.                        *)
StartSession ==
  /\ cycle' = NewCycle /\ detected' = FALSE /\ framed' = FALSE /\ ended' = "None"
  /\ spoken' = Silence /\ drawn' = InitialDisplay /\ watch' = NoWatch
  /\ running' \in BOOLEAN /\ awake' = running'
  /\ timers' = IF running' THEN [timers EXCEPT !.progress = 0, !.sensor = 0] ELSE timers
  /\ RequestDraw

(* onEvent(): holding A starts over from anywhere; tapping it only when no *)
(* session runs and there is no duration to lose.                          *)
HoldA == StartSession
TapRestarts == ~running /\ ~HasResults(cycle)
TapA == TapRestarts /\ StartSession

(* Leaving with B stops the session; entering again starts one.            *)
OnEnter == StartSession

EndSession(reason, t) ==
  /\ running' = FALSE /\ ended' = reason /\ awake' = FALSE
  /\ timers' = [t EXCEPT !.results = 0] /\ spoken' = Silence
  /\ UNCHANGED drawn
  /\ RequestDraw

Bounded(age, limit) == IF age > limit THEN limit ELSE age
Later(gap) ==
  [progress |-> Bounded(timers.progress + gap, Inactivity),
   results |-> Bounded(timers.results + gap, SummaryAwake),
   sensor |-> Bounded(timers.sensor + gap, SensorStale)]

\* What passes for the properties when detected becomes on and moves the cycle
\* from c to d.
Watched(c, d, gap, on) ==
  LET steady == IF on = detected THEN watch.steady + gap ELSE 0
  IN [since |-> IF c.phase = "WaitingForPump" THEN 0
                ELSE IF c.phase = "Complete" THEN watch.since ELSE watch.since + gap,
      steady |-> Bounded(steady, ConfirmEarly),
      last |-> IF c.phase \in {"PumpOn", "PumpOff"} /\ MovedOn(c, d)
               THEN <<IF c.phase = "PumpOn" THEN d.on[Len(d.on)] ELSE d.off[Len(d.off)],
                      Bounded(steady, ConfirmEarly)>>
               ELSE watch.last]

(* tick() with a session running: takes the sensor's latest result if it   *)
(* published one since the last tick.                                      *)
Tick(gap, fresh, on) ==
  LET t == IF fresh THEN [Later(gap) EXCEPT !.sensor = 0] ELSE Later(gap)
      c == Aged(cycle, gap)
      has == framed \/ fresh
      d == IF has THEN Update(c, on) ELSE c
      done == d.phase = "Complete"
  IN /\ running /\ (fresh \/ on = detected)
     /\ detected' = on
     /\ \/ /\ ~fresh /\ t.sensor >= SensorStale
           /\ cycle' = c /\ framed' = framed /\ watch' = Watched(c, c, gap, on)
           /\ EndSession("SensorStalled", t)
        \/ /\ (fresh \/ t.sensor < SensorStale) /\ t.progress >= Inactivity
           /\ cycle' = c /\ framed' = has /\ watch' = Watched(c, c, gap, on)
           /\ EndSession("Inactivity", t)
        \/ /\ (fresh \/ t.sensor < SensorStale) /\ t.progress < Inactivity
           /\ cycle' = d /\ framed' = has /\ awake' = TRUE
           /\ watch' = Watched(c, d, gap, on)
           /\ spoken' = IF has THEN UpdateAudio(d, spoken) ELSE spoken
           /\ running' = ~done
           /\ timers' = [t EXCEPT !.progress = IF MovedOn(c, d) THEN 0 ELSE @,
                                  !.results = IF done THEN 0 ELSE @]
           /\ drawn' = IF done THEN drawn ELSE DisplayState(d, has)
           /\ UNCHANGED ended
           /\ IF done \/ DisplayState(d, has) # drawn THEN RequestDraw ELSE UNCHANGED picture

(* tick() without one: the summary keeps the device awake for a while.     *)
TickEnded(gap) ==
  /\ ~running /\ timers' = Later(gap)
  /\ awake' = (HasResults(cycle) /\ Later(gap).results < SummaryAwake)
  /\ UNCHANGED <<cycle, running, detected, framed, ended, spoken, drawn, picture, watch>>

SessionTick == \E gap \in 1..MaxTickGap, fresh, on \in BOOLEAN : Tick(gap, fresh, on)
SummaryTick == \E gap \in 1..MaxTickGap : TickEnded(gap)

BackflushNext == HoldA \/ TapA \/ OnEnter \/ SessionTick \/ SummaryTick

BackflushSpec == BackflushInit /\ [][BackflushNext]_backflushVars

------------------------------------------------------------------------------
(* Properties.                                                             *)

(* The durations are the operator's: together with the period that runs    *)
(* they account for all the time since the pump first ran, whatever was    *)
(* confirmed late or withdrawn, and no period was ended by a change that   *)
(* lasted less than the window the length of the period calls for          *)
(* (BackflushCycle::update).                                               *)
PeriodsMeasured ==
  /\ cycle.phase \in {"PumpOn", "PumpOff"} =>
       Total(cycle.on) + Total(cycle.off) + cycle.elapsed = watch.since
  /\ Len(cycle.on) = Cardinality({i \in 0..CycleCount : OnRecorded(cycle, i)})
  /\ Len(cycle.off) = Cardinality({i \in 0..CycleCount : OffRecorded(cycle, i)})
  /\ watch.last # <<>> =>
       watch.last[2] >= IF watch.last[1] >= PhaseTarget THEN ConfirmLate ELSE ConfirmEarly

(* Between two ticks the display shows what onDraw would draw, though a    *)
(* tick asks for a draw only when its comparison or its branch says so;    *)
(* and what the card or the hint promises of a tap is what a tap does.     *)
PictureIsCurrent ==
  /\ picture = View(cycle, running, framed, ended)
  /\ picture.view = "card" <=> TapRestarts
  /\ Hint(cycle, running, ended) \in {"tap: RETRY", "tap: AGAIN"} <=> TapRestarts
=============================================================================
