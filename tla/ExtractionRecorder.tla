-------------------------- MODULE ExtractionRecorder --------------------------
(***************************************************************************)
(* The recorder itself: pump edges and scale readings in, an extraction    *)
(* record out.  Times are millis() values modulo ClockRange (2^32 in the   *)
(* code) and are compared as the code compares them, some by unsigned      *)
(* difference, some as plain numbers.  Weights are abstracted to what the  *)
(* LivePourTracker makes of a reading: a pour, rest, or neither.           *)
(***************************************************************************)
EXTENDS Integers, Sequences, ShotLifecycle

CONSTANTS
  ClockRange,     \* the clock counts modulo this
  EmptyTimeout,   \* NO_SCALE_TIMEOUT_MS, and EMPTY_SCALE_TIMEOUT_MS
  SettleTimeout,  \* OPEN_POUR_SETTLE_TIMEOUT_MS
  StallTimeout,   \* NO_NEW_SAMPLE_TIMEOUT_MS
  CloseSamples,   \* kRunCloseSamples
  MaxEvents,      \* Extraction::MAX_EVENTS
  MaxSamples,     \* Extraction::MAX_SAMPLES
  MaxGap,         \* bound: time between two updates
  MaxPull,        \* bound: time from begin during which the pump may run
  MaxAge,         \* bound: a reading the scale still reports is no older
  Bands,          \* bound: what the tracker makes of a reading, see below
  FirstStarts,    \* bound: when on the clock's dial the first record begins
  LatestStart,    \* bound: no record begins later on the dial
  Alarms,         \* bound: TRUE if the target alert may fire
  ShortPulses,    \* TRUE: the pump may run for one update only
  SharedStamps    \* TRUE: a reading may bear the time of the update that sees it

ASSUME RecorderConstants ==
  /\ {ClockRange, EmptyTimeout, SettleTimeout, StallTimeout, CloseSamples,
      MaxSamples, MaxGap, MaxPull, MaxAge, LatestStart} \subseteq Nat
  /\ MaxEvents \in Nat /\ MaxEvents > 4
  /\ FirstStarts \subseteq Nat
  /\ Bands \subseteq {"pour", "rest", "other", "none"}
  /\ ClockRange > 0 /\ MaxGap > 0 /\ CloseSamples > 0
  /\ {Alarms, ShortPulses, SharedStamps} \subseteq BOOLEAN

VARIABLES
  now,        \* the clock at the latest update
  reading,    \* timestamp of the scale's latest reading, 0 when it has none
  pumpFor,    \* updates the pump has been on for: 0, 1, or 2 for more
  current,    \* _current
  link,       \* the recorder's other members
  published,  \* _lastFinished if the latest update advanced _finishedSeq
  stored      \* the scale's latest reading is in some record (properties only)

pullVars == <<now, reading, pumpFor, current, link, published, stored>>

------------------------------------------------------------------------------
(* Clock arithmetic on uint32_t.                                           *)
Times == 0..(ClockRange - 1)
Minus(a, b) == (a - b) % ClockRange
Negative(d) == 2 * d >= ClockRange

(* ensureMonotonicTimestamp: 0 means "no reading".                         *)
Nudged(t) == IF t = 0 THEN 1 ELSE t
EnsureMonotonic(t, last) ==
  LET d == Minus(t, last)
  IN Nudged(IF d = 0 \/ Negative(d) THEN (last + 1) % ClockRange ELSE t)

------------------------------------------------------------------------------
(* LivePourTracker: a reading in the pour band opens a pour, CloseSamples  *)
(* readings at rest settle it and a reading with some other flow starts    *)
(* the count again; once a pour has begun any reading may show that its    *)
(* yield is meaningful.                                                    *)
FreshTracker == [sawPour |-> FALSE, settled |-> TRUE, rest |-> 0,
                 meaningful |-> FALSE]

AdvanceLivePour(t, band) ==
  CASE band = "pour" ->
         [t EXCEPT !.sawPour = TRUE, !.settled = FALSE, !.rest = 0]
    [] band = "rest" ->
         [t EXCEPT !.rest = IF @ < CloseSamples THEN @ + 1 ELSE @,
                   !.settled = @ \/ t.rest + 1 >= CloseSamples]
    [] band = "other" -> [t EXCEPT !.rest = 0]
    [] band = "none" -> t

Tracked(t, band, enough) ==
  LET s == AdvanceLivePour(t, band)
  IN [s EXCEPT !.meaningful = @ \/ (s.sawPour /\ enough)]

HasUnsettledPour(t) == t.sawPour /\ ~t.settled
SettledCountReached(t) == t.meaningful /\ t.rest >= CloseSamples

------------------------------------------------------------------------------
(* Records.                                                                *)
NewRecord ==
  [phase |-> "IDLE", begin |-> 0, end |-> 0, cause |-> "NONE",
   lastOff |-> 0, pumpOn |-> 0, alarm |-> 0, overflowed |-> FALSE,
   events |-> <<>>, samples |-> <<>>, observed |-> FALSE]

NewLink ==
  [stamp |-> 0, present |-> FALSE, pump |-> FALSE, onStart |-> 0, fed |-> 0,
   tracker |-> FreshTracker]

NoRecord == [NewRecord EXCEPT !.cause = "NO_RECORD"]

Event(t, kind) == [t |-> t, kind |-> kind]

(* Mutant of AppendEvent: no slots are kept for the finalize events.       *)
AppendEvent_Unreserved(r, t, kind) ==
  IF Len(r.events) >= MaxEvents
  THEN [r EXCEPT !.overflowed = TRUE]
  ELSE [r EXCEPT !.events = Append(@, Event(t, kind))]

(* appendEvent keeps two slots for the finalize events.                    *)
AppendEvent(r, t, kind) ==
  IF Len(r.events) >= MaxEvents - 2
  THEN [r EXCEPT !.overflowed = TRUE]
  ELSE [r EXCEPT !.events = Append(@, Event(t, kind))]

AppendFinalizeEvent(r, t, kind) ==
  IF Len(r.events) >= MaxEvents THEN r
  ELSE [r EXCEPT !.events = Append(@, Event(t, kind))]

(* Mutant of AppendSample: the buffer is not checked for room.             *)
AppendSample_Unbounded(r, t) == [r EXCEPT !.samples = Append(@, t)]

AppendSample(r, t) ==
  IF Len(r.samples) >= MaxSamples THEN r
  ELSE [r EXCEPT !.samples = Append(@, t)]

------------------------------------------------------------------------------
(* transitionTo, one operator per phase entered.                           *)
State(r, l) == [current |-> r, link |-> l]

(* The scale's presence is the only bookkeeping that survives.             *)
ToIdle(s) ==
  IF s.current.phase = "IDLE" THEN s
  ELSE State(NewRecord, [NewLink EXCEPT !.present = s.link.present])

(* Mutant of ToRunning: the interval's start is noted by the first only.   *)
ToRunning_OneStart(s, t) ==
  LET begun == IF s.current.phase = "IDLE"
               THEN AppendEvent([s.current EXCEPT !.begin = t], t, "BEGIN")
               ELSE s.current
  IN State([AppendEvent(begun, t, "PUMP_ON") EXCEPT !.phase = "RUNNING"],
           [s.link EXCEPT !.onStart = IF s.current.phase = "IDLE"
                                      THEN t ELSE @])

ToRunning(s, t) ==
  LET begun == IF s.current.phase = "IDLE"
               THEN AppendEvent([s.current EXCEPT !.begin = t], t, "BEGIN")
               ELSE s.current
  IN State([AppendEvent(begun, t, "PUMP_ON") EXCEPT !.phase = "RUNNING"],
           [s.link EXCEPT !.onStart = t])

ToPostPump(s, t) ==
  LET off == [s.current EXCEPT !.pumpOn = @ + Minus(t, s.link.onStart),
                               !.lastOff = t]
  IN State([AppendEvent(off, t, "PUMP_OFF_CONFIRMED") EXCEPT !.phase = "POST_PUMP"],
           s.link)

(* Events after the intended end are taken back from the tail.             *)
TrimAfter(events, t) ==
  LET kept == {k \in 0..Len(events) : k = 0 \/ events[k].t <= t}
  IN SubSeq(events, 1, CHOOSE k \in kept : \A j \in kept : j <= k)

ToDone(s, t, cause) ==
  LET stable == IF cause = "STABLE"
                THEN AppendFinalizeEvent(s.current, t, "STABLE_DETECTED")
                ELSE s.current
      intended == IF cause = "TIMEOUT" /\ ~s.current.observed
                  THEN s.current.lastOff ELSE t
      events == TrimAfter(stable.events, intended)
      end == IF events = <<>> THEN intended
             ELSE EnsureMonotonic(intended, events[Len(events)].t)
  IN State(AppendFinalizeEvent([stable EXCEPT !.events = events, !.end = end,
                                      !.cause = cause, !.phase = "DONE"],
                       end, "END"),
           s.link)

------------------------------------------------------------------------------
(* update().                                                               *)

(* Mutant of IsNew: a reading is taken whenever the scale has one.         *)
IsNew_Any(s, scale) == scale.present /\ scale.t # 0

(* Mutant of Precedes: a reading older than the record is not ignored.     *)
Precedes_Never(t, r) == FALSE

(* recordLiveTick: presence events, and a reading not seen before that is  *)
(* not older than the record.                                              *)
IsNew(s, scale) == scale.present /\ scale.t # 0 /\ scale.t # s.link.stamp

Precedes(t, r) == Negative(Minus(t, r.begin))

RecordLiveTick(s, t, scale) ==
  LET r == CASE scale.present /\ ~s.link.present ->
                  AppendEvent(s.current, t, "SCALE_CONNECTED")
             [] ~scale.present /\ s.link.present ->
                  AppendEvent(s.current, t, "SCALE_DISCONNECTED")
             [] OTHER -> s.current
      seen == [s.link EXCEPT !.stamp = scale.t]
  IN CASE ~IsNew(s, scale) -> State(r, s.link)
       [] IsNew(s, scale) /\ Precedes(scale.t, r) -> State(r, seen)
       [] OTHER ->
            State([AppendSample(r, scale.t) EXCEPT !.observed = TRUE],
                  [seen EXCEPT !.fed = t,
                     !.tracker = Tracked(@, scale.band, scale.enough)])

(* resumeOrSplitShot: does the pump start join the open record?            *)
Coalesces(s, t, scale) ==
  IF scale.present /\ s.link.tracker.meaningful
  THEN HasUnsettledPour(s.link.tracker)
  ELSE Minus(t, s.current.lastOff) <= EmptyTimeout

SplitCause(s, scale) ==
  IF scale.present /\ s.link.tracker.meaningful THEN "STABLE" ELSE "TIMEOUT"

(* finalizeIfShotEnded.                                                    *)
StreamStalled(s, t) ==
  s.link.fed # 0 /\ Minus(t, s.link.fed) > StallTimeout

(* Mutant of FinalCause: only a record the scale fed can run out of time.  *)
FinalCause_FedOnly(s, t) ==
  LET offFor == Minus(t, s.current.lastOff)
      tracker == s.link.tracker
  IN CASE SettledCountReached(tracker) -> "STABLE"
       [] ~SettledCountReached(tracker) /\ HasUnsettledPour(tracker) ->
            IF StreamStalled(s, t) \/ offFor > SettleTimeout
            THEN "TIMEOUT" ELSE "NONE"
       [] OTHER -> IF s.link.fed # 0 /\ offFor > EmptyTimeout
                   THEN "TIMEOUT" ELSE "NONE"

FinalCause(s, t) ==
  LET offFor == Minus(t, s.current.lastOff)
      tracker == s.link.tracker
  IN CASE SettledCountReached(tracker) -> "STABLE"
       [] ~SettledCountReached(tracker) /\ HasUnsettledPour(tracker) ->
            IF StreamStalled(s, t) \/ offFor > SettleTimeout
            THEN "TIMEOUT" ELSE "NONE"
       [] OTHER -> IF offFor > EmptyTimeout THEN "TIMEOUT" ELSE "NONE"

(* What one update leaves, and the record it finalized, if any.            *)
Result(s, finished) == [state |-> s, finished |-> finished]

(* Mutant of OnPostPump: a split does not pass through IDLE.               *)
OnPostPump_NoReset(s, t, rising, scale) ==
  LET split == ToDone(s, t, SplitCause(s, scale))
      ended == ToDone(s, t, FinalCause(s, t))
  IN CASE rising /\ Coalesces(s, t, scale) -> Result(ToRunning(s, t), NoRecord)
       [] rising /\ ~Coalesces(s, t, scale) ->
            Result(ToRunning(split, t), split.current)
       [] ~rising /\ FinalCause(s, t) # "NONE" -> Result(ended, ended.current)
       [] OTHER -> Result(s, NoRecord)

OnPostPump(s, t, rising, scale) ==
  LET split == ToDone(s, t, SplitCause(s, scale))
      ended == ToDone(s, t, FinalCause(s, t))
  IN CASE rising /\ Coalesces(s, t, scale) -> Result(ToRunning(s, t), NoRecord)
       [] rising /\ ~Coalesces(s, t, scale) ->
            Result(ToRunning(ToIdle(split), t), split.current)
       [] ~rising /\ FinalCause(s, t) # "NONE" -> Result(ended, ended.current)
       [] OTHER -> Result(s, NoRecord)

(* Mutant of Updated: an update that takes a reading looks no further.     *)
Updated_OneInput(s0, t, pumpOn, scale) ==
  LET took == InPumpWindow(s0.current.phase) /\ IsNew(s0, scale)
      s1 == IF InPumpWindow(s0.current.phase)
            THEN RecordLiveTick(s0, t, scale) ELSE s0
      rising == pumpOn /\ ~s1.link.pump
      falling == ~pumpOn /\ s1.link.pump
      s == State(s1.current, [s1.link EXCEPT !.present = scale.present,
                                             !.pump = pumpOn])
  IN CASE took -> Result(s, NoRecord)
       [] ~took /\ s.current.phase = "POST_PUMP" ->
            OnPostPump(s, t, rising, scale)
       [] ~took /\ s.current.phase = "RUNNING" /\ falling ->
            Result(ToPostPump(s, t), NoRecord)
       [] ~took /\ s.current.phase \in {"IDLE", "DONE"} /\ rising ->
            Result(ToRunning(ToIdle(s), t), NoRecord)
       [] OTHER -> Result(s, NoRecord)

Updated(s0, t, pumpOn, scale) ==
  LET s1 == IF InPumpWindow(s0.current.phase)
            THEN RecordLiveTick(s0, t, scale) ELSE s0
      rising == pumpOn /\ ~s1.link.pump
      falling == ~pumpOn /\ s1.link.pump
      s == State(s1.current, [s1.link EXCEPT !.present = scale.present,
                                             !.pump = pumpOn])
  IN CASE s.current.phase = "POST_PUMP" -> OnPostPump(s, t, rising, scale)
       [] s.current.phase = "RUNNING" /\ falling ->
            Result(ToPostPump(s, t), NoRecord)
       [] s.current.phase \in {"IDLE", "DONE"} /\ rising ->
            Result(ToRunning(ToIdle(s), t), NoRecord)
       [] OTHER -> Result(s, NoRecord)

------------------------------------------------------------------------------
(* The inputs: the pump is on or off, the scale is present or not and may  *)
(* have a new reading, which arrived at the time of this update or a       *)
(* millisecond before it.                                                  *)
Arrived(t) == Nudged(IF SharedStamps THEN t ELSE Minus(t, 1))

Scale(present, t, band, enough) ==
  [present |-> present, t |-> t, band |-> band, enough |-> enough]

Scales(t) ==
  {Scale(FALSE, 0, "none", FALSE)}
  \cup {Scale(TRUE, x, "none", FALSE) :
           x \in {y \in {reading} : y = 0 \/ Minus(t, y) <= MaxAge}}
  \cup {Scale(TRUE, x, b, e) : x \in {Arrived(t)} \ {reading},
                               b \in Bands, e \in BOOLEAN}

(* Bounds on the pump: when it may start and how late it may run, and, but *)
(* for ShortPulses, that two updates see each pulse.                       *)
PumpMayBe(on, t) ==
  CASE ~on -> pumpFor # 1 \/ ShortPulses
    [] on /\ InPumpWindow(current.phase) ->
         \/ pumpFor = 1
         \/ /\ Minus(t, current.begin) <= MaxPull
            /\ pumpFor = 2 \/ t <= LatestStart
    [] OTHER -> pumpFor = 1 \/ t \in FirstStarts

Takes(scale) ==
  /\ InPumpWindow(current.phase)
  /\ IsNew(State(current, link), scale)
  /\ ~Precedes(scale.t, current)

RecorderInit ==
  /\ now = 0
  /\ reading = 0
  /\ pumpFor = 0
  /\ current = NewRecord
  /\ link = NewLink
  /\ published = NoRecord
  /\ stored = 0

(* The bound on time: MaxGap, but when no record may begin before the dial *)
(* turns over the clock is taken there at once.                            *)
Gaps ==
  IF InPumpWindow(current.phase) \/ \E t \in FirstStarts : t > now
  THEN 1..MaxGap ELSE {ClockRange - now}

(* One update: the pump and the scale as they are gap milliseconds later.  *)
RecorderUpdate(gap, on) ==
  LET t == (now + gap) % ClockRange
  IN /\ PumpMayBe(on, t)
     /\ \E scale \in Scales(t) :
          LET r == Updated(State(current, link), t, on, scale)
          IN /\ reading' = scale.t
             /\ current' = r.state.current
             /\ link' = r.state.link
             /\ published' = r.finished
             /\ stored' = (IF scale.t = reading THEN stored ELSE 0)
                            + (IF Takes(scale) /\ stored < 2 THEN 1 ELSE 0)
     /\ now' = t
     /\ pumpFor' = CASE ~on -> 0 [] on /\ pumpFor = 0 -> 1 [] OTHER -> 2

(* clear(), when the screen is left or a shot is rejected.                 *)
Clear ==
  /\ LET s == ToIdle(State(current, link))
     IN current' = s.current /\ link' = s.link
  /\ published' = NoRecord
  /\ UNCHANGED <<now, reading, pumpFor, stored>>

(* triggerAlarm, at the time of the latest update.                         *)
TriggerAlarm ==
  /\ Alarms
  /\ current.alarm = 0
  /\ current.phase = "RUNNING"
  /\ current' = AppendEvent([current EXCEPT !.alarm = now], now,
                            "ALARM_TRIGGERED")
  /\ UNCHANGED <<now, reading, pumpFor, link, published, stored>>

AnyUpdate == \E gap \in Gaps, on \in BOOLEAN : RecorderUpdate(gap, on)

RecorderNext == AnyUpdate \/ Clear \/ TriggerAlarm

RecorderSpec == RecorderInit /\ [][RecorderNext]_pullVars

(* The main loop never stops updating the recorder; an update is always    *)
(* possible and is what moves the clock.                                   *)
FairRecorderSpec == RecorderSpec /\ []<><<now' # now>>_now

------------------------------------------------------------------------------
(* Properties.                                                             *)
Record == [phase : Phases, begin : Times, end : Times,
           cause : {"NONE", "STABLE", "TIMEOUT", "NO_RECORD"},
           lastOff : Times, pumpOn : Nat, alarm : Times,
           overflowed : BOOLEAN, events : Seq([t : Times, kind : STRING]),
           samples : Seq(Times), observed : BOOLEAN]

(* Every field has its type and both buffers keep to their sizes           *)
(* (Extraction::MAX_EVENTS, Extraction::MAX_SAMPLES).                      *)
RecorderTypeOK ==
  /\ {now, reading} \subseteq Times
  /\ pumpFor \in 0..2 /\ stored \in 0..2
  /\ \A r \in {current, published} :
       r \in Record /\ Len(r.events) <= MaxEvents /\ Len(r.samples) <= MaxSamples
  /\ link.tracker.rest \in 0..CloseSamples

Offset(t, r) == Minus(t, r.begin)
IsPump(e) == e.kind \in {"PUMP_ON", "PUMP_OFF_CONFIRMED"}

(* The switches of the pump among some events: one comes next after another*)
(* and, when the pulses are closed, every PUMP_ON before its PUMP_OFF.     *)
Pumps(e) == {i \in 1..Len(e) : IsPump(e[i])}
Turns(e, i, kind) == i \in Pumps(e) /\ e[i].kind = kind
NextPump(e, i, j) == i < j /\ \A k \in Pumps(e) : k <= i \/ j <= k
LastPump(e, i) == i \in Pumps(e) /\ \A k \in Pumps(e) : k <= i

PulsesClosed(e) ==
  /\ \E i \in 1..Len(e) : LastPump(e, i)
  /\ \A i \in 1..Len(e) : Turns(e, i, "PUMP_ON")
       => \E j \in 1..Len(e) : NextPump(e, i, j) /\ Turns(e, j, "PUMP_OFF_CONFIRMED")
  /\ \A j \in 1..Len(e) : Turns(e, j, "PUMP_OFF_CONFIRMED")
       => \E i \in 1..Len(e) : NextPump(e, i, j) /\ Turns(e, i, "PUMP_ON")

(* A published record opens with BEGIN, closes with its only END, keeps its*)
(* events in time order between the two, and unless it overflowed its pump *)
(* events alternate from on to off, however the record was ended.          *)
TimelineSound ==
  published # NoRecord =>
    LET e == published.events
    IN /\ e # <<>>
       /\ e[1] = Event(published.begin, "BEGIN")
       /\ \A i \in 1..Len(e) :
            e[i].kind = "END" <=> i = Len(e)
       /\ e[Len(e)].t = published.end
       /\ \A i \in 1..(Len(e) - 1) :
            Offset(e[i].t, published) <= Offset(e[i + 1].t, published)
       /\ ~published.overflowed =>
            /\ PulsesClosed(e)
            /\ \A i \in 1..Len(e) : LastPump(e, i) => e[i].t = published.lastOff

(* The time the pump was on by the first i events: each PUMP_OFF adds its   *)
(* distance from begin, each PUMP_ON takes its own away.                   *)
Switched(e, begin, i) ==
  CASE Turns(e, i, "PUMP_OFF_CONFIRMED") -> Minus(e[i].t, begin)
    [] Turns(e, i, "PUMP_ON") -> -Minus(e[i].t, begin)
    [] OTHER -> 0

OnTime(e, begin) ==
  LET on[i \in Nat] == IF i = 0 THEN 0 ELSE on[i - 1] + Switched(e, begin, i)
  IN on

(* totalPumpOnMs is the time its events say the pump was on, over all the  *)
(* intervals that joined, and no more than the record's length.            *)
PumpTimeAccounted ==
  published # NoRecord =>
    LET e == published.events
    IN /\ published.pumpOn <= Offset(published.end, published)
       /\ ~published.overflowed =>
            published.pumpOn = OnTime(e, published.begin)[Len(e)]

(* Samples are in time order, none from before the record began (its       *)
(* offset would underflow) and none from after its end.                    *)
SamplesInside ==
  published # NoRecord =>
    LET x == published.samples
    IN /\ \A i \in 1..Len(x) :
            Offset(x[i], published) <= Offset(published.end, published)
       /\ \A i \in 1..(Len(x) - 1) :
            Offset(x[i], published) < Offset(x[i + 1], published)

(* The record is RUNNING only while the pump runs: no pulse is left open.  *)
RunningMeansPumpOn == current.phase = "RUNNING" => pumpFor > 0

(* A scale reading becomes a sample at most once, though the same snapshot *)
(* is passed to many updates and the dedup key is reset with the record.   *)
ReadingStoredOnce == stored <= 1

(* The recorder keeps the promise its controller is modelled with: each    *)
(* update does to the record what ShotLifecycle allows, and clear() and    *)
(* triggerAlarm() no more than clear it.                                   *)
Life(r) == [phase |-> r.phase, begin |-> r.begin, n |-> Len(r.samples),
            source |-> "live"]
LifeOutcome(r, finished) ==
  Outcome(Life(r), IF finished = NoRecord THEN NoShot ELSE ShotOf(Life(finished)))

KeepsLifecycle ==
  [][/\ AnyUpdate => LifeOutcome(current', published')
                       \in Updates(Life(current), now', "live", MaxSamples)
     /\ Clear \/ TriggerAlarm => Life(current') \in {Life(current), Cleared}]_pullVars

(* Once the pump stays off the record is closed, whatever the scale does:  *)
(* settles, keeps wandering, stops sending or was never there.             *)
RecordCloses == <>[](pumpFor = 0) => <>[](~InPumpWindow(current.phase))

==============================================================================
