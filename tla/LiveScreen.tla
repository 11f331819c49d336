----------------------------- MODULE LiveScreen -----------------------------
(***************************************************************************)
(* The live view of the extraction, ExtractionScreen: its four views, the  *)
(* replay of a stored shot through the recorder that records live ones,    *)
(* the target alert (TargetAlert) and its sounds, and the picture on the   *)
(* panel.  The recorder is reduced to its phases, the yield the pour       *)
(* tracker trusts and its latch (ExtractionRecorder.tla has the rest), the *)
(* controller to what the screen sees of it (ExtractionController.tla),    *)
(* and drawing to what the picture depends on.  All of it runs on the main *)
(* task: an event or a tick, with the drawing at its end, is one step.     *)
(*                                                                         *)
(* A target is the weight at which an armed alert fires, 0 when there is   *)
(* no target or the alert is off.  A weight the tracker does not trust is  *)
(* left out: it moves the number on the gauge and nothing else here.       *)
(***************************************************************************)
EXTENDS Integers

CONSTANTS
  UserTargets,    \* the targets a user sets: 0 and others
  StoredTargets,  \* the targets recorded with the shots in the history
  MaxYield,       \* the highest trusted yield
  Overshoot,      \* what drips after the pump is off, once a flow is known
  ApproachWindow  \* kApproachWindowMs: the countdown, in steps of a second

ASSUME LiveAssumption ==
  /\ MaxYield \in Nat /\ Overshoot \in Nat /\ ApproachWindow \in Nat
  /\ UserTargets \subseteq 0 .. MaxYield /\ StoredTargets \subseteq 0 .. MaxYield

VARIABLES
  liveView,       \* _viewMode, or "Gone" while another screen is up
  paused,         \* _replayer.paused()
  band,           \* _replayShowFlowBand
  user,           \* _targetStore.coeffs()
  coeffs,         \* the controller's _targetCoeffs
  rec,            \* _recorder.current(), the record being made
  alert,          \* _targetAlert
  cue,            \* _alertState, the countdown's variables and the speaker
  accepted,       \* _lastAcceptedShot: its target, or NoLastShot
  loaded,         \* *_loadedShot: its target, or NoLastShot
  saved,          \* _latestAcceptedShotSaved
  scale,          \* a weight is there: of the live scale, in a replay of its frame
  mounted,        \* _storageState = Ready
  loadFailed,     \* a stored shot could not be read since the last picture
  panel           \* the picture on the panel

liveVars == <<liveView, paused, band, user, coeffs, rec, alert, cue, accepted,
              loaded, saved, scale, mounted, loadFailed, panel>>

\* No shot, and a shot recorded without its target: numbers no target has.
NoSnapshot == MaxYield + 1
NoLastShot == MaxYield + 2
Stored == StoredTargets \cup {NoSnapshot}
NoYield == -1        \* no pour has started
Meaningful == 1      \* kMeaningfulYieldCg
BeepMin == 1         \* kCountdownBeepMinMs, in ticks
BeepMax == 2         \* kCountdownBeepMaxMs
-----------------------------------------------------------------------------
(* The record being made.                                                  *)
NoRec == [phase |-> "IDLE", yield |-> NoYield, meaningful |-> FALSE, real |-> FALSE,
          target |-> NoSnapshot]
NewRec == [NoRec EXCEPT !.phase = "RUNNING"]
CurrentInPumpWindow(r) == r.phase \in {"RUNNING", "POST_PUMP"}
HasPour(r) == r.yield # NoYield

(* recordLiveTick: the records a reading may make of a live one.  The pour *)
(* tracker latches a meaningful yield.                                     *)
Weighed(r, y) == [r EXCEPT !.yield = y, !.meaningful = @ \/ y >= Meaningful]
Readings(r, weighed) ==
  IF weighed /\ CurrentInPumpWindow(r) THEN {r} \cup {Weighed(r, y) : y \in 0 .. MaxYield} ELSE {r}

(* The verdict on a finished record is of its samples (isLikelyRealShot):  *)
(* any, when they hold a pour.                                             *)
Finished(r) ==
  {[r EXCEPT !.phase = "DONE", !.real = b] : b \in IF HasPour(r) THEN BOOLEAN ELSE {FALSE}}

(* update: the records it may lead to, with the one it finished, if any.   *)
(* turned: the pump went on, or off in a running record.                   *)
Advanced(r, finished) == [rec |-> r, finished |-> finished]

Advances(r, turned) ==
  CASE ~turned /\ r.phase # "POST_PUMP" -> {Advanced(r, NoRec)}
    [] turned /\ r.phase \in {"IDLE", "DONE"} -> {Advanced(NewRec, NoRec)}
    [] turned /\ r.phase = "RUNNING" -> {Advanced([r EXCEPT !.phase = "POST_PUMP"], NoRec)}
    [] turned /\ r.phase = "POST_PUMP" ->
         {Advanced([r EXCEPT !.phase = "RUNNING"], NoRec)}
           \cup {Advanced(NewRec, f) : f \in Finished(r)}
    [] ~turned /\ r.phase = "POST_PUMP" ->
         {Advanced(r, NoRec)} \cup {Advanced(f, f) : f \in Finished(r)}

RecorderUpdates(r, turned, weighed) ==
  UNION {Advances(q, turned) : q \in Readings(r, weighed)}
-----------------------------------------------------------------------------
(* The predictor, with the countdown only while there is one to hear.      *)
FreshAlert == [target |-> 0, fired |-> FALSE, have |-> FALSE, flow |-> FALSE,
               level |-> "OFF", remaining |-> 0]

Projected(r, flow) == r.yield + (IF flow THEN Overshoot ELSE 0)

(* TargetAlert::update; flow: the estimator has a valid flow.              *)
AlertUpdated(a, r, flow) ==
  LET running == r.phase = "RUNNING"
      have == a.have \/ (running /\ HasPour(r))
      valid == have /\ flow
      enabled == a.target > 0 /\ running /\ have
      fired == a.fired \/ (enabled /\ Projected(r, valid) >= a.target)
      left == a.target - Projected(r, valid)
      level == CASE enabled /\ fired -> "STOP_NOW"
                 [] enabled /\ ~fired /\ valid /\ left \in 1 .. ApproachWindow -> "APPROACHING"
                 [] OTHER -> "OFF"
  IN [a EXCEPT !.have = have, !.flow = valid, !.fired = fired, !.level = level,
               !.remaining = IF level = "APPROACHING" THEN left ELSE 0]

(* _runTargetAlert: a record new to it (_alertShotBeginMs), one without    *)
(* its target yet, starts the predictor afresh with the coefficients of    *)
(* now, and carries them as its own.  edge: stopNowEdge.                   *)
RunAlert(old, r, flow) ==
  LET new == r.phase = "RUNNING" /\ r.target = NoSnapshot
      a == IF new THEN [FreshAlert EXCEPT !.target = coeffs] ELSE old
      b == AlertUpdated(a, r, flow)
  IN [alert |-> b, rec |-> IF new THEN [r EXCEPT !.target = coeffs] ELSE r,
      edge |-> b.fired /\ ~a.fired]
-----------------------------------------------------------------------------
(* The sounds.  Time since the last beep only matters in a countdown.      *)
NoCue == [level |-> "OFF", flow |-> FALSE, silenced |-> FALSE, bucket |-> 0,
          sinceBeep |-> 0, tone |-> "none"]

TargetSilence(c) == [c EXCEPT !.tone = "none"]

Bucket(a) == IF a.remaining > 5 THEN 5 ELSE a.remaining
Raised(last, b) == IF b > last + 1 THEN b + 1 ELSE last

Countdown(c, a) ==
  LET b == Bucket(a)
      due == c.sinceBeep >= BeepMax \/ (c.sinceBeep >= BeepMin /\ b < c.bucket)
      kept == [c EXCEPT !.bucket = Raised(IF due THEN b ELSE @, b)]
  IN CASE c.level = "OFF" -> [c EXCEPT !.bucket = b, !.sinceBeep = 0]
       [] c.level # "OFF" /\ due /\ ~c.silenced -> [kept EXCEPT !.tone = "beep", !.sinceBeep = 0]
       [] OTHER -> kept

(* driveAlert; edge: STOP_NOW fired in this update.                        *)
DriveAlert(c, a, edge) ==
  LET driven ==
    CASE a.level = "STOP_NOW" ->
           [c EXCEPT !.tone = IF edge /\ ~c.silenced THEN "cut" ELSE @,
                     !.bucket = 0, !.sinceBeep = 0]
      [] a.level = "APPROACHING" -> Countdown(c, a)
      [] a.level = "OFF" ->
           [(IF c.level = "OFF" THEN c ELSE TargetSilence(c)) EXCEPT !.bucket = 0, !.sinceBeep = 0]
  IN [driven EXCEPT !.level = a.level, !.flow = a.flow]

(* A tick later: a beep is over when the next can come, and the cut tone   *)
(* at some time.                                                           *)
Later(c, late) ==
  [c EXCEPT !.tone = IF late THEN "none" ELSE @,
            !.sinceBeep = IF late /\ c.level = "APPROACHING" /\ @ < BeepMax THEN @ + 1 ELSE @]
-----------------------------------------------------------------------------
(* The picture: modelFor and what the views draw of it.                    *)
EffectiveShot(acc, load) == IF load # NoLastShot THEN <<"loaded", load>> ELSE <<"accepted", acc>>
HasEffectiveShot == loaded # NoLastShot \/ accepted # NoLastShot
ResolveReplayCoeffs(shot) == IF shot = NoSnapshot THEN user ELSE shot

CutState(r, a) == a.fired /\ CurrentInPumpWindow(r)

LiveState(r) ==
  CASE r.phase = "DONE" /\ r.real -> "FinishedRealShot"
    [] CurrentInPumpWindow(r) /\ r.meaningful -> "Pouring"
    [] OTHER -> "Ready"

(* gaugeActive; a yield is current only in the pump window                 *)
(* (currentYieldCg).                                                       *)
GaugeActive(r, on) == LiveState(r) # "Ready" /\ CurrentInPumpWindow(r) /\ on /\ HasPour(r)

EffectiveTarget(v, r) == IF v = "Replay" THEN ResolveReplayCoeffs(r.target) ELSE user

(* The target band: a flow meter while there is no target, else progress.  *)
TargetBand(v, r, c, on, flowBand) ==
  LET target == EffectiveTarget(v, r)
      forced == v = "Replay" /\ flowBand
      pouring == forced \/ r.phase = "RUNNING" \/ LiveState(r) = "Pouring"
  IN CASE (forced \/ target = 0) /\ pouring -> <<"flow", c.flow, r.phase = "RUNNING">>
       [] ~forced /\ target = 0 /\ ~pouring -> <<"off">>
       [] OTHER -> <<"target", target, IF GaugeActive(r, on) THEN r.yield ELSE 0,
                     r.phase = "RUNNING", LiveState(r) = "FinishedRealShot">>

WeightGauge(r, on) ==
  CASE GaugeActive(r, on) -> <<"yield", r.yield>>
    [] ~GaugeActive(r, on) /\ on -> <<"raw">>
    [] ~GaugeActive(r, on) /\ ~on -> <<"no SCALE">>

StorageWarning(ready, stored) ==
  IF ~ready THEN "NOT RECORDING" ELSE IF stored THEN "" ELSE "SHOT NOT SAVED"

LiveBody(v, r, c, on, flowBand) ==
  <<LiveState(r), WeightGauge(r, on), TargetBand(v, r, c, on, flowBand),
    r.phase = "RUNNING">>

LiveViewPicture(v, r, a, c, on, flowBand) ==
  <<CutState(r, a), LiveBody(v, r, c, on, flowBand)>>

(* A shot's summary names the target it was recorded with, if any.         *)
SummaryPanel(shot) == <<shot, IF shot[2] \in {0, NoSnapshot} THEN "no target" ELSE <<shot[2]>> >>
LastShotPicture(shot) == IF shot[2] = NoLastShot THEN <<"No recent shot">> ELSE SummaryPanel(shot)
LastShotChartPicture(shot) == IF shot[2] = NoLastShot THEN <<"No recent shot">> ELSE <<"chart", shot>>

ScreenPicture(v, halted, flowBand, r, a, c, shot, on) ==
  CASE v = "Live" -> LiveViewPicture(v, r, a, c, on, FALSE)
    [] v = "Replay" -> <<halted, LiveViewPicture(v, r, a, c, on, flowBand)>>
    [] v = "LastShot" -> LastShotPicture(shot)
    [] v = "LastShotChart" -> LastShotChartPicture(shot)
    [] v = "Gone" -> <<v>>

Picture ==
  <<liveView, IF liveView = "Gone" THEN "" ELSE StorageWarning(mounted, saved),
    ScreenPicture(liveView, paused, band, rec, alert, cue, EffectiveShot(accepted, loaded), scale)>>

(* The host draws at the end of the pass when the screen asked for it.     *)
Drawn(draw, failed) ==
  /\ panel' = IF draw THEN Picture' ELSE panel
  /\ loadFailed' = (~draw /\ (loadFailed \/ failed))
-----------------------------------------------------------------------------
LiveInit ==
  /\ liveView = "Gone" /\ paused = FALSE /\ band = FALSE
  /\ user \in UserTargets /\ coeffs = 0   \* of flash, and before the first entry
  /\ rec = NoRec /\ alert = FreshAlert /\ cue = NoCue
  /\ accepted = NoLastShot /\ loaded = NoLastShot /\ saved = TRUE
  /\ scale = FALSE /\ mounted = TRUE
  /\ loadFailed = FALSE /\ panel = Picture

(* resetInFlightAndNotify, as start, stop and exit need it.                *)
ResetInFlight == rec' = NoRec /\ alert' = FreshAlert

OnEnter ==
  /\ liveView = "Gone" /\ liveView' = "Live"
  /\ coeffs' = user /\ rec' = NoRec
  /\ cue' = [NoCue EXCEPT !.tone = cue.tone] /\ paused' = FALSE /\ band' = FALSE
  /\ scale' = FALSE /\ mounted' \in BOOLEAN
  /\ UNCHANGED <<user, alert, accepted, loaded, saved>>
  /\ Drawn(TRUE, FALSE)

(* B_SHORT outside a replay, B_LONG's way to another screen included: to   *)
(* this screen both are onExit, which lets go of the scale.                *)
OnExitLive ==
  /\ liveView # "Gone" /\ liveView' = "Gone"
  /\ ResetInFlight /\ cue' = NoCue /\ paused' = FALSE /\ band' = FALSE
  /\ scale' = FALSE
  /\ UNCHANGED <<user, coeffs, accepted, loaded, saved, mounted>>
  /\ Drawn(TRUE, FALSE)

(* SetTargetScreen, while this screen is gone.                             *)
SetTarget ==
  /\ liveView = "Gone" /\ user' \in UserTargets
  /\ UNCHANGED <<liveView, paused, band, coeffs, rec, alert, cue, accepted, loaded,
                 saved, scale, mounted, loadFailed, panel>>

(* A_SHORT: in the cut state it hushes the sound and nothing else.         *)
Hush ==
  /\ liveView \notin {"Gone", "Replay"} /\ CutState(rec, alert)
  /\ cue' = [TargetSilence(cue) EXCEPT !.silenced = TRUE]
  /\ UNCHANGED <<liveView, paused, band, user, coeffs, rec, alert, accepted, loaded,
                 saved, scale, mounted, loadFailed, panel>>

CycleView ==
  /\ liveView \notin {"Gone", "Replay"} /\ ~CutState(rec, alert)
  /\ liveView' = CASE liveView = "Live" -> "LastShot"
                   [] liveView = "LastShot" -> IF HasEffectiveShot THEN "LastShotChart" ELSE "Live"
                   [] liveView = "LastShotChart" -> "Live"
  /\ UNCHANGED <<paused, band, user, coeffs, rec, alert, cue, accepted, loaded, saved, scale, mounted>>
  /\ Drawn(TRUE, FALSE)

(* A_LONG in the live view, with a finished record on it.                  *)
ClearFinishedShot ==
  /\ liveView = "Live" /\ rec.phase = "DONE"
  /\ rec' = NoRec /\ cue' = NoCue
  /\ UNCHANGED <<liveView, paused, band, user, coeffs, alert, accepted, loaded, saved,
                 scale, mounted>>
  /\ Drawn(TRUE, FALSE)

(* A_LONG in a view of a shot; no frame of the replay is there yet.        *)
StartReplay ==
  /\ liveView \in {"LastShot", "LastShotChart"} /\ HasEffectiveShot
  /\ LET shot == EffectiveShot(accepted, loaded)[2] IN coeffs' = ResolveReplayCoeffs(shot)
  /\ ResetInFlight /\ cue' = NoCue /\ scale' = FALSE
  /\ liveView' = "Replay" /\ paused' = FALSE /\ band' = FALSE
  /\ UNCHANGED <<user, accepted, loaded, saved, mounted>>
  /\ Drawn(TRUE, FALSE)

X_StopReplay ==
  /\ liveView = "Replay" /\ liveView' = "LastShot"
  /\ ResetInFlight /\ UNCHANGED coeffs /\ cue' = NoCue
  /\ scale' \in BOOLEAN /\ paused' = FALSE /\ band' = FALSE
  /\ UNCHANGED <<user, accepted, loaded, saved, mounted>>
  /\ Drawn(TRUE, FALSE)

(* B_SHORT in a replay, or its end; the ticks of the replay have followed  *)
(* the live scale.                                                         *)
StopReplay ==
  /\ liveView = "Replay" /\ liveView' = "LastShot"
  /\ ResetInFlight /\ coeffs' = user /\ cue' = NoCue
  /\ scale' \in BOOLEAN /\ paused' = FALSE /\ band' = FALSE
  /\ UNCHANGED <<user, accepted, loaded, saved, mounted>>
  /\ Drawn(TRUE, FALSE)

X_TogglePause ==
  /\ liveView = "Replay" /\ paused' = ~paused
  /\ cue' = [cue EXCEPT !.sinceBeep = 0]
  /\ UNCHANGED <<liveView, band, user, coeffs, rec, alert, accepted, loaded, saved,
                 scale, mounted>>
  /\ Drawn(TRUE, FALSE)

(* A_SHORT in a replay; the countdown's clock starts again on resuming.    *)
TogglePause ==
  /\ liveView = "Replay" /\ paused' = ~paused
  /\ cue' = IF paused THEN [cue EXCEPT !.sinceBeep = 0] ELSE TargetSilence(cue)
  /\ UNCHANGED <<liveView, band, user, coeffs, rec, alert, accepted, loaded, saved,
                 scale, mounted>>
  /\ Drawn(TRUE, FALSE)

(* A_LONG in a replay.                                                     *)
ToggleBand ==
  /\ liveView = "Replay" /\ band' = ~band
  /\ UNCHANGED <<liveView, paused, user, coeffs, rec, alert, cue, accepted, loaded,
                 saved, scale, mounted>>
  /\ Drawn(TRUE, FALSE)

(* Where time and the estimator make a difference.                         *)
Lates == IF cue.tone # "none" \/ cue.level = "APPROACHING" THEN BOOLEAN ELSE {FALSE}
Flows == IF alert.have \/ CurrentInPumpWindow(rec) THEN BOOLEAN ELSE {FALSE}

(* A pour that becomes meaningful in an update is heard again.             *)
PourStarts(before, after) == ~before.meaningful /\ after.meaningful
Heard(before, after) ==
  IF PourStarts(before, after) THEN [cue EXCEPT !.silenced = FALSE] ELSE cue

(* One frame of a replay: the recorder and the predictor see the stored    *)
(* shot's pump and weights; nothing is graded or saved.                    *)
ReplayFrame ==
  /\ liveView = "Replay" /\ ~paused /\ scale' = TRUE
  /\ \E turned \in BOOLEAN, late \in Lates, flow \in Flows :
       \E up \in RecorderUpdates(rec, turned, TRUE) :
         LET run == RunAlert(alert, up.rec, flow)
         IN /\ rec' = run.rec /\ alert' = run.alert
            /\ cue' = DriveAlert(Later(Heard(rec, up.rec), late), run.alert, run.edge)
  /\ UNCHANGED <<liveView, paused, band, user, coeffs, accepted, loaded, saved, mounted>>
  /\ Drawn(TRUE, FALSE)
-----------------------------------------------------------------------------
(* A live tick, in the order of ExtractionScreen::tick: the scale, a       *)
(* queued load, the recorder, the verdict on a finished record, the        *)
(* predictor; then what the screen makes of it.                            *)
Loads == [kind : {"none", "fails"}, shot : {NoLastShot}] \cup [kind : {"reads"}, shot : Stored]

AfterLoad(load) == IF load.kind = "none" THEN loaded ELSE load.shot

X_FrameNeeded(before, r, finished, edge, load, scaleChanged) ==
  CurrentInPumpWindow(r) \/ before.phase # r.phase \/ finished \/ edge \/ load.kind = "reads"

FrameNeeded(before, r, finished, edge, load, scaleChanged) ==
  \/ CurrentInPumpWindow(r) \/ before.phase # r.phase \/ finished
  \/ edge \/ load.kind = "reads" \/ scaleChanged

LiveTick(turned, late, flow, load) ==
  \E up \in RecorderUpdates(rec, turned, scale') :
    LET finished == up.finished # NoRec
        accepts == finished /\ up.finished.real
        kept == IF finished /\ ~accepts /\ up.rec.phase = "DONE" THEN NoRec ELSE up.rec
        run == RunAlert(alert, kept, flow)
    IN /\ rec' = run.rec /\ alert' = run.alert
       /\ accepted' = IF accepts THEN up.finished.target ELSE accepted
       /\ loaded' = IF accepts THEN NoLastShot ELSE AfterLoad(load)
       /\ saved' \in IF ~accepts THEN {saved} ELSE IF mounted THEN BOOLEAN ELSE {FALSE}
       /\ liveView' = IF PourStarts(rec, kept) THEN "Live" ELSE liveView
       /\ cue' = DriveAlert(Later(Heard(rec, kept), late), run.alert, run.edge)
       /\ Drawn(saved' # saved
                  \/ FrameNeeded(rec, run.rec, finished, run.edge, load, scale' # scale),
                load.kind = "fails")

Tick ==
  /\ liveView \in {"Live", "LastShot", "LastShotChart"} /\ scale' \in BOOLEAN
  /\ UNCHANGED <<paused, band, user, coeffs, mounted>>
  /\ \E turned \in BOOLEAN, late \in Lates, flow \in Flows, load \in Loads :
       LiveTick(turned, late, flow, load)

LiveEvents ==
  \/ OnEnter \/ OnExitLive \/ SetTarget \/ Hush \/ CycleView \/ ClearFinishedShot
  \/ StartReplay \/ StopReplay \/ TogglePause \/ ToggleBand

Live == LiveEvents \/ ReplayFrame \/ Tick
LiveSpec == LiveInit /\ [][Live]_liveVars
-----------------------------------------------------------------------------
(* A live pull is watched, and recorded, with the target its user set,     *)
(* whatever was replayed before it (startReplay overwrites the             *)
(* controller's coefficients, stopReplay and onEnter restore them).        *)
LivePullHasUserTarget ==
  liveView \in {"Live", "LastShot", "LastShotChart"} =>
    /\ coeffs = user
    /\ rec.phase = "RUNNING" => alert.target = user /\ rec.target = user

(* A beep or the cut tone sounds only while there is an alert to hear: not *)
(* after it ended, was hushed or cleared, not while a replay is paused,    *)
(* and not after the screen was left (driveAlert and the targetSilence     *)
(* calls around it).                                                       *)
ToneMeansAlert ==
  cue.tone # "none" =>
    /\ liveView # "Gone" /\ ~paused /\ ~cue.silenced
    /\ rec.phase = "RUNNING" /\ alert.level # "OFF"
    /\ cue.tone = "cut" => alert.fired

(* After every pass the panel shows the present state of what it displays; *)
(* only a stored shot that could not be read may leave the shot before it  *)
(* on the panel (modelFor, frameNeeded, the requestDraw calls).            *)
PanelShowsPresent ==
  panel = Picture \/ (loadFailed /\ liveView \in {"LastShot", "LastShotChart"})

(* What the comments of the screen promise: of a finished shot the gauge   *)
(* keeps the yield and the bar stays solid.  The recorder has no current   *)
(* yield any more once the pump window is over (fillLiveModel, 640-641;    *)
(* drawTargetBand, 1071-1072; currentYieldCg).                             *)
FinishedShotKeepsYield ==
  (liveView = "Live" /\ LiveState(rec) = "FinishedRealShot" /\ rec.meaningful /\ scale) =>
    WeightGauge(rec, scale) = <<"yield", rec.yield>>
=============================================================================
