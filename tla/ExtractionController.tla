------------------------- MODULE ExtractionController -------------------------
(***************************************************************************)
(* The coordination engine of the extraction app: the main task's live     *)
(* tick, replay, screen entry and exit, the graduation and saving of real  *)
(* shots, and the HTTP task's POST /loaded.  The SSE task reads this state *)
(* under the same mutex; ExtractionStream.tla adds it.                     *)
(*                                                                         *)
(* A step of the main task is one critical section, one atomic store or    *)
(* one file operation; between two of them the other tasks run.  "pc"      *)
(* names the next one.  liveSeq is compared with one session's last value  *)
(* only, so it is kept as the flag "woken": it has moved since.            *)
(***************************************************************************)
EXTENDS Naturals, ShotLifecycle

CONSTANT
  Bounds           \* of which a behaviour has one: [oldShots, begins, samples,
                   \* posts, failures, drops], the shots earlier boots left in
                   \* the history, the records begun, live and replayed, the
                   \* samples of one record, the POST /loaded requests, the
                   \* loads that fail, and the connections lost

ASSUME ControllerConstants ==
  Bounds \subseteq [oldShots : Nat, begins : Nat, samples : Nat, posts : Nat,
                     failures : Nat, drops : Nat]

VARIABLES
  pc,              \* the main task's next step
  mode,            \* "off", "live" or "replay": the screen, and its replay
  active,          \* _active
  rec,             \* _recorder.current()
  lastFinished,    \* _recorder.lastFinished()
  finishedSeq,     \* _recorder.finishedSeq()
  observedSeq,     \* _lastObservedFinishedSeq
  accepted,        \* _lastAcceptedShot with _lastAcceptedSeq
  attemptedSeq,    \* _lastAttemptedSeq
  savedSeq,        \* _lastSavedSeq
  counter,         \* the shot counter's value, since boot
  loaded,          \* *_loadedShot
  hasLoaded,       \* _hasLoadedShot
  displaySeq,      \* _displayShotSeq
  pendingLoad,     \* _pendingLoadId: a stored shot, or NoShot
  loadId,          \* processPendingLoad()'s local id, while it decodes
  loadedChanged,   \* tick()'s local of that name
  woken,           \* liveSeq() differs from the session's lastSeenLiveSeq
  unheard,         \* history: a load has failed, and taken the shown shot away,
                   \* since the session last began to read
  store,           \* the shots the history holds
  begins,          \* records begun; no begin time is later than that
  posts, failures, \* bounds spent
  bound            \* the bounds of this behaviour

recorderVars == <<rec, lastFinished, finishedSeq, observedSeq>>
shotVars == <<accepted, attemptedSeq, savedSeq, counter, store>>
displayVars == <<loaded, hasLoaded, displaySeq>>
boundVars == <<begins, posts, failures, bound>>
wakeVars == <<woken, unheard>>
loadVars == <<pendingLoad, loadId, loadedChanged>>
controllerVars == <<pc, mode, active, recorderVars, shotVars, displayVars,
                    loadVars, wakeVars, boundVars>>

(* The slot's bytes while a record is being decoded into it.               *)
Torn == [begin |-> 0, n |-> 0, source |-> "torn"]
History == {[begin |-> 0, n |-> k, source |-> "live"] : k \in 1..bound.oldShots}

Pcs == {"idle", "activate", "decode", "update", "bump", "save", "mark",
        "bumpSaved", "reset"}

ControllerInit ==
  /\ pc = "idle" /\ mode = "off" /\ active = FALSE
  /\ rec = Cleared /\ lastFinished = NoShot
  /\ finishedSeq = 0 /\ observedSeq = 0
  /\ accepted = [seq |-> 0, shot |-> NoShot]
  /\ attemptedSeq = 0 /\ savedSeq = 0 /\ counter = 0
  /\ loaded = NoShot /\ hasLoaded = FALSE /\ displaySeq = 0
  /\ pendingLoad = NoShot /\ loadId = NoShot /\ loadedChanged = FALSE
  /\ woken = FALSE /\ unheard = FALSE
  /\ bound \in Bounds
  /\ store = History
  /\ begins = 0 /\ posts = 0 /\ failures = 0

------------------------------------------------------------------------------
(* Reads shared by the tasks, all under the mutex.                         *)

HasEffectiveLastShot == hasLoaded \/ accepted.seq # 0
EffectiveLastShot == IF hasLoaded THEN loaded ELSE accepted.shot

(* ShotStore::newestId                                                     *)
Newest(shots) ==
  CHOOSE s \in shots : \A t \in shots :
    t.begin < s.begin \/ (t.begin = s.begin /\ t.n <= s.n)

------------------------------------------------------------------------------
(* Sessions of the screen.                                                 *)

(* onEnter, beginSession: the recorder is cleared and the finalize cursor  *)
(* caught up before active is published.                                   *)
BeginSession ==
  /\ pc = "idle" /\ mode = "off"
  /\ rec' = Cleared /\ observedSeq' = finishedSeq
  /\ pc' = "activate"
  /\ UNCHANGED <<mode, active, lastFinished, finishedSeq, shotVars,
                 displayVars, loadVars, wakeVars, boundVars>>

(* active, the wake-up, and onEnter's request to show the newest stored    *)
(* shot when nothing is shown.                                             *)
Activate ==
  /\ pc = "activate"
  /\ active' = TRUE /\ mode' = "live"
  /\ IF HasEffectiveLastShot \/ store = {}
     THEN pendingLoad' = pendingLoad
     ELSE pendingLoad' = Newest(store)
  /\ pc' = "bump"
  /\ UNCHANGED <<recorderVars, shotVars, displayVars, loadId, loadedChanged,
                 wakeVars, boundVars>>

(* onExit: inactive first; the recorder is reset after the sensors are     *)
(* down.                                                                   *)
Deactivate ==
  /\ pc = "idle" /\ mode # "off"
  /\ active' = FALSE /\ mode' = "off"
  /\ pc' = "reset"
  /\ UNCHANGED <<recorderVars, shotVars, displayVars, loadVars, wakeVars,
                 boundVars>>

(* Mutant of ResetInFlight: the finalize cursor is not caught up.          *)
ResetInFlight_KeepsCursor ==
  /\ rec' = Cleared /\ observedSeq' = observedSeq
  /\ pc' = "bump"
  /\ UNCHANGED <<active, lastFinished, finishedSeq, shotVars, displayVars,
                 loadVars, wakeVars, boundVars>>

(* resetInFlightAndNotify: the critical section; the wake-up follows.      *)
ResetInFlight ==
  /\ rec' = Cleared /\ observedSeq' = finishedSeq
  /\ pc' = "bump"
  /\ UNCHANGED <<active, lastFinished, finishedSeq, shotVars, displayVars,
                 loadVars, wakeVars, boundVars>>

ExitReset == pc = "reset" /\ ResetInFlight /\ UNCHANGED mode

StartReplay ==
  /\ pc = "idle" /\ mode = "live" /\ HasEffectiveLastShot
  /\ mode' = "replay"
  /\ ResetInFlight

StopReplay ==
  /\ pc = "idle" /\ mode = "replay"
  /\ mode' = "live"
  /\ ResetInFlight

------------------------------------------------------------------------------
(* tick()                                                                  *)

(* Mutant of Tick: the slot stays published while it is overwritten.       *)
Tick_KeepsPublished ==
  /\ pc = "idle" /\ mode = "live"
  /\ pendingLoad' = NoShot /\ loadedChanged' = FALSE
  /\ hasLoaded' = hasLoaded
  /\ \/ /\ pendingLoad = NoShot \/ loaded = NoShot
        /\ pc' = "update"
        /\ UNCHANGED <<loadId, loaded>>
     \/ /\ pendingLoad # NoShot
        /\ pc' = "decode"
        /\ loadId' = pendingLoad /\ loaded' = Torn
  /\ UNCHANGED <<mode, active, recorderVars, shotVars, displaySeq, wakeVars,
                 boundVars>>

(* processPendingLoad takes the queued id.  With no heap for the record    *)
(* the request is dropped; otherwise the slot is unpublished before it is  *)
(* overwritten.                                                            *)
Tick ==
  /\ pc = "idle" /\ mode = "live"
  /\ pendingLoad' = NoShot /\ loadedChanged' = FALSE
  /\ \/ /\ pendingLoad = NoShot \/ loaded = NoShot
        /\ pc' = "update"
        /\ UNCHANGED <<loadId, loaded, hasLoaded>>
     \/ /\ pendingLoad # NoShot
        /\ pc' = "decode"
        /\ loadId' = pendingLoad /\ loaded' = Torn /\ hasLoaded' = FALSE
  /\ UNCHANGED <<mode, active, recorderVars, shotVars, displaySeq, wakeVars,
                 boundVars>>

(* clearLoadedShot                                                         *)
ClearLoadedShot ==
  /\ loaded' = NoShot /\ hasLoaded' = FALSE
  /\ displaySeq' = displaySeq + 1

(* ShotStore::load and the publication of its result.  It may fail:        *)
(* retention has removed the record since the request was checked, a read  *)
(* fails, or a record whose header is intact does not decode.              *)
Decode ==
  /\ pc = "decode"
  /\ \/ /\ loadId \in store
        /\ loaded' = loadId /\ hasLoaded' = TRUE
        /\ displaySeq' = displaySeq + 1
        /\ loadedChanged' = TRUE
        /\ UNCHANGED <<unheard, failures>>
     \/ /\ failures < bound.failures
        /\ failures' = failures + 1
        /\ ClearLoadedShot
        /\ unheard' = TRUE
        /\ UNCHANGED loadedChanged
  /\ loadId' = NoShot
  /\ pc' = "update"
  /\ UNCHANGED <<mode, active, recorderVars, shotVars, pendingLoad, woken,
                 begins, posts, bound>>

(* What a recorder update leaves behind besides the record itself.         *)
NextOf(source, begin) ==
  {next \in Updates(rec, begin, source, bound.samples) :
     next.rec.begin \in {0, rec.begin} \/ begins < bound.begins}

RecordFinish(next) ==
  /\ begins' = IF next.rec.begin \in {0, rec.begin} THEN begins ELSE begins + 1
  /\ IF next.finished = NoShot
     THEN UNCHANGED <<lastFinished, finishedSeq>>
     ELSE lastFinished' = next.finished /\ finishedSeq' = finishedSeq + 1

(* observeFinishedExtraction: every finalized record is graded once; "real"*)
(* is isLikelyRealShot's verdict, which no record without samples gets.    *)
Graduates(real) == finishedSeq' # observedSeq /\ real
Rejects(real) == finishedSeq' # observedSeq /\ ~real

Observe(real) ==
  /\ real => finishedSeq' # observedSeq /\ lastFinished'.n > 0
  /\ observedSeq' = finishedSeq'
  /\ accepted' = IF Graduates(real)
                 THEN [seq |-> finishedSeq', shot |-> lastFinished']
                 ELSE accepted

(* Mutant of FrameNeeded: a shot loaded for display wakes nobody.          *)
FrameNeeded_IgnoresLoad(fresh) ==
  \/ InPumpWindow(rec'.phase) \/ rec'.phase # rec.phase \/ rec'.n # rec.n
  \/ finishedSeq' # finishedSeq
  \/ fresh

FrameNeeded(fresh) ==
  \/ InPumpWindow(rec'.phase) \/ rec'.phase # rec.phase \/ rec'.n # rec.n
  \/ finishedSeq' # finishedSeq
  \/ fresh \/ loadedChanged

(* What tick() does after the critical section.                            *)
AfterUpdate(wake) ==
  IF wake THEN "bump"
  ELSE IF accepted'.seq # attemptedSeq THEN "save" ELSE "idle"

(* The critical section of tick().  A rejected record is cleared, unless   *)
(* the next one has begun; a real shot supersedes a loaded one.  "fresh":  *)
(* a new scale reading or scale state.                                     *)
Update ==
  /\ pc = "update"
  /\ \E next \in NextOf("live", begins + 1), real, fresh \in BOOLEAN :
       /\ RecordFinish(next)
       /\ Observe(real)
       /\ rec' = IF Rejects(real) /\ next.rec.phase = "DONE" THEN Cleared
                 ELSE next.rec
       /\ IF Graduates(real) THEN ClearLoadedShot ELSE UNCHANGED displayVars
       /\ pc' = AfterUpdate(FrameNeeded(fresh))
  /\ loadedChanged' = FALSE
  /\ UNCHANGED <<mode, active, attemptedSeq, savedSeq, counter, store,
                 pendingLoad, loadId, wakeVars, posts, failures, bound>>

(* The wake-up every change ends with.                                     *)
Bump ==
  /\ pc = "bump"
  /\ woken' = TRUE /\ unheard' = unheard
  /\ pc' = IF accepted.seq # attemptedSeq THEN "save" ELSE "idle"
  /\ UNCHANGED <<mode, active, recorderVars, shotVars, displayVars, loadVars,
                 boundVars>>

(* Mutant of Save: the result of the write is not looked at.               *)
Save_Unverified ==
  /\ pc = "save"
  /\ counter' = counter + 1
  /\ attemptedSeq' = accepted.seq
  /\ store' \in {store, store \cup {accepted.shot}}
  /\ pc' = "mark"
  /\ UNCHANGED <<mode, active, recorderVars, accepted, savedSeq, displayVars,
                 loadVars, wakeVars, boundVars>>

(* Mutant of Save: only a successful attempt is noted.                     *)
Save_AttemptIfSaved ==
  /\ pc = "save"
  /\ counter' = counter + 1
  /\ \/ /\ store' = store \cup {accepted.shot} /\ pc' = "mark"
        /\ attemptedSeq' = accepted.seq
     \/ /\ store' = store /\ pc' = "bumpSaved"
        /\ attemptedSeq' = attemptedSeq
  /\ UNCHANGED <<mode, active, recorderVars, accepted, savedSeq, displayVars,
                 loadVars, wakeVars, boundVars>>

(* The shot counter, and persistAcceptedShot's single attempt: the record  *)
(* is on flash before savedSeq says so, and a failed save wakes too.       *)
Save ==
  /\ pc = "save"
  /\ counter' = counter + 1
  /\ attemptedSeq' = accepted.seq
  /\ \/ store' = store \cup {accepted.shot} /\ pc' = "mark"
     \/ store' = store /\ pc' = "bumpSaved"
  /\ UNCHANGED <<mode, active, recorderVars, accepted, savedSeq, displayVars,
                 loadVars, wakeVars, boundVars>>

MarkSaved ==
  /\ pc = "mark"
  /\ savedSeq' = accepted.seq
  /\ pc' = "bumpSaved"
  /\ UNCHANGED <<mode, active, recorderVars, accepted, attemptedSeq, counter,
                 store, displayVars, loadVars, wakeVars, boundVars>>

(* Mutant of BumpSaved: the end of a save attempt wakes nobody.            *)
BumpSaved_Silent ==
  /\ pc = "bumpSaved"
  /\ pc' = "idle"
  /\ UNCHANGED <<mode, active, recorderVars, shotVars, displayVars, loadVars,
                 wakeVars, boundVars>>

BumpSaved ==
  /\ pc = "bumpSaved"
  /\ woken' = TRUE /\ unheard' = unheard
  /\ pc' = "idle"
  /\ UNCHANGED <<mode, active, recorderVars, shotVars, displayVars, loadVars,
                 boundVars>>

------------------------------------------------------------------------------
(* The other calls of the main task.                                       *)

(* contextAction in DONE; the other phases change nothing here.            *)
ClearFinished ==
  /\ pc = "idle" /\ mode = "live" /\ rec.phase = "DONE"
  /\ rec' = Cleared
  /\ pc' = "bump"
  /\ UNCHANGED <<mode, active, lastFinished, finishedSeq, observedSeq,
                 shotVars, displayVars, loadVars, wakeVars, boundVars>>

(* replayTick: the recorder moves, nothing is graded or saved.  Its clock  *)
(* is the stored shot's begin time plus the time since the replay started: *)
(* it moves on within a replay, and another replay of the shot may begin a *)
(* record where an earlier record began.                                   *)
ReplayTick ==
  /\ pc = "idle" /\ mode = "replay"
  /\ \E begin \in rec.begin + 1 .. begins + 1 :
       \E next \in NextOf("replay", begin) :
         /\ RecordFinish(next)
         /\ rec' = next.rec
  /\ pc' = "bump"
  /\ UNCHANGED <<mode, active, observedSeq, shotVars, displayVars, loadVars,
                 wakeVars, posts, failures, bound>>

------------------------------------------------------------------------------
(* POST /loaded, in the HTTP task: a shot whose header reads well.         *)
SetLoaded ==
  /\ posts < bound.posts
  /\ posts' = posts + 1
  /\ pendingLoad' \in store
  /\ UNCHANGED <<pc, mode, active, recorderVars, shotVars, displayVars,
                 loadId, loadedChanged, wakeVars, begins,
                 failures, bound>>

TickSteps ==
  Tick \/ Decode \/ Update \/ Bump \/ Save \/ MarkSaved \/ BumpSaved

MainNext ==
  \/ BeginSession \/ Activate \/ Deactivate \/ ExitReset
  \/ StartReplay \/ ReplayTick \/ StopReplay
  \/ ClearFinished \/ TickSteps

ControllerNext == MainNext \/ SetLoaded

------------------------------------------------------------------------------
AnyShot == [begin : 0..bound.begins, n : 0..bound.samples + bound.oldShots,
            source : Sources \cup {"none", "torn"}]

ControllerTypeOK ==
  /\ pc \in Pcs /\ mode \in {"off", "live", "replay"}
  /\ {active, hasLoaded, loadedChanged, woken, unheard} \subseteq BOOLEAN
  /\ rec \in [phase : Phases, begin : 0..bound.begins, n : 0..bound.samples,
              source : Sources]
  /\ {lastFinished, loaded, loadId, pendingLoad, accepted.shot}
       \subseteq AnyShot
  /\ {finishedSeq, observedSeq, accepted.seq, attemptedSeq, savedSeq, counter,
      displaySeq, posts, failures} \subseteq Nat
  /\ accepted = [seq |-> accepted.seq, shot |-> accepted.shot]
  /\ store \subseteq AnyShot
  /\ begins \in 0..bound.begins

==============================================================================
