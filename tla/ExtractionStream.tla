--------------------------- MODULE ExtractionStream ---------------------------
(***************************************************************************)
(* One browser's view of the device: ExtractionStream::_runSession in the  *)
(* SSE task reads the controller of ExtractionController.tla and writes    *)
(* packets; stream.js applies them to the page.                            *)
(*                                                                         *)
(* A session takes its status copy, and each full record copy, in critical *)
(* sections of their own, so the controller may move between any two of    *)
(* them.  A packet is applied by the page in the step that writes it: the  *)
(* page answers nothing on the stream, and what it would do later depends  *)
(* on the order of the packets alone.  Heartbeats, and the measurements    *)
(* the rate limit applies to, are left out.                                *)
(***************************************************************************)
EXTENDS ExtractionController

VARIABLES
  spc,      \* the session's next step, "off" without a connection
  session,  \* what this connection has received: the Session struct
  snap,     \* the session's ExtractionStatusSnapshot
  page,     \* stream.js: state, inflight, lastRecord
  drops,    \* bound spent
  retaken   \* history: a record has begun at the begin time of another, which
            \* the session still tracks

streamVars == <<spc, session, snap, page, drops>>
vars == <<controllerVars, streamVars, retaken>>

None == [phase |-> "none"]

(* finalSeq is the header of the session's latest FINAL_RECORD; only the   *)
(* properties read it.  "hello" tells the initial packets from the loop.   *)
FreshSession ==
  [hello |-> TRUE, display |-> 0, begin |-> 0, phase |-> "IDLE",
   init |-> FALSE, idx |-> 0, sent |-> None, finalSeq |-> 0]

NoStatus ==
  [active |-> FALSE, saved |-> 0, phase |-> "IDLE", begin |-> 0, n |-> 0,
   accepted |-> 0, has |-> FALSE, display |-> 0]

FreshPage ==
  [state |-> None, inflight |-> None, card |-> NoShot]

StreamInit ==
  /\ spc = "off" /\ session = FreshSession /\ snap = NoStatus
  /\ page = FreshPage /\ drops = 0 /\ retaken = FALSE

Init == ControllerInit /\ StreamInit

------------------------------------------------------------------------------
(* stream.js                                                               *)

(* The part of a STATE packet the page keeps.                              *)
StateOf(status) ==
  [phase |-> status.phase, active |-> status.active, saved |-> status.saved,
   accepted |-> status.accepted, has |-> status.has]

Pumping(state) == state # None /\ state.active /\ InPumpWindow(state.phase)

(* An abandoned in-flight model is dropped when the pump window closes to  *)
(* IDLE with no shot accepted; a card the device no longer has is dropped. *)
PageOnState(pg, state) ==
  LET abandoned == /\ pg.inflight # None /\ Pumping(pg.state)
                   /\ state.phase = "IDLE"
                   /\ state.accepted = pg.state.accepted
  IN [state |-> state,
      inflight |-> IF abandoned THEN None ELSE pg.inflight,
      card |-> IF state.has THEN pg.card ELSE NoShot]

(* spliced: samples of two records were appended to one curve.             *)
PageOnCurrent(pg, record, seq) ==
  [pg EXCEPT !.inflight = [phase |-> record.phase, begin |-> record.begin,
                           n |-> record.n, seq |-> seq, spliced |-> FALSE]]

PageOnFinal(pg, shot, seq) ==
  [pg EXCEPT !.card = shot,
             !.inflight = IF @ # None /\ @.seq # seq THEN None ELSE @]

PageAccepts(pg, seq, first) ==
  pg.inflight # None /\ pg.inflight.seq = seq /\ pg.inflight.n = first

PageOnBatch(pg, record) ==
  [pg EXCEPT !.inflight.n = record.n,
             !.inflight.spliced = @ \/ pg.inflight.begin # record.begin]

PageOnResync(pg) == [pg EXCEPT !.inflight = None]

------------------------------------------------------------------------------
(* The session.  Every step but the first may find the connection gone.  A *)
(* page that is sent its record anew, or connects anew, is past what       *)
(* "retaken" and "unheard" stand for.                                      *)

Connect ==
  /\ spc = "off"
  /\ session' = FreshSession
  /\ woken' = FALSE /\ unheard' = FALSE /\ retaken' = FALSE
  /\ spc' = "atomics"
  /\ UNCHANGED <<pc, mode, active, recorderVars, shotVars, displayVars,
                 loadVars, boundVars, snap, page, drops>>

(* Cursors are never reused by a later connection.                         *)
EndSession ==
  spc' = "off" /\ session' = FreshSession /\ snap' = NoStatus /\ retaken' = FALSE

(* A failed write, a closed socket or a stop request ends the session; the *)
(* page keeps its model and reconnects.                                    *)
Drop ==
  /\ spc # "off" /\ drops < bound.drops
  /\ drops' = drops + 1
  /\ EndSession
  /\ UNCHANGED <<controllerVars, page>>

(* The loop waits for liveSeq to move, and notes its value before it reads *)
(* anything else.                                                          *)
Poll ==
  /\ spc = "poll" /\ woken
  /\ woken' = FALSE /\ unheard' = FALSE
  /\ spc' = "atomics"
  /\ UNCHANGED <<pc, mode, active, recorderVars, shotVars, displayVars,
                 loadVars, boundVars, session, snap, page, retaken, drops>>

(* snapshotStatus: two atomics, then the rest under the mutex.             *)
ReadAtomics ==
  /\ spc = "atomics"
  /\ snap' = [snap EXCEPT !.active = active, !.saved = savedSeq]
  /\ spc' = "locked"
  /\ UNCHANGED <<controllerVars, session, page, retaken, drops>>

StatusWith(status) ==
  [status EXCEPT !.phase = rec.phase, !.begin = rec.begin, !.n = rec.n,
                 !.accepted = accepted.seq, !.has = HasEffectiveLastShot,
                 !.display = displaySeq]

(* Mutant of ReadLocked: liveSeq is noted after the copy.                  *)
ReadLocked_NotesLate ==
  /\ spc = "locked"
  /\ snap' = StatusWith(snap)
  /\ woken' = FALSE /\ unheard' = FALSE
  /\ spc' = IF session.hello THEN "state" ELSE "display"
  /\ UNCHANGED <<pc, mode, active, recorderVars, shotVars, displayVars,
                 loadVars, boundVars, session, page, retaken, drops>>

ReadLocked ==
  /\ spc = "locked"
  /\ snap' = StatusWith(snap)
  /\ spc' = IF session.hello THEN "state" ELSE "display"
  /\ UNCHANGED <<controllerVars, session, page, retaken, drops>>

(* The end of a pass: the status copy is not read again.                   *)
EndPass == spc' = "poll" /\ snap' = NoStatus

(* _stateShouldSend, for the fields that bypass the rate limit.            *)
StateShouldSend == session.hello \/ StateOf(snap) # session.sent

SendState ==
  /\ spc = "state"
  /\ IF StateShouldSend
     THEN /\ page' = PageOnState(page, StateOf(snap))
          /\ session' = [session EXCEPT !.sent = StateOf(snap)]
     ELSE UNCHANGED <<page, session>>
  /\ IF session.hello THEN spc' = "display" /\ UNCHANGED snap ELSE EndPass
  /\ UNCHANGED <<controllerVars, retaken, drops>>

(* sendDisplayRecord: the record is copied now, the cursor is the status   *)
(* copy's, and the in-flight cursors start over.                           *)
DisplayReported(status, finalSeq) ==
  [session EXCEPT !.display = status.display, !.begin = 0, !.phase = "IDLE",
                  !.init = FALSE, !.idx = 0, !.finalSeq = finalSeq]

SendDisplay ==
  /\ spc = "display"
  /\ IF session.hello \/ snap.display # session.display
     THEN IF snap.has
          THEN /\ page' = PageOnFinal(page, EffectiveLastShot, accepted.seq)
               /\ session' = DisplayReported(snap, accepted.seq)
          ELSE /\ page' = page
               /\ session' = DisplayReported(snap, session.finalSeq)
     ELSE UNCHANGED <<page, session>>
  /\ retaken' = (retaken /\ session' = session)
  /\ spc' = "record"
  /\ UNCHANGED <<controllerVars, snap, drops>>

(* The status copy only decides whether to copy the record; what is sent   *)
(* follows from the record, and a record copied across a graduation waits. *)
Prefilter ==
  /\ snap.active /\ snap.phase # "IDLE"
  /\ \/ session.hello
     \/ snap.begin # session.begin
     \/ session.init /\ snap.phase # session.phase
     \/ snap.n > session.idx

(* Mutant of RecordIsSendable: a record copied across a graduation is sent.*)
RecordIsSendable_AnySeq == InPumpWindow(rec.phase)

RecordIsSendable == InPumpWindow(rec.phase) /\ accepted.seq = snap.accepted

(* Mutant of NeedsFullRecord: a new begin time is not looked for.          *)
NeedsFullRecord_PhaseOnly ==
  \/ session.hello \/ ~session.init
  \/ rec.phase # session.phase

NeedsFullRecord ==
  \/ session.hello
  \/ rec.begin # session.begin
  \/ session.init /\ rec.phase # session.phase

(* Mutant of RecordSent: the sample cursor comes from the status copy.     *)
RecordSent_StatusCount ==
  [session EXCEPT !.begin = rec.begin, !.phase = rec.phase, !.init = TRUE,
                  !.idx = snap.n]

RecordSent ==
  [session EXCEPT !.begin = rec.begin, !.phase = rec.phase, !.init = TRUE,
                  !.idx = rec.n]

AfterRecord ==
  IF session.hello THEN EndPass ELSE spc' = "state" /\ UNCHANGED snap

SendCurrent ==
  /\ spc = "record"
  /\ Prefilter /\ RecordIsSendable /\ NeedsFullRecord
  /\ page' = PageOnCurrent(page, rec, accepted.seq)
  /\ session' = [RecordSent EXCEPT !.hello = FALSE]
  /\ retaken' = FALSE
  /\ AfterRecord
  /\ UNCHANGED <<controllerVars, drops>>

SendsBatch ==
  Prefilter /\ RecordIsSendable /\ ~NeedsFullRecord /\ rec.n > session.idx

(* A page that cannot append the batch drops its record and reconnects     *)
(* (forceReconnect).                                                       *)
SendBatch ==
  /\ spc = "record"
  /\ SendsBatch
  /\ IF PageAccepts(page, accepted.seq, session.idx)
     THEN /\ page' = PageOnBatch(page, rec)
          /\ session' = [session EXCEPT !.idx = rec.n]
          /\ AfterRecord
          /\ UNCHANGED retaken
     ELSE /\ page' = PageOnResync(page)
          /\ EndSession
  /\ UNCHANGED <<controllerVars, drops>>

SkipRecord ==
  /\ spc = "record"
  /\ ~(Prefilter /\ RecordIsSendable /\ NeedsFullRecord) /\ ~SendsBatch
  /\ session' = [session EXCEPT !.hello = FALSE]
  /\ AfterRecord
  /\ UNCHANGED <<controllerVars, page, retaken, drops>>

SessionStep ==
  \/ Poll \/ ReadAtomics \/ ReadLocked \/ SendState \/ SendDisplay
  \/ SendCurrent \/ SendBatch \/ SkipRecord

(* The session, like the page, tells records apart by their begin times.   *)
Retakes == rec'.begin \notin {0, rec.begin} /\ rec'.begin = session.begin

MainStep ==
  MainNext /\ UNCHANGED streamVars /\ retaken' = (retaken \/ Retakes)
HttpStep == SetLoaded /\ UNCHANGED <<streamVars, retaken>>

Next == MainStep \/ HttpStep \/ Connect \/ Drop \/ SessionStep

Spec == Init /\ [][Next]_vars

------------------------------------------------------------------------------
Statuses == [active : BOOLEAN, saved : Nat, phase : Phases, begin : Nat,
             n : Nat, accepted : Nat, has : BOOLEAN, display : Nat]

TypeOK ==
  /\ ControllerTypeOK
  /\ spc \in {"off", "atomics", "locked", "state", "display", "record", "poll"}
  /\ snap \in Statuses
  /\ session \in [hello : BOOLEAN, display : Nat, begin : Nat, phase : Phases,
                  init : BOOLEAN, idx : Nat, sent : {session.sent},
                  finalSeq : Nat]
  /\ page \in [state : {page.state}, inflight : {page.inflight},
               card : AnyShot]
  /\ retaken \in BOOLEAN /\ drops \in 0..bound.drops

(* Replay reuses the live recorder, and a stored record is decoded into    *)
(* the display slot in place.  Whatever the history, the accepted slot and *)
(* the page hold was pulled live and is whole: a replayed finalize is      *)
(* never graded, and no reader copies the slot while it is overwritten     *)
(* (replayTick, resetInFlightAndNotify, processPendingLoad).               *)
ShownShotsAreReal ==
  \A shot \in store \cup {page.card, accepted.shot} :
    shot = NoShot \/ shot.source = "live"

(* "FINAL_RECORD precedes data for a new in-flight extraction": while the  *)
(* session tracks a record, the page's copy of it is bound to the accepted *)
(* shot the last FINAL_RECORD announced, whatever graduated or was loaded  *)
(* between the status copy and the record copies (_runSession).            *)
FinalBeforeCurrent ==
  spc # "off" /\ session.begin # 0 /\ page.inflight # None
    => page.inflight.seq = session.finalSeq

(* SAMPLE_BATCH is append-only from what this client has: the session's    *)
(* cursors are the page's copy of the record, never of another one.        *)
CursorsMatchPage ==
  spc # "off" /\ session.begin # 0 /\ page.inflight # None
    => /\ page.inflight.begin = session.begin
       /\ page.inflight.n = session.idx
       /\ ~page.inflight.spliced

(* The page never has to throw its stream away for a sample batch it       *)
(* cannot append: a begin time the session has not sent yet is preceded by *)
(* CURRENT_RECORD, whatever graduates, is loaded, replayed, abandoned or   *)
(* lost between the copies a session takes.  The one case left is a        *)
(* replayed record that begins exactly where the record the session tracks *)
(* began; it ends with the next full record (_runSession,                  *)
(* _sendRecordState; stream.js, SAMPLE_BATCH).                             *)
NoDesync ==
  spc = "record" /\ SendsBatch /\ ~retaken
    => PageAccepts(page, accepted.seq, session.idx)

(* savedSeq means "history is safe to refresh now": the shot it names is   *)
(* in the history before any reader sees it, and no status copy pairs it   *)
(* with an older accepted shot (persistAcceptedShot, snapshotStatus).      *)
SavedShotIsStored ==
  /\ savedSeq # 0 /\ savedSeq = accepted.seq => accepted.shot \in store
  /\ page.state # None
       => /\ page.state.saved <= page.state.accepted
          /\ page.state.saved = accepted.seq /\ accepted.seq # 0
               => accepted.shot \in store

(* Every shot that graduates is counted and given one save attempt before  *)
(* the next can graduate (tick, persistAcceptedShot).                      *)
EachShotPersistedOnce ==
  [][/\ accepted' # accepted => attemptedSeq = accepted.seq
     /\ counter' # counter
          => counter' = counter + 1 /\ attemptedSeq # accepted.seq
     /\ store' # store => counter' # counter]_vars

(* The page's view: its status, its Last-shot card, and the live curve it  *)
(* draws in the pump window.                                               *)
StatusFollowsDevice ==
  page.state # None /\ page.state = StateOf(StatusWith(
    [NoStatus EXCEPT !.active = active, !.saved = savedSeq]))

CardFollowsDevice ==
  page.card = IF HasEffectiveLastShot THEN EffectiveLastShot ELSE NoShot

CurveFollowsDevice ==
  active /\ InPumpWindow(rec.phase)
    => /\ page.inflight # None
       /\ page.inflight.begin = rec.begin /\ page.inflight.n = rec.n
       /\ page.inflight.phase = rec.phase

AtRest == pc = "idle" /\ spc = "poll" /\ ~woken

(* _liveSeq is "bumped whenever a web-visible aspect changes": once the    *)
(* main task has finished a step and the session has consumed every        *)
(* wake-up, the page shows exactly what the device has.  A load that fails *)
(* wakes nobody: what it takes away stays on the page until the next pass; *)
(* and the curve waits for the full record after a begin time was retaken  *)
(* (tick, replayTick, setLoaded, _runSession).                             *)
RestingPageIsCurrent ==
  AtRest /\ ~unheard =>
    /\ StatusFollowsDevice /\ CardFollowsDevice
    /\ retaken \/ CurveFollowsDevice

(* _liveSeq is "bumped whenever a web-visible aspect changes", with no     *)
(* exception: the card of a page at rest is the shot the device shows.     *)
(* A load that fails breaks it (processPendingLoad).                       *)
RestingCardIsCurrent == AtRest => CardFollowsDevice

(* stream.js, "abandoned-in-flight detection": after a screen exit or a    *)
(* rejected finalize the page has dropped its in-flight model.             *)
AbandonedIsDropped == AtRest /\ rec.phase = "IDLE" => page.inflight = None

==============================================================================
