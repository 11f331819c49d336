------------------------ MODULE ExtractionStreamProofs ------------------------
(***************************************************************************)
(* Proofs about a shot.  For any bounds on the history, the extractions,   *)
(* their samples, the loads, those that fail and the lost connections:     *)
(* that a graduated shot is counted and saved once, that a page can append *)
(* the sample batches it is sent, and that a page at rest shows the device.*)
(* Then of the recorder in every detail, for any clock, limits and         *)
(* time-outs: that it keeps the promise the controller is modelled with,   *)
(* and, when the clock does not turn over in a record, that the timeline it*)
(* hands on is sound and its pump time adds up.                            *)
(***************************************************************************)
EXTENDS ExtractionStream, ExtractionRecorder, SequenceTheorems, WellFoundedInduction, TLAPS

------------------------------------------------------------------------------
(* Saving: between two graduations of the main task.                       *)

(* The main task's place tells whether the accepted shot still waits for   *)
(* its one save attempt.                                                   *)
SaveIsDue ==
  /\ counter \in Nat
  /\ pc = "save" => attemptedSeq # accepted.seq
  /\ pc \notin {"save", "bump"} => attemptedSeq = accepted.seq

LEMMA SaveIsDueInit == Init => SaveIsDue
BY DEF Init, ControllerInit, SaveIsDue

LEMMA SaveIsDueStep == SaveIsDue /\ [Next]_vars => SaveIsDue'
<1> SUFFICES ASSUME SaveIsDue, [Next]_vars PROVE SaveIsDue' OBVIOUS
<1> USE DEF SaveIsDue, shotVars, streamVars
<1>1. CASE BeginSession BY <1>1 DEF BeginSession
<1>2. CASE Activate BY <1>2 DEF Activate
<1>3. CASE Deactivate BY <1>3 DEF Deactivate
<1>4. CASE ExitReset \/ StartReplay \/ StopReplay
  BY <1>4 DEF ExitReset, StartReplay, StopReplay, ResetInFlight
<1>5. CASE ReplayTick BY <1>5 DEF ReplayTick
<1>6. CASE ClearFinished BY <1>6 DEF ClearFinished
<1>7. CASE Tick BY <1>7 DEF Tick
<1>8. CASE Decode BY <1>8 DEF Decode
<1>9. CASE Update
  <2>1. UNCHANGED <<counter, attemptedSeq>> BY <1>9 DEF Update
  <2>2. \E wake \in BOOLEAN : pc' = AfterUpdate(wake) BY <1>9 DEF Update, FrameNeeded
  <2> QED BY <2>1, <2>2 DEF AfterUpdate
<1>10. CASE Bump BY <1>10 DEF Bump
<1>11. CASE Save BY <1>11 DEF Save
<1>12. CASE MarkSaved BY <1>12 DEF MarkSaved
<1>13. CASE BumpSaved BY <1>13 DEF BumpSaved
<1>14. CASE SetLoaded BY <1>14 DEF SetLoaded
<1>15. CASE Connect \/ Drop \/ SessionStep \/ UNCHANGED vars
  <2>1. UNCHANGED <<pc, shotVars>>
    BY <1>15 DEF Connect, Drop, SessionStep, Poll, ReadAtomics, ReadLocked, SendState, SendDisplay,
       SendCurrent, SendBatch, SkipRecord, controllerVars, vars
  <2> QED BY <2>1
<1> QED BY <1>1, <1>2, <1>3, <1>4, <1>5, <1>6, <1>7, <1>8, <1>9, <1>10, <1>11, <1>12, <1>13, <1>14,
           <1>15 DEF Next, MainStep, HttpStep, MainNext, TickSteps

(* Every shot that graduates is counted once and given one save attempt    *)
(* before the next can graduate, and nothing else writes the history       *)
(* (tick, persistAcceptedShot).                                            *)
THEOREM OneSaveAttempt == Spec => EachShotPersistedOnce
<1> DEFINE Step == /\ accepted' # accepted => attemptedSeq = accepted.seq
                   /\ counter' # counter
                        => counter' = counter + 1 /\ attemptedSeq # accepted.seq
                   /\ store' # store => counter' # counter
<1>1. SaveIsDue /\ [Next]_vars => [Step]_vars
  <2> SUFFICES ASSUME SaveIsDue, Next PROVE Step OBVIOUS
  <2> USE DEF shotVars, streamVars
  <2>1. CASE Save BY <2>1 DEF Save, SaveIsDue
  <2>2. CASE MarkSaved BY <2>2 DEF MarkSaved
  <2>3. CASE Update BY <2>3 DEF Update, SaveIsDue
  <2>4. CASE \/ BeginSession \/ Activate \/ Deactivate \/ ExitReset \/ StartReplay \/ StopReplay
             \/ ReplayTick \/ ClearFinished
    BY <2>4 DEF BeginSession, Activate, Deactivate, ExitReset, StartReplay, StopReplay,
       ResetInFlight, ReplayTick, ClearFinished
  <2>5. CASE Tick \/ Decode \/ Bump \/ BumpSaved \/ SetLoaded
    BY <2>5 DEF Tick, Decode, Bump, BumpSaved, SetLoaded
  <2>6. CASE Connect \/ Drop \/ SessionStep
    BY <2>6 DEF Connect, Drop, SessionStep, Poll, ReadAtomics, ReadLocked, SendState, SendDisplay,
       SendCurrent, SendBatch, SkipRecord, controllerVars
  <2> QED BY <2>1, <2>2, <2>3, <2>4, <2>5, <2>6 DEF Next, MainStep, HttpStep, MainNext, TickSteps
<1>2. Spec => []SaveIsDue BY SaveIsDueInit, SaveIsDueStep, PTL DEF Spec
<1>3. Spec => [][Step]_vars BY <1>1, <1>2, PTL DEF Spec
<1> QED BY <1>3 DEF EachShotPersistedOnce

------------------------------------------------------------------------------
(* The controller as the stream needs it.                                  *)

Records == [phase : Phases, begin : Nat, n : Nat, source : Sources]

ControllerTypes ==
  /\ rec \in Records
  /\ finishedSeq \in Nat /\ observedSeq \in Nat /\ accepted.seq \in Nat
  /\ savedSeq \in Nat /\ displaySeq \in Nat /\ begins \in Nat
  /\ active \in BOOLEAN /\ hasLoaded \in BOOLEAN

(* A record in the pump window has a begin time, and no cleared one has.   *)
BegunRecord ==
  /\ rec.phase = "IDLE" => rec.begin = 0
  /\ InPumpWindow(rec.phase) => rec.begin # 0
  /\ rec.begin <= begins

SeqsInOrder == accepted.seq <= observedSeq /\ observedSeq <= finishedSeq

ControllerInv == ControllerTypes /\ BegunRecord /\ SeqsInOrder

(* What one step of the controller does to what the stream reads: a shot   *)
(* that graduates changes the display too.                                 *)
DisplayFollows ==
  \/ accepted'.seq = accepted.seq /\ displaySeq' >= displaySeq
  \/ accepted'.seq > accepted.seq /\ displaySeq' > displaySeq

LEMMA SampledRecords ==
  ASSUME NEW r \in Records, NEW k, NEW s \in Sampled(r, k)
  PROVE  s \in Records /\ s.begin = r.begin
BY DEF Sampled, Records

(* The record an update leaves: this one, or one begun by the update.      *)
LEMMA UpdatedRecord ==
  ASSUME NEW r \in Records, NEW b \in Nat \ {0}, NEW source \in Sources, NEW k,
         r.phase = "IDLE" => r.begin = 0, InPumpWindow(r.phase) => r.begin # 0,
         NEW next \in Updates(r, b, source, k)
  PROVE  /\ next.rec \in Records
         /\ next.rec.begin \in {r.begin, b}
         /\ next.rec.phase = "IDLE" => next.rec.begin = 0
         /\ InPumpWindow(next.rec.phase) => next.rec.begin # 0
<1>1. Started(b, source) \in Records BY DEF Started, Records, Phases
<1>2. r.phase \in Phases BY DEF Records
<1>3. CASE r.phase \in {"IDLE", "DONE"}
  <2>1. next \in {Outcome(r, NoShot), Outcome(Started(b, source), NoShot)}
    BY <1>3 DEF Updates
  <2> QED BY <1>1, <2>1 DEF Outcome, Started, InPumpWindow
<1>4. CASE InPumpWindow(r.phase)
  <2> DEFINE Kept == \E s \in Sampled(r, k), p \in {"RUNNING", "POST_PUMP", "DONE"} :
                       next.rec = [s EXCEPT !.phase = p]
             New == next.rec = Started(b, source)
  <2>1. Kept \/ New
    <3> DEFINE Went(s, p) == next = Outcome([s EXCEPT !.phase = p], NoShot)
               Done(s) == next = Outcome([s EXCEPT !.phase = "DONE"], ShotOf(s))
               Began(s) == next = Outcome(Started(b, source), ShotOf(s))
    <3>1. \/ \E s \in Sampled(r, k), p \in {"RUNNING", "POST_PUMP"} : Went(s, p)
          \/ \E s \in Sampled(r, k) : Done(s) \/ Began(s)
      <4>1. CASE r.phase = "RUNNING" BY <4>1 DEF Updates, Outcome
      <4>2. CASE r.phase = "POST_PUMP" BY <4>2 DEF Updates, Outcome, ShotOf
      <4> QED BY <1>4, <4>1, <4>2 DEF InPumpWindow
    <3>2. ASSUME NEW s \in Sampled(r, k), NEW p \in {"RUNNING", "POST_PUMP"}, Went(s, p)
          PROVE  Kept
      BY <3>2 DEF Outcome
    <3>3. ASSUME NEW s \in Sampled(r, k), Done(s) PROVE Kept
      BY <3>3 DEF Outcome
    <3>4. ASSUME NEW s \in Sampled(r, k), Began(s) PROVE New
      BY <3>4 DEF Outcome
    <3> HIDE DEF Went, Done, Began, Kept, New
    <3> QED BY <3>1, <3>2, <3>3, <3>4
  <2>2. CASE Kept
    <3>1. PICK s \in Sampled(r, k), p \in {"RUNNING", "POST_PUMP", "DONE"} :
            next.rec = [s EXCEPT !.phase = p]
      BY <2>2
    <3>2. s \in Records /\ s.begin = r.begin BY SampledRecords
    <3> QED BY <1>4, <3>1, <3>2 DEF Records, Phases, InPumpWindow
  <2>3. CASE New BY <1>1, <2>3 DEF Started, InPumpWindow
  <2> QED BY <2>1, <2>2, <2>3
<1> QED BY <1>2, <1>3, <1>4 DEF Phases, InPumpWindow

LEMMA ClearedRecord ==
  Cleared \in Records /\ Cleared.phase = "IDLE" /\ Cleared.begin = 0
BY DEF Cleared, Records, Phases, Sources

LEMMA ControllerInvInit == Init => ControllerInv
<1> SUFFICES ASSUME Init PROVE ControllerInv OBVIOUS
<1>1. /\ rec \in Records /\ rec.phase = "IDLE" /\ rec.begin = 0
      /\ finishedSeq = 0 /\ observedSeq = 0 /\ accepted.seq = 0 /\ savedSeq = 0
      /\ displaySeq = 0 /\ begins = 0 /\ active \in BOOLEAN /\ hasLoaded \in BOOLEAN
  BY ClearedRecord DEF Init, ControllerInit
<1> QED BY <1>1 DEF ControllerInv, ControllerTypes, BegunRecord, SeqsInOrder, InPumpWindow

(* A step that leaves the record as it is, or clears it, and neither       *)
(* finishes nor grades one.                                                *)
LEMMA RecordKeptOrCleared ==
  ASSUME ControllerInv, rec' = rec \/ rec' = Cleared,
         UNCHANGED <<finishedSeq, begins, accepted>>, observedSeq' \in {observedSeq, finishedSeq},
         displaySeq' \in {displaySeq, displaySeq + 1},
         savedSeq' \in {savedSeq, accepted.seq}, active' \in BOOLEAN, hasLoaded' \in BOOLEAN
  PROVE  ControllerInv' /\ begins' >= begins /\ DisplayFollows
<1>1. Cleared \in Records /\ Cleared.phase = "IDLE" /\ Cleared.begin = 0 BY ClearedRecord
<1>2. ControllerTypes' BY <1>1 DEF ControllerInv, ControllerTypes
<1>3. BegunRecord' BY <1>1 DEF ControllerInv, ControllerTypes, BegunRecord, InPumpWindow
<1>4. SeqsInOrder' BY DEF ControllerInv, ControllerTypes, SeqsInOrder
<1>5. begins' >= begins /\ DisplayFollows
  BY <1>1 DEF ControllerInv, ControllerTypes, DisplayFollows
<1> QED BY <1>2, <1>3, <1>4, <1>5 DEF ControllerInv

LEMMA ControllerStep ==
  ASSUME ControllerInv, ControllerNext
  PROVE  ControllerInv' /\ begins' >= begins /\ DisplayFollows
<1> USE DEF recorderVars, shotVars, displayVars, boundVars
<1>0. active \in BOOLEAN /\ hasLoaded \in BOOLEAN /\ begins + 1 \in Nat \ {0} /\ rec \in Records
  BY DEF ControllerInv, ControllerTypes
<1>a. begins \in Nat /\ rec.begin \in Nat /\ rec.begin <= begins
  BY DEF ControllerInv, ControllerTypes, BegunRecord, Records
<1>1. CASE BeginSession BY <1>0, <1>1, RecordKeptOrCleared DEF BeginSession
<1>2. CASE Activate BY <1>0, <1>2, RecordKeptOrCleared DEF Activate
<1>3. CASE Deactivate BY <1>0, <1>3, RecordKeptOrCleared DEF Deactivate
<1>4. CASE ExitReset \/ StartReplay \/ StopReplay
  BY <1>0, <1>4, RecordKeptOrCleared DEF ExitReset, StartReplay, StopReplay, ResetInFlight
<1>5. CASE ReplayTick
  <2>1. PICK begin \in rec.begin + 1 .. begins + 1 :
          \E next \in NextOf("replay", begin) : RecordFinish(next) /\ rec' = next.rec
    BY <1>5 DEF ReplayTick
  <2>2. UNCHANGED <<observedSeq, accepted, savedSeq, displaySeq, active, hasLoaded>>
    BY <1>5 DEF ReplayTick
  <2>3. begin \in Nat \ {0} /\ begin # rec.begin /\ begin <= begins + 1 BY <1>a
  <2> PICK next \in NextOf("replay", begin) : RecordFinish(next) /\ rec' = next.rec BY <2>1
  <2>4. /\ rec' \in Records /\ rec'.begin \in {rec.begin, begin}
        /\ rec'.phase = "IDLE" => rec'.begin = 0
        /\ InPumpWindow(rec'.phase) => rec'.begin # 0
        /\ begins' = (IF rec'.begin \in {0, rec.begin} THEN begins ELSE begins + 1)
        /\ finishedSeq' \in {finishedSeq, finishedSeq + 1}
    BY <1>0, <2>3, UpdatedRecord DEF NextOf, Sources, ControllerInv, BegunRecord, RecordFinish
  <2>5. active' \in BOOLEAN /\ hasLoaded' \in BOOLEAN BY <1>0, <2>2
  <2>6. ControllerTypes'
    <3>1. /\ finishedSeq' \in Nat /\ observedSeq' \in Nat /\ accepted'.seq \in Nat
          /\ savedSeq' \in Nat /\ displaySeq' \in Nat /\ begins' \in Nat
      BY <2>2, <2>4 DEF ControllerInv, ControllerTypes
    <3> QED BY <2>4, <2>5, <3>1 DEF ControllerTypes
  <2>7. BegunRecord' /\ begins' >= begins BY <1>a, <2>3, <2>4 DEF BegunRecord
  <2>8. SeqsInOrder' /\ DisplayFollows
    BY <2>2, <2>4 DEF ControllerInv, ControllerTypes, SeqsInOrder, DisplayFollows
  <2> QED BY <2>6, <2>7, <2>8 DEF ControllerInv
<1>6. CASE ClearFinished BY <1>0, <1>6, RecordKeptOrCleared DEF ClearFinished
<1>7. CASE Tick BY <1>0, <1>7, RecordKeptOrCleared DEF Tick
<1>8. CASE Decode BY <1>0, <1>8, RecordKeptOrCleared DEF Decode, ClearLoadedShot
<1>9. CASE Update
  <2>1. PICK next \in NextOf("live", begins + 1), real \in BOOLEAN :
          /\ RecordFinish(next) /\ Observe(real)
          /\ rec' = IF Rejects(real) /\ next.rec.phase = "DONE" THEN Cleared ELSE next.rec
          /\ IF Graduates(real) THEN ClearLoadedShot ELSE UNCHANGED displayVars
    BY <1>9 DEF Update
  <2>2. UNCHANGED <<savedSeq, active>> BY <1>9 DEF Update
  <2>3. /\ next.rec \in Records /\ next.rec.begin \in {rec.begin, begins + 1}
        /\ next.rec.phase = "IDLE" => next.rec.begin = 0
        /\ InPumpWindow(next.rec.phase) => next.rec.begin # 0
    BY <1>0, UpdatedRecord DEF NextOf, Sources, ControllerInv, BegunRecord
  <2>4. /\ begins' = (IF next.rec.begin \in {0, rec.begin} THEN begins ELSE begins + 1)
        /\ finishedSeq' \in {finishedSeq, finishedSeq + 1}
    BY <2>1 DEF RecordFinish
  <2>5. begins' \in Nat /\ BegunRecord' /\ rec' \in Records /\ begins' >= begins
    <3>1. rec' = Cleared \/ rec' = next.rec BY <2>1
    <3>2. begins \in Nat /\ rec.begin <= begins /\ rec.begin \in Nat BY <1>a
    <3>3. /\ rec' \in Records
          /\ rec'.phase = "IDLE" => rec'.begin = 0
          /\ InPumpWindow(rec'.phase) => rec'.begin # 0
          /\ rec'.begin <= begins'
      <4>1. CASE rec' = Cleared BY <2>3, <2>4, <3>2, <4>1, ClearedRecord DEF InPumpWindow
      <4>2. CASE rec' = next.rec BY <2>3, <2>4, <3>2, <4>2
      <4> QED BY <3>1, <4>1, <4>2
    <3> QED BY <2>3, <2>4, <3>2, <3>3 DEF BegunRecord
  <2>6. /\ observedSeq' = finishedSeq'
        /\ \/ /\ finishedSeq' # observedSeq /\ accepted'.seq = finishedSeq'
              /\ displaySeq' = displaySeq + 1 /\ hasLoaded' = FALSE
           \/ accepted' = accepted /\ UNCHANGED <<displaySeq, hasLoaded>>
    BY <2>1 DEF Observe, Graduates, ClearLoadedShot
  <2>7. SeqsInOrder' /\ DisplayFollows
    BY <2>4, <2>6 DEF ControllerInv, ControllerTypes, SeqsInOrder, DisplayFollows
  <2>8. active' \in BOOLEAN /\ hasLoaded' \in BOOLEAN BY <1>0, <2>2, <2>6
  <2>9. ControllerTypes'
    <3>1. finishedSeq' \in Nat /\ savedSeq' \in Nat /\ displaySeq' \in Nat /\ accepted'.seq \in Nat
      BY <2>2, <2>4, <2>6 DEF ControllerInv, ControllerTypes
    <3> QED BY <2>5, <2>6, <2>8, <3>1 DEF ControllerTypes
  <2> QED BY <2>5, <2>7, <2>9 DEF ControllerInv
<1>10. CASE Bump \/ BumpSaved BY <1>0, <1>10, RecordKeptOrCleared DEF Bump, BumpSaved
<1>11. CASE Save BY <1>0, <1>11, RecordKeptOrCleared DEF Save
<1>12. CASE MarkSaved BY <1>0, <1>12, RecordKeptOrCleared DEF MarkSaved
<1>13. CASE SetLoaded BY <1>0, <1>13, RecordKeptOrCleared DEF SetLoaded
<1> QED BY <1>1, <1>2, <1>3, <1>4, <1>5, <1>6, <1>7, <1>8, <1>9, <1>10, <1>11, <1>12, <1>13
        DEF ControllerNext, MainNext, TickSteps

------------------------------------------------------------------------------
(* The session and the page.                                               *)

Inflights == [phase : Phases, begin : Nat, n : Nat, seq : Nat, spliced : BOOLEAN]

StreamTypes ==
  /\ session \in [hello : BOOLEAN, display : Nat, begin : Nat, phase : Phases, init : BOOLEAN,
                  idx : Nat, sent : {session.sent}, finalSeq : Nat]
  /\ snap \in Statuses
  /\ page \in [state : {page.state}, inflight : Inflights \cup {None}, card : {page.card}]

(* A session that has sent a record knows its begin time.                  *)
SessionBegun ==
  /\ session.init => session.begin # 0 /\ ~session.hello
  /\ ~session.init => session.begin = 0
  /\ session.begin <= begins

(* The status copy is of the past, and tells by the display whether another*)
(* shot has graduated since.                                               *)
HasStatus == spc \in {"state", "display", "record"}
StatusOfPast ==
  HasStatus =>
    /\ snap.accepted <= accepted.seq /\ snap.display <= displaySeq
    /\ snap.display = displaySeq => snap.accepted = accepted.seq
    /\ ~snap.has => snap.accepted = 0

(* The last FINAL_RECORD named the shot that is accepted now, as long as   *)
(* neither the display nor the status copy shows a change.                 *)
Reported == spc = "record" \/ ~session.hello
FinalIsAccepted ==
  /\ session.display <= displaySeq /\ session.finalSeq <= accepted.seq
  /\ Reported /\ session.display = displaySeq => session.finalSeq = accepted.seq
  /\ spc = "display" /\ ~session.hello /\ snap.display = session.display
       /\ snap.accepted = accepted.seq => session.finalSeq = accepted.seq
  /\ spc = "record" /\ snap.accepted = accepted.seq => session.finalSeq = accepted.seq

(* As long as no record has taken the begin time it tracks: the page's copy*)
(* is the session's record; a page that has dropped it will not meet that  *)
(* record again.                                                           *)
CopyIsSessions ==
  session.init /\ ~retaken =>
    /\ page.inflight # None
         => /\ page.inflight.begin = session.begin
            /\ page.inflight.n = session.idx
            /\ page.inflight.seq = session.finalSeq
    /\ page.inflight = None => rec.begin # session.begin
    /\ HasStatus /\ snap.phase = "IDLE" => rec.begin # session.begin

SessionInv ==
  /\ StreamTypes /\ SessionBegun /\ StatusOfPast /\ FinalIsAccepted /\ CopyIsSessions

StreamInv == ControllerInv /\ SessionInv

LEMMA FreshSessionType ==
  /\ FreshSession.hello = TRUE /\ FreshSession.init = FALSE /\ FreshSession.begin = 0
  /\ FreshSession.display = 0 /\ FreshSession.finalSeq = 0
  /\ FreshSession \in [hello : BOOLEAN, display : Nat, begin : Nat, phase : Phases,
                       init : BOOLEAN, idx : Nat, sent : {FreshSession.sent}, finalSeq : Nat]
  /\ NoStatus \in Statuses
BY DEF FreshSession, NoStatus, Statuses, Phases

LEMMA SessionInvInit == Init => SessionInv
<1> SUFFICES ASSUME Init PROVE SessionInv OBVIOUS
<1>1. /\ session = FreshSession /\ snap = NoStatus /\ page = FreshPage /\ spc = "off"
      /\ accepted.seq = 0 /\ displaySeq = 0 /\ begins = 0
  BY DEF Init, StreamInit, ControllerInit
<1>2. page \in [state : {page.state}, inflight : Inflights \cup {None}, card : {page.card}]
  BY <1>1 DEF FreshPage
<1>3. StreamTypes BY <1>1, <1>2, FreshSessionType DEF StreamTypes
<1> QED BY <1>1, <1>3, FreshSessionType
        DEF SessionInv, SessionBegun, StatusOfPast, HasStatus, FinalIsAccepted, Reported,
            CopyIsSessions

(* The controller moves between any two steps of a session.                *)
LEMMA SessionInvController ==
  ASSUME StreamInv, ControllerInv', begins' >= begins, DisplayFollows, UNCHANGED streamVars,
         ~retaken' => ~retaken /\ ~Retakes
  PROVE  SessionInv'
<1> USE DEF streamVars, StreamInv, SessionInv
<1>1. /\ begins \in Nat /\ begins' \in Nat /\ rec.begin \in Nat /\ rec'.begin \in Nat
      /\ accepted.seq \in Nat /\ accepted'.seq \in Nat /\ displaySeq \in Nat
      /\ displaySeq' \in Nat
  BY DEF ControllerInv, ControllerTypes, Records
<1>2. /\ session.begin \in Nat /\ session.display \in Nat /\ session.finalSeq \in Nat
      /\ snap.display \in Nat /\ snap.accepted \in Nat
  BY DEF StreamTypes, Statuses
<1>3. StreamTypes' BY DEF StreamTypes
<1>4. SessionBegun' BY <1>1, <1>2 DEF SessionBegun
<1>5. StatusOfPast' BY <1>1, <1>2 DEF StatusOfPast, HasStatus, DisplayFollows
<1>6. FinalIsAccepted'
  BY <1>1, <1>2 DEF FinalIsAccepted, Reported, DisplayFollows, StatusOfPast, HasStatus
<1>7. CopyIsSessions'
  BY <1>1, <1>2 DEF CopyIsSessions, HasStatus, SessionBegun, Retakes
<1> QED BY <1>3, <1>4, <1>5, <1>6, <1>7

(* What the session's own steps leave alone.                               *)
Still == /\ UNCHANGED <<rec, begins, displaySeq, finishedSeq, observedSeq, savedSeq, active, hasLoaded>>
         /\ accepted' = accepted

LEMMA SessionEnds ==
  ASSUME StreamInv, Still, EndSession, page'.inflight = page.inflight \/ page'.inflight = None,
         page' \in [state : {page'.state}, inflight : Inflights \cup {None}, card : {page'.card}]
  PROVE  SessionInv'
<1>1. session' = FreshSession /\ snap' = NoStatus /\ spc' = "off" BY DEF EndSession
<1>2. begins \in Nat /\ displaySeq \in Nat /\ accepted.seq \in Nat
  BY DEF StreamInv, ControllerInv, ControllerTypes
<1>3. StreamTypes' BY <1>1, FreshSessionType DEF StreamTypes
<1> QED BY <1>1, <1>2, <1>3, FreshSessionType
        DEF SessionInv, SessionBegun, StatusOfPast, HasStatus, FinalIsAccepted, Reported,
            CopyIsSessions, Still

LEMMA SessionInvStep ==
  ASSUME StreamInv, Connect \/ Drop \/ SessionStep
  PROVE  SessionInv'
<1> USE DEF StreamInv, SessionInv, recorderVars, shotVars, displayVars, loadVars, boundVars,
            controllerVars
<1>1. /\ begins \in Nat /\ rec \in Records /\ accepted.seq \in Nat /\ displaySeq \in Nat
      /\ savedSeq \in Nat /\ active \in BOOLEAN /\ hasLoaded \in BOOLEAN
  BY DEF ControllerInv, ControllerTypes
<1>2. /\ session.begin \in Nat /\ session.display \in Nat /\ session.finalSeq \in Nat
      /\ snap.display \in Nat /\ snap.accepted \in Nat
  BY DEF StreamTypes, Statuses
<1>3. Still
  BY DEF Still, Connect, Drop, SessionStep, Poll, ReadAtomics, ReadLocked, SendState, SendDisplay,
         SendCurrent, SendBatch, SkipRecord
<1>4. CASE Connect
  <2>1. /\ session' = FreshSession /\ spc' = "atomics" /\ UNCHANGED <<snap, page>>
    BY <1>4 DEF Connect
  <2>2. StreamTypes' BY <2>1, FreshSessionType DEF StreamTypes
  <2> QED BY <1>1, <1>3, <2>1, <2>2, FreshSessionType
          DEF SessionBegun, StatusOfPast, HasStatus, FinalIsAccepted, Reported, CopyIsSessions,
              Still
<1>5. CASE Drop
  BY <1>3, <1>5, SessionEnds DEF Drop, StreamTypes
<1>6. CASE Poll
  BY <1>3, <1>6 DEF Poll, StreamTypes, SessionBegun, StatusOfPast, HasStatus, FinalIsAccepted,
                    Reported, CopyIsSessions, Still
<1>7. CASE ReadAtomics
  <2>1. snap' \in Statuses BY <1>1, <1>7 DEF ReadAtomics, StreamTypes, Statuses
  <2> QED BY <1>3, <1>7, <2>1
          DEF ReadAtomics, StreamTypes, SessionBegun, StatusOfPast, HasStatus, FinalIsAccepted,
              Reported, CopyIsSessions, Still
<1>8. CASE ReadLocked
  <2>1. HasEffectiveLastShot \in BOOLEAN /\ (~HasEffectiveLastShot => accepted.seq = 0)
    BY <1>1 DEF HasEffectiveLastShot
  <2>2. /\ snap' \in Statuses
        /\ snap'.phase = rec.phase /\ snap'.accepted = accepted.seq /\ snap'.display = displaySeq
        /\ ~snap'.has => accepted.seq = 0
    BY <1>1, <1>8, <2>1 DEF ReadLocked, StatusWith, StreamTypes, Statuses, Records
  <2>3. UNCHANGED <<session, page, retaken>> /\ spc' \in {"state", "display"} /\ spc = "locked"
        /\ (spc' = "state" <=> session.hello)
    BY <1>8 DEF ReadLocked
  <2>4. rec.phase = "IDLE" => rec.begin = 0 BY DEF ControllerInv, BegunRecord
  <2> QED BY <1>1, <1>2, <1>3, <2>2, <2>3, <2>4
          DEF StreamTypes, SessionBegun, StatusOfPast, HasStatus, FinalIsAccepted, Reported,
              CopyIsSessions, Still
<1>9. CASE SendState
  <2>1. UNCHANGED retaken /\ spc = "state"
        /\ \/ spc' = "display" /\ UNCHANGED snap /\ session.hello
           \/ spc' = "poll" /\ snap' = NoStatus /\ ~session.hello
    BY <1>9 DEF SendState, EndPass
  <2>2. /\ session' = session \/ session' = [session EXCEPT !.sent = StateOf(snap)]
        /\ page' = page \/ page' = PageOnState(page, StateOf(snap))
    BY <1>9 DEF SendState
  <2>3. /\ session' \in [hello : BOOLEAN, display : Nat, begin : Nat, phase : Phases,
                         init : BOOLEAN, idx : Nat, sent : {session'.sent}, finalSeq : Nat]
        /\ session'.hello = session.hello /\ session'.display = session.display
        /\ session'.begin = session.begin /\ session'.init = session.init
        /\ session'.idx = session.idx /\ session'.finalSeq = session.finalSeq
    BY <2>2 DEF StreamTypes
  <2>4. /\ page' \in [state : {page'.state}, inflight : Inflights \cup {None}, card : {page'.card}]
        /\ \/ page'.inflight = page.inflight
           \/ page'.inflight = None /\ snap.phase = "IDLE"
    BY <2>2 DEF PageOnState, StateOf, StreamTypes
  <2>5. StreamTypes' BY <2>1, <2>3, <2>4, FreshSessionType DEF StreamTypes
  <2>6. SessionBegun' BY <1>3, <2>3 DEF SessionBegun, Still
  <2>7. StatusOfPast' BY <1>3, <2>1 DEF StatusOfPast, HasStatus, Still
  <2>8. FinalIsAccepted' BY <1>3, <2>1, <2>3 DEF FinalIsAccepted, Reported, Still
  <2>9. CopyIsSessions' BY <1>3, <2>1, <2>3, <2>4 DEF CopyIsSessions, HasStatus, Still
  <2> QED BY <2>1, <2>5, <2>6, <2>7, <2>8, <2>9
<1>10. CASE SendDisplay
  <2>1. /\ spc = "display" /\ spc' = "record" /\ UNCHANGED snap
        /\ retaken' = (retaken /\ session' = session)
    BY <1>10 DEF SendDisplay
  <2>2. CASE ~session.hello /\ snap.display = session.display
    <3>1. UNCHANGED <<page, session>> BY <1>10, <2>2 DEF SendDisplay
    <3> QED BY <1>3, <2>1, <2>2, <3>1
            DEF StreamTypes, SessionBegun, StatusOfPast, HasStatus, FinalIsAccepted, Reported,
                CopyIsSessions, Still
  <2>3. CASE session.hello \/ snap.display # session.display
    <3>1. \E seq \in {accepted.seq, session.finalSeq} :
            /\ session' = DisplayReported(snap, seq)
            /\ seq = accepted.seq \/ ~snap.has
      BY <1>10, <2>3 DEF SendDisplay
    <3>2. \/ page' = page
          \/ page' = PageOnFinal(page, EffectiveLastShot, accepted.seq)
      BY <1>10, <2>3 DEF SendDisplay
    <3>3. page' \in [state : {page'.state}, inflight : Inflights \cup {None}, card : {page'.card}]
      BY <3>2 DEF PageOnFinal, StreamTypes
    <3>4. /\ session' \in [hello : BOOLEAN, display : Nat, begin : Nat, phase : Phases,
                           init : BOOLEAN, idx : Nat, sent : {session'.sent}, finalSeq : Nat]
          /\ session'.init = FALSE /\ session'.begin = 0 /\ session'.display = snap.display
          /\ session'.finalSeq = accepted.seq
             \/ (session'.finalSeq = session.finalSeq /\ ~snap.has)
      <4>1. PICK seq \in {accepted.seq, session.finalSeq} :
              session' = DisplayReported(snap, seq) /\ (seq = accepted.seq \/ ~snap.has)
        BY <3>1
      <4>2. /\ accepted.seq \in Nat /\ session.finalSeq \in Nat /\ snap.display \in Nat
            /\ session \in [hello : BOOLEAN, display : Nat, begin : Nat, phase : Phases,
                            init : BOOLEAN, idx : Nat, sent : {session.sent}, finalSeq : Nat]
        BY <1>1, <1>2 DEF StreamTypes, Statuses
      <4>3. seq \in Nat /\ "IDLE" \in Phases BY <4>2, <4>1 DEF Phases
      <4>4. /\ session'.hello = session.hello /\ session'.init = FALSE
            /\ session'.begin = 0 /\ session'.idx = 0
            /\ session'.phase = "IDLE" /\ session'.display = snap.display
            /\ session'.finalSeq = seq
        BY <4>1, <4>2 DEF DisplayReported
      <4>5. session' \in [hello : BOOLEAN, display : Nat, begin : Nat, phase : Phases,
                          init : BOOLEAN, idx : Nat, sent : {session'.sent}, finalSeq : Nat]
        BY <4>1, <4>2, <4>3 DEF DisplayReported
      <4> QED BY <4>1, <4>4, <4>5
    <3>5. session.finalSeq <= accepted.seq /\ snap.display <= displaySeq
          /\ (~snap.has => snap.accepted = 0)
          /\ (snap.display = displaySeq => snap.accepted = accepted.seq)
      BY <2>1 DEF FinalIsAccepted, StatusOfPast, HasStatus
    <3>6. FinalIsAccepted'
      BY <1>1, <1>2, <1>3, <2>1, <3>4, <3>5 DEF FinalIsAccepted, Reported, Still
    <3> QED BY <1>1, <1>3, <2>1, <3>3, <3>4, <3>6
            DEF StreamTypes, SessionBegun, StatusOfPast, HasStatus, CopyIsSessions, Still
  <2> QED BY <2>2, <2>3
<1>11. CASE SendCurrent
  <2>1. /\ spc = "record" /\ spc' \in {"poll", "state"}
        /\ snap' = snap \/ snap' = NoStatus
        /\ spc' = "state" => snap' = snap
        /\ InPumpWindow(rec.phase) /\ accepted.seq = snap.accepted /\ Prefilter
    BY <1>11 DEF SendCurrent, AfterRecord, EndPass, RecordIsSendable
  <2>2. rec.begin # 0 /\ rec.begin <= begins /\ rec.begin \in Nat /\ rec.n \in Nat /\ rec.phase \in Phases
    BY <1>1, <2>1 DEF ControllerInv, BegunRecord, Records
  <2>3. session' = [RecordSent EXCEPT !.hello = FALSE]
        /\ page' = PageOnCurrent(page, rec, accepted.seq)
    BY <1>11 DEF SendCurrent
  <2>4. /\ session' \in [hello : BOOLEAN, display : Nat, begin : Nat, phase : Phases,
                         init : BOOLEAN, idx : Nat, sent : {session'.sent}, finalSeq : Nat]
        /\ session'.init = TRUE /\ session'.hello = FALSE /\ session'.begin = rec.begin
        /\ session'.idx = rec.n /\ session'.finalSeq = session.finalSeq
        /\ session'.display = session.display
    BY <2>2, <2>3 DEF RecordSent, StreamTypes
  <2>5. /\ page' \in [state : {page'.state}, inflight : Inflights \cup {None}, card : {page'.card}]
        /\ page'.inflight # None /\ page'.inflight.begin = rec.begin
        /\ page'.inflight.n = rec.n /\ page'.inflight.seq = accepted.seq
    BY <1>1, <2>2, <2>3 DEF PageOnCurrent, StreamTypes, Inflights, None, Phases
  <2>6. snap.phase # "IDLE" BY <2>1 DEF Prefilter
  <2>7. session.finalSeq = accepted.seq BY <2>1 DEF FinalIsAccepted
  <2>8. StreamTypes' BY <2>1, <2>4, <2>5, FreshSessionType DEF StreamTypes
  <2>9. SessionBegun' BY <1>3, <2>2, <2>4 DEF SessionBegun, Still
  <2>10. StatusOfPast' BY <1>3, <2>1 DEF StatusOfPast, HasStatus, Still
  <2>11. FinalIsAccepted' BY <1>3, <2>1, <2>4, <2>7 DEF FinalIsAccepted, Reported, Still
  <2>12. CopyIsSessions'
    BY <1>3, <2>1, <2>4, <2>5, <2>6, <2>7 DEF CopyIsSessions, HasStatus, Still
  <2> QED BY <2>1, <2>8, <2>9, <2>10, <2>11, <2>12
<1>12. CASE SendBatch
  <2>1. /\ spc = "record" /\ Prefilter /\ InPumpWindow(rec.phase) /\ accepted.seq = snap.accepted
        /\ ~session.hello /\ rec.begin = session.begin
    BY <1>12 DEF SendBatch, SendsBatch, RecordIsSendable, NeedsFullRecord
  <2>2. session.init
    BY <2>1 DEF SessionBegun, ControllerInv, BegunRecord
  <2>3. CASE ~PageAccepts(page, accepted.seq, session.idx)
    <3>1. EndSession /\ page' = PageOnResync(page) BY <1>12, <2>3 DEF SendBatch
    <3>2. /\ page' \in [state : {page'.state}, inflight : Inflights \cup {None}, card : {page'.card}]
          /\ page'.inflight = None
      BY <3>1 DEF PageOnResync, StreamTypes
    <3> QED BY <1>3, <3>1, <3>2, SessionEnds
  <2>4. CASE PageAccepts(page, accepted.seq, session.idx)
    <3>1. /\ page' = PageOnBatch(page, rec) /\ session' = [session EXCEPT !.idx = rec.n]
          /\ UNCHANGED retaken /\ spc' = "state" /\ UNCHANGED snap
      BY <1>12, <2>1, <2>4 DEF SendBatch, AfterRecord
    <3>2. rec.n \in Nat BY <1>1 DEF Records
    <3>3. /\ session' \in [hello : BOOLEAN, display : Nat, begin : Nat, phase : Phases,
                           init : BOOLEAN, idx : Nat, sent : {session'.sent}, finalSeq : Nat]
          /\ session'.init = session.init /\ session'.hello = session.hello
          /\ session'.begin = session.begin
          /\ session'.idx = rec.n /\ session'.finalSeq = session.finalSeq
          /\ session'.display = session.display
      BY <3>1, <3>2 DEF StreamTypes
    <3>4. page.inflight \in Inflights BY <2>4 DEF PageAccepts, StreamTypes
    <3>5. /\ page'.inflight \in Inflights
          /\ page'.inflight.begin = page.inflight.begin
          /\ page'.inflight.n = rec.n /\ page'.inflight.seq = page.inflight.seq
          /\ page' \in [state : {page'.state}, inflight : Inflights \cup {None}, card : {page'.card}]
      BY <3>1, <3>2, <3>4 DEF PageOnBatch, StreamTypes, Inflights
    <3>6. page'.inflight # None /\ page.inflight # None
      BY <3>4, <3>5 DEF Inflights, None, Phases
    <3>7. StreamTypes' BY <3>1, <3>3, <3>5 DEF StreamTypes
    <3>8. SessionBegun' /\ StatusOfPast'
      BY <1>3, <2>1, <3>1, <3>3 DEF SessionBegun, StatusOfPast, HasStatus, Still
    <3>9. FinalIsAccepted' BY <1>3, <2>1, <3>1, <3>3 DEF FinalIsAccepted, Reported, Still
    <3>10. CopyIsSessions'
      BY <1>3, <2>1, <2>2, <3>1, <3>3, <3>5, <3>6 DEF CopyIsSessions, HasStatus, Still, Prefilter
    <3> QED BY <3>7, <3>8, <3>9, <3>10
  <2> QED BY <2>3, <2>4
<1>13. CASE SkipRecord
  <2>1. /\ spc = "record" /\ UNCHANGED <<page, retaken>> /\ spc' \in {"poll", "state"}
        /\ snap' = snap \/ snap' = NoStatus
        /\ spc' = "state" => snap' = snap
        /\ session' = [session EXCEPT !.hello = FALSE]
    BY <1>13 DEF SkipRecord, AfterRecord, EndPass
  <2>2. /\ session' \in [hello : BOOLEAN, display : Nat, begin : Nat, phase : Phases,
                         init : BOOLEAN, idx : Nat, sent : {session'.sent}, finalSeq : Nat]
        /\ session'.init = session.init /\ session'.hello = FALSE
        /\ session'.begin = session.begin
        /\ session'.idx = session.idx /\ session'.finalSeq = session.finalSeq
        /\ session'.display = session.display
    BY <2>1 DEF StreamTypes
  <2>3. StreamTypes' BY <2>1, <2>2, FreshSessionType DEF StreamTypes
  <2>4. SessionBegun' /\ StatusOfPast'
    BY <1>3, <2>1, <2>2 DEF SessionBegun, StatusOfPast, HasStatus, Still
  <2>5. FinalIsAccepted' BY <1>3, <2>1, <2>2 DEF FinalIsAccepted, Reported, Still
  <2>6. CopyIsSessions' BY <1>3, <2>1, <2>2 DEF CopyIsSessions, HasStatus, Still
  <2> QED BY <2>1, <2>3, <2>4, <2>5, <2>6
<1> QED BY <1>4, <1>5, <1>6, <1>7, <1>8, <1>9, <1>10, <1>11, <1>12, <1>13 DEF SessionStep

LEMMA StillController == ControllerInv /\ Still => ControllerInv'
BY DEF ControllerInv, ControllerTypes, BegunRecord, SeqsInOrder, Still

LEMMA RetakesNothing ==
  ASSUME MainStep \/ HttpStep, ~retaken'
  PROVE  ~retaken /\ ~Retakes
<1>1. CASE MainStep
  <2>1. retaken' = (retaken \/ Retakes) BY <1>1, Zenon DEF MainStep
  <2> QED BY <2>1, Zenon
<1>2. CASE HttpStep
  <2>1. rec' = rec /\ ~retaken BY <1>2 DEF HttpStep, SetLoaded, recorderVars
  <2> QED BY <2>1 DEF Retakes
<1> QED BY <1>1, <1>2

LEMMA StreamInvStep ==
  ASSUME StreamInv, [Next]_vars
  PROVE  StreamInv'
<1>1. CASE MainStep \/ HttpStep
  <2>1. ControllerNext /\ UNCHANGED streamVars BY <1>1 DEF MainStep, HttpStep, ControllerNext
  <2>2. ~retaken' => ~retaken /\ ~Retakes BY <1>1, RetakesNothing
  <2> QED BY <2>1, <2>2, ControllerStep, SessionInvController DEF StreamInv
<1>2. CASE Connect \/ Drop \/ SessionStep
  <2>1. Still
    BY <1>2 DEF Still, Connect, Drop, SessionStep, Poll, ReadAtomics, ReadLocked, SendState,
       SendDisplay, SendCurrent, SendBatch, SkipRecord, recorderVars, shotVars, displayVars,
       loadVars, boundVars, controllerVars
  <2> QED BY <1>2, <2>1, SessionInvStep, StillController DEF StreamInv
<1>3. CASE UNCHANGED vars
  BY <1>3 DEF vars, controllerVars, streamVars, recorderVars, shotVars, displayVars, loadVars,
     boundVars, StreamInv, ControllerInv, ControllerTypes, BegunRecord, SeqsInOrder, SessionInv,
     StreamTypes, SessionBegun, StatusOfPast, HasStatus, FinalIsAccepted, Reported,
     CopyIsSessions
<1> QED BY <1>1, <1>2, <1>3 DEF Next

LEMMA AcceptsBatch == StreamInv => NoDesync
<1> SUFFICES ASSUME StreamInv, spc = "record", SendsBatch, ~retaken
             PROVE  PageAccepts(page, accepted.seq, session.idx)
  BY DEF NoDesync
<1>1. /\ InPumpWindow(rec.phase) /\ accepted.seq = snap.accepted /\ ~session.hello
      /\ rec.begin = session.begin
  BY DEF SendsBatch, RecordIsSendable, NeedsFullRecord
<1>2. session.init BY <1>1 DEF StreamInv, SessionInv, SessionBegun, ControllerInv, BegunRecord
<1> QED BY <1>1, <1>2 DEF StreamInv, SessionInv, CopyIsSessions, FinalIsAccepted, PageAccepts

(* Whatever graduates, is loaded, replayed, abandoned or lost between the  *)
(* copies a session takes, and however often records begin at the same     *)
(* time: the page receives no sample batch it cannot append, unless a      *)
(* record has begun where the one began that the session tracks, and the   *)
(* next full record is not sent yet (_runSession, _sendRecordState;        *)
(* stream.js, SAMPLE_BATCH).                                               *)
THEOREM BatchesFit == Spec => []NoDesync
<1>1. Init => StreamInv BY ControllerInvInit, SessionInvInit DEF StreamInv
<1>2. StreamInv /\ [Next]_vars => StreamInv' BY StreamInvStep
<1>3. StreamInv => NoDesync BY AcceptsBatch
<1> QED BY <1>1, <1>2, <1>3, PTL DEF Spec

------------------------------------------------------------------------------
(* The page at rest.                                                       *)

(* A wake-up is owed: the main task will move liveSeq before it idles.     *)
Owed ==
  \/ pc \notin {"idle", "update"}
  \/ pc = "update" /\ loadedChanged

Quiet == ~woken /\ ~unheard /\ ~Owed

BoundsKept == bound \in Bounds

(* Only a replay leaves a finalized record ungraded, and what stops it     *)
(* catches up.                                                             *)
MainPlace ==
  /\ pc \in {"decode", "update"} => mode = "live"
  /\ pc = "activate" => mode = "off"
  /\ observedSeq # finishedSeq => mode = "replay" \/ pc = "reset"

(* A display that has not moved has shown nothing, and a status copy tells *)
(* whether there is a shot unless the display has moved since.             *)
Shown ==
  /\ displaySeq = 0 => page.card = NoShot /\ ~HasEffectiveLastShot
  /\ HasStatus /\ snap.has => displaySeq # 0
  /\ HasStatus /\ snap.display = displaySeq /\ pc # "decode"
       => snap.has = HasEffectiveLastShot

(* The card is the device's as long as the display cursor is; one that is  *)
(* gone leaves the page with the STATE packet that ends the pass.          *)
CardLeaves == spc \in {"record", "state"} /\ ~session.hello /\ ~snap.has
CardIsShown ==
  spc # "off" /\ Reported /\ session.display = displaySeq /\ pc # "decode"
    => CardFollowsDevice \/ CardLeaves

(* A page told of no shot has no card, until the display step of a pass    *)
(* sends one ahead of the STATE packet.                                    *)
CardIsSent ==
  spc # "off" /\ session.sent # None /\ ~session.sent.has
    => \/ page.card = NoShot
       \/ spc \in {"record", "state"} /\ ~session.hello /\ snap.has

CursorIsStatus ==
  spc = "record" \/ (spc = "state" /\ ~session.hello)
    => session.display = snap.display

StateIsSent ==
  /\ spc # "off" /\ session.sent # None => page.state = session.sent
  /\ spc = "poll" => ~session.hello
  /\ spc # "off" /\ ~session.hello => session.sent # None
  /\ spc \in {"display", "record"} /\ session.hello => session.sent = StateOf(snap)

CopyGrows ==
  /\ session.init /\ page.inflight # None => page.inflight.phase = session.phase
  /\ session.init /\ ~retaken /\ session.begin = rec.begin => session.idx <= rec.n

(* With no wake-up waiting and none owed, what the session has copied in   *)
(* this pass, and at its end what the page has, is the device's.           *)
DeviceStatus ==
  StatusWith([NoStatus EXCEPT !.active = active, !.saved = savedSeq])

CopiesCurrent ==
  /\ spc = "locked" => snap.active = active /\ snap.saved = savedSeq
  /\ HasStatus => snap = DeviceStatus
  /\ spc = "state" /\ ~session.hello => retaken \/ CurveFollowsDevice
  /\ spc = "poll" => /\ retaken \/ CurveFollowsDevice
                     /\ session.display = displaySeq
                     /\ session.sent = StateOf(DeviceStatus)

PageInv ==
  /\ Shown /\ CardIsShown /\ CardIsSent /\ CursorIsStatus /\ StateIsSent /\ CopyGrows
  /\ Quiet => CopiesCurrent

RestInv == SaveIsDue /\ BoundsKept /\ MainPlace /\ StreamInv /\ PageInv

LEMMA RestInvImplies == RestInv => RestingPageIsCurrent
<1> SUFFICES ASSUME RestInv, AtRest, ~unheard
             PROVE  StatusFollowsDevice /\ CardFollowsDevice /\ (retaken \/ CurveFollowsDevice)
  BY DEF RestingPageIsCurrent
<1>1. Quiet /\ spc = "poll" /\ pc = "idle" BY DEF AtRest, Quiet, Owed
<1>2. /\ (retaken \/ CurveFollowsDevice) /\ session.display = displaySeq
      /\ session.sent = StateOf(DeviceStatus)
  BY <1>1 DEF RestInv, PageInv, CopiesCurrent
<1>3. ~session.hello /\ session.sent # None /\ page.state = session.sent
  BY <1>1 DEF RestInv, PageInv, StateIsSent
<1>4. CardFollowsDevice
  BY <1>1, <1>2, <1>3 DEF RestInv, PageInv, CardIsShown, CardLeaves, Reported
<1> QED BY <1>2, <1>3, <1>4 DEF StatusFollowsDevice, DeviceStatus

(* What one update leaves and finalizes.                                   *)
Grown(new, r, k) ==
  \E s \in Sampled(r, k), p \in {"RUNNING", "POST_PUMP", "DONE"} : new = [s EXCEPT !.phase = p]

Finalized(shot, r, k) == \E s \in Sampled(r, k) : shot = ShotOf(s)

LEMMA UpdateOutcome ==
  ASSUME NEW r \in Records, NEW b, NEW source, NEW k, NEW next \in Updates(r, b, source, k)
  PROVE  /\ \/ next.rec = r /\ ~InPumpWindow(r.phase)
            \/ next.rec = Started(b, source)
            \/ InPumpWindow(r.phase) /\ Grown(next.rec, r, k)
         /\ next.finished = NoShot \/ Finalized(next.finished, r, k)
<1> DEFINE Went(s, p) == next = Outcome([s EXCEPT !.phase = p], NoShot)
           Done(s) == next = Outcome([s EXCEPT !.phase = "DONE"], ShotOf(s))
           Began(s) == next = Outcome(Started(b, source), ShotOf(s))
           Stays == next = Outcome(r, NoShot)
           Starts == next = Outcome(Started(b, source), NoShot)
<1>1. \/ ~InPumpWindow(r.phase) /\ (Stays \/ Starts)
      \/ /\ InPumpWindow(r.phase)
         /\ \/ \E s \in Sampled(r, k), p \in {"RUNNING", "POST_PUMP"} : Went(s, p)
            \/ \E s \in Sampled(r, k) : Done(s) \/ Began(s)
  <2>1. CASE r.phase = "IDLE" BY <2>1 DEF Updates, InPumpWindow
  <2>2. CASE r.phase = "RUNNING" BY <2>2 DEF Updates, InPumpWindow, Outcome
  <2>3. CASE r.phase = "POST_PUMP" BY <2>3 DEF Updates, InPumpWindow, Outcome, ShotOf
  <2>4. CASE r.phase = "DONE" BY <2>4 DEF Updates, InPumpWindow
  <2> QED BY <2>1, <2>2, <2>3, <2>4 DEF Records, Phases
<1>2. CASE ~InPumpWindow(r.phase) /\ Stays BY <1>2 DEF Outcome
<1>3. CASE Starts BY <1>3 DEF Outcome
<1>4. ASSUME InPumpWindow(r.phase), NEW s \in Sampled(r, k), NEW p \in {"RUNNING", "POST_PUMP"},
             Went(s, p)
      PROVE  Grown(next.rec, r, k) /\ next.finished = NoShot
  BY <1>4 DEF Outcome, Grown
<1>5. ASSUME NEW s \in Sampled(r, k), Done(s)
      PROVE  Grown(next.rec, r, k) /\ Finalized(next.finished, r, k)
  BY <1>5 DEF Outcome, Grown, Finalized
<1>6. ASSUME NEW s \in Sampled(r, k), Began(s)
      PROVE  next.rec = Started(b, source) /\ Finalized(next.finished, r, k)
  BY <1>6 DEF Outcome, Finalized
<1> HIDE DEF Went, Done, Began, Stays, Starts
<1> QED BY <1>1, <1>2, <1>3, <1>4, <1>5, <1>6

LEMMA SampledCount ==
  ASSUME NEW r \in Records, NEW k \in Nat, NEW s \in Sampled(r, k)
  PROVE  /\ s \in Records /\ s.begin = r.begin
         /\ s.n = r.n \/ (s.n = r.n + 1 /\ s.n <= k)
BY DEF Sampled, Records

(* What an update does to the record's curve: it grows, it starts over     *)
(* under the begin time of the update, or, out of the pump window, it stays*)
LEMMA UpdatedCurve ==
  ASSUME NEW r \in Records, NEW b \in Nat, NEW source \in Sources, NEW k \in Nat,
         NEW next \in Updates(r, b, source, k)
  PROVE  /\ \/ next.rec.begin = r.begin /\ next.rec.n >= r.n
            \/ next.rec.begin = b /\ next.rec.n = 0
         /\ next.rec.n \in Nat /\ (next.rec.n <= r.n \/ next.rec.n <= k)
         /\ next.rec.phase = r.phase /\ ~InPumpWindow(r.phase) => next.rec = r
         /\ \/ next.finished = NoShot
            \/ /\ next.finished.begin = r.begin /\ next.finished.n \in Nat
               /\ (next.finished.n <= r.n \/ next.finished.n <= k)
<1>1. r.n \in Nat /\ r.begin \in Nat BY DEF Records
<1>2. \/ next.finished = NoShot
      \/ /\ next.finished.begin = r.begin /\ next.finished.n \in Nat
         /\ (next.finished.n <= r.n \/ next.finished.n <= k)
  <2>1. ASSUME NEW s \in Sampled(r, k), next.finished = ShotOf(s)
        PROVE  /\ next.finished.begin = r.begin /\ next.finished.n \in Nat
               /\ (next.finished.n <= r.n \/ next.finished.n <= k)
    BY <1>1, <2>1, SampledCount DEF ShotOf
  <2> QED BY <2>1, UpdateOutcome DEF Finalized
<1>3. CASE next.rec = r /\ ~InPumpWindow(r.phase) BY <1>1, <1>2, <1>3
<1>4. CASE next.rec = Started(b, source)
  BY <1>1, <1>2, <1>4 DEF Started, InPumpWindow
<1>5. CASE InPumpWindow(r.phase) /\ Grown(next.rec, r, k)
  <2>1. PICK s \in Sampled(r, k), p \in {"RUNNING", "POST_PUMP", "DONE"} :
          next.rec = [s EXCEPT !.phase = p]
    BY <1>5 DEF Grown
  <2>2. /\ s \in Records /\ s.begin = r.begin
        /\ s.n = r.n \/ (s.n = r.n + 1 /\ s.n <= k)
    BY SampledCount
  <2>3. next.rec.begin = s.begin /\ next.rec.n = s.n BY <2>1, <2>2 DEF Records
  <2>4. InPumpWindow(r.phase) BY <1>5
  <2>5. /\ next.rec.begin = r.begin /\ next.rec.n >= r.n
        /\ next.rec.n \in Nat /\ (next.rec.n <= r.n \/ next.rec.n <= k)
    BY <1>1, <2>2, <2>3
  <2> QED BY <1>2, <2>4, <2>5
<1> QED BY <1>3, <1>4, <1>5, UpdateOutcome

(* What one step of the main task or of the HTTP task does to what the     *)
(* session copies.  The display moves with the shot that is shown, a record*)
(* only grows under its begin time, and nothing the page shows changes     *)
(* without a wake-up but what a failed load takes away.                    *)
DisplayMoves ==
  \/ displaySeq' > displaySeq
  \/ /\ pc' = "decode" /\ displaySeq' = displaySeq /\ accepted' = accepted
     /\ hasLoaded' => hasLoaded
  \/ pc # "decode" /\ UNCHANGED <<displaySeq, loaded, hasLoaded>> /\ accepted' = accepted

CurveGrows == rec'.begin = rec.begin /\ rec.begin # 0 => rec'.n >= rec.n

Same == /\ UNCHANGED <<active, savedSeq, rec, loaded, hasLoaded, displaySeq>>
        /\ accepted' = accepted

Wakes == Quiet' => Quiet /\ Same

LEMMA MainPlaceStep ==
  ASSUME MainPlace, ControllerNext
  PROVE  MainPlace'
<1> USE DEF recorderVars, shotVars, displayVars, loadVars, wakeVars, boundVars, MainPlace
<1>1. CASE BeginSession \/ Activate \/ Deactivate BY <1>1 DEF BeginSession, Activate, Deactivate
<1>2. CASE ExitReset \/ StartReplay \/ StopReplay
  BY <1>2 DEF ExitReset, StartReplay, StopReplay, ResetInFlight
<1>3. CASE ReplayTick BY <1>3 DEF ReplayTick
<1>4. CASE ClearFinished \/ SetLoaded BY <1>4 DEF ClearFinished, SetLoaded
<1>5. CASE Tick \/ Decode BY <1>5 DEF Tick, Decode
<1>6. CASE Update
  <2>1. /\ observedSeq' = finishedSeq' /\ mode' = mode
        /\ \E wake : pc' = AfterUpdate(wake)
    BY <1>6 DEF Update, Observe
  <2> QED BY <2>1 DEF AfterUpdate
<1>7. CASE Bump \/ BumpSaved \/ Save \/ MarkSaved BY <1>7 DEF Bump, BumpSaved, Save, MarkSaved
<1> QED BY <1>1, <1>2, <1>3, <1>4, <1>5, <1>6, <1>7 DEF ControllerNext, MainNext, TickSteps

(* A step that leaves the shown shot alone and ends with a wake-up owed.   *)
LEMMA OwedAside ==
  ASSUME ControllerInv, UNCHANGED <<displaySeq, loaded, hasLoaded, woken, unheard>>, accepted' = accepted,
         rec' = rec \/ rec' = Cleared, pc # "decode", pc' \notin {"idle", "update"}
  PROVE  DisplayMoves /\ CurveGrows /\ Wakes
<1>1. Cleared.begin = 0 BY DEF Cleared
<1>2. rec.n \in Nat BY DEF ControllerInv, ControllerTypes, Records
<1> QED BY <1>1, <1>2 DEF DisplayMoves, CurveGrows, Wakes, Quiet, Owed

LEMMA ControllerMoves ==
  ASSUME SaveIsDue, ControllerInv, BoundsKept, MainPlace, ControllerNext
  PROVE  DisplayMoves /\ CurveGrows /\ Wakes
<1> USE DEF recorderVars, shotVars, displayVars, loadVars, wakeVars, boundVars
<1>0. /\ rec \in Records /\ rec.n \in Nat /\ rec.begin \in Nat /\ rec.begin <= begins
      /\ begins \in Nat /\ begins + 1 \in Nat /\ displaySeq \in Nat
      /\ bound.samples \in Nat
  BY ControllerConstants DEF BoundsKept, ControllerInv, ControllerTypes, BegunRecord, Records
<1>1. CASE BeginSession \/ Activate \/ Deactivate
  BY <1>1, OwedAside DEF BeginSession, Activate, Deactivate
<1>2. CASE ExitReset \/ StartReplay \/ StopReplay
  BY <1>2, OwedAside DEF ExitReset, StartReplay, StopReplay, ResetInFlight
<1>3. CASE ClearFinished \/ Save \/ MarkSaved
  BY <1>3, OwedAside DEF ClearFinished, Save, MarkSaved
<1>4. CASE Bump \/ BumpSaved
  BY <1>0, <1>4 DEF Bump, BumpSaved, DisplayMoves, CurveGrows, Wakes, Quiet
<1>5. CASE SetLoaded
  BY <1>0, <1>5 DEF SetLoaded, DisplayMoves, CurveGrows, Wakes, Quiet, Owed, Same,
                    HasEffectiveLastShot
<1>6. CASE Tick
  BY <1>0, <1>6 DEF Tick, DisplayMoves, CurveGrows, Wakes, Quiet, Owed, Same,
                    HasEffectiveLastShot
<1>7. CASE Decode
  <2>1. displaySeq' = displaySeq + 1 /\ rec' = rec /\ pc' = "update"
    BY <1>7 DEF Decode, ClearLoadedShot
  <2>2. loadedChanged' = TRUE \/ unheard' = TRUE BY <1>7 DEF Decode
  <2>3. DisplayMoves BY <1>0, <2>1 DEF DisplayMoves
  <2>4. CurveGrows BY <1>0, <2>1 DEF CurveGrows
  <2>5. ~Quiet' BY <2>1, <2>2 DEF Quiet, Owed
  <2> QED BY <2>3, <2>4, <2>5 DEF Wakes
<1>8. CASE ReplayTick
  <2>1. PICK begin \in rec.begin + 1 .. begins + 1 :
          \E next \in NextOf("replay", begin) : rec' = next.rec
    BY <1>8 DEF ReplayTick
  <2> PICK next \in NextOf("replay", begin) : rec' = next.rec BY <2>1
  <2>2. CurveGrows
    <3>1. begin \in Nat /\ begin # rec.begin BY <1>0
    <3> QED BY <1>0, <3>1, UpdatedCurve DEF NextOf, Sources, CurveGrows
  <2>3. /\ UNCHANGED <<displaySeq, loaded, hasLoaded>> /\ accepted' = accepted
        /\ pc = "idle" /\ pc' = "bump"
    BY <1>8 DEF ReplayTick
  <2> QED BY <2>2, <2>3 DEF DisplayMoves, Wakes, Quiet, Owed
<1>9. CASE Update
  <2>1. PICK next \in NextOf("live", begins + 1), real \in BOOLEAN, fresh \in BOOLEAN :
          /\ RecordFinish(next) /\ Observe(real)
          /\ rec' = IF Rejects(real) /\ next.rec.phase = "DONE" THEN Cleared ELSE next.rec
          /\ IF Graduates(real) THEN ClearLoadedShot ELSE UNCHANGED displayVars
          /\ pc' = AfterUpdate(FrameNeeded(fresh))
    BY <1>9 DEF Update
  <2>2. UNCHANGED <<active, savedSeq, attemptedSeq, woken, unheard>> /\ pc = "update"
    BY <1>9 DEF Update
  <2>3. pc' \in {"bump", "save", "idle"} BY <2>1 DEF AfterUpdate
  <2>4. /\ (next.rec.begin = rec.begin /\ next.rec.n >= rec.n) \/ next.rec.begin = begins + 1
        /\ next.rec.phase = rec.phase /\ ~InPumpWindow(rec.phase) => next.rec = rec
    BY <1>0, <2>1, UpdatedCurve DEF NextOf, Sources
  <2>5. CurveGrows BY <1>0, <2>1, <2>4 DEF CurveGrows, Cleared
  <2>6. DisplayMoves
    <3>1. CASE Graduates(real)
      <4>1. displaySeq' = displaySeq + 1 BY <2>1, <3>1 DEF ClearLoadedShot
      <4> QED BY <1>0, <4>1 DEF DisplayMoves
    <3>2. CASE ~Graduates(real)
      <4>1. UNCHANGED displayVars /\ accepted' = accepted BY <2>1, <3>2 DEF Observe
      <4> QED BY <2>2, <4>1 DEF DisplayMoves
    <3> QED BY <3>1, <3>2
  <2>7. Wakes
    <3> SUFFICES ASSUME Quiet' PROVE Quiet /\ Same BY DEF Wakes
    <3>1. pc' = "idle" /\ ~woken /\ ~unheard BY <2>2, <2>3 DEF Quiet, Owed
    <3>2. ~FrameNeeded(fresh) BY <2>1, <3>1 DEF AfterUpdate
    <3>3. /\ ~InPumpWindow(rec'.phase) /\ rec'.phase = rec.phase
          /\ finishedSeq' = finishedSeq /\ ~loadedChanged
      BY <3>2 DEF FrameNeeded
    <3>4. finishedSeq = observedSeq BY <2>2 DEF MainPlace
    <3>5. ~Graduates(real) /\ ~Rejects(real) BY <3>3, <3>4 DEF Graduates, Rejects
    <3>6. UNCHANGED displayVars /\ accepted' = accepted /\ rec' = next.rec
      BY <2>1, <3>5 DEF Observe
    <3>7. rec' = rec BY <2>4, <3>3, <3>6 DEF InPumpWindow
    <3> QED BY <2>2, <3>1, <3>3, <3>6, <3>7 DEF Quiet, Owed, Same
  <2> QED BY <2>5, <2>6, <2>7
<1> QED BY <1>1, <1>2, <1>3, <1>4, <1>5, <1>6, <1>7, <1>8, <1>9
        DEF ControllerNext, MainNext, TickSteps

LEMMA PageInvController ==
  ASSUME StreamInv, PageInv, ControllerInv', DisplayMoves, CurveGrows, Wakes,
         UNCHANGED streamVars, ~retaken' => ~retaken /\ ~Retakes
  PROVE  PageInv'
<1> USE DEF streamVars, PageInv
<1>1. /\ begins \in Nat /\ rec.begin \in Nat /\ rec'.begin \in Nat /\ rec.n \in Nat
      /\ rec'.n \in Nat /\ displaySeq \in Nat /\ displaySeq' \in Nat
  BY DEF StreamInv, ControllerInv, ControllerTypes, Records
<1>2. /\ session.begin \in Nat /\ session.idx \in Nat /\ session.display \in Nat
      /\ snap.display \in Nat
  BY DEF StreamInv, SessionInv, StreamTypes, Statuses
<1>3. /\ HasStatus => snap.display <= displaySeq
      /\ session.display <= displaySeq
      /\ session.init => session.begin # 0 /\ session.begin <= begins
  BY DEF StreamInv, SessionInv, StatusOfPast, FinalIsAccepted, SessionBegun
<1>4. Shown'
  BY <1>1, <1>2, <1>3 DEF Shown, DisplayMoves, HasEffectiveLastShot, HasStatus
<1>5. CardIsShown'
  BY <1>1, <1>2, <1>3
     DEF CardIsShown, CardLeaves, DisplayMoves, CardFollowsDevice, HasEffectiveLastShot,
         EffectiveLastShot, Reported
<1>6. CursorIsStatus' /\ StateIsSent' /\ CardIsSent'
  BY DEF CursorIsStatus, StateIsSent, CardIsSent
<1>7. CopyGrows' BY <1>1, <1>2, <1>3 DEF CopyGrows, Retakes, CurveGrows
<1>8. Quiet' => CopiesCurrent'
  BY DEF Wakes, Same, CopiesCurrent, HasStatus, DeviceStatus, StatusWith, HasEffectiveLastShot,
         CurveFollowsDevice
<1> QED BY <1>4, <1>5, <1>6, <1>7, <1>8

(* What the session's steps leave alone of the device.                     *)
DeviceStill == Same /\ UNCHANGED <<pc, loadedChanged>>

LEMMA SessionLeavesDevice ==
  ASSUME Connect \/ Drop \/ SessionStep
  PROVE  /\ DeviceStill
         /\ Connect \/ Poll \/ UNCHANGED <<woken, unheard>>
<1> USE DEF recorderVars, shotVars, displayVars, loadVars, wakeVars, boundVars, controllerVars, DeviceStill,
            Same
<1>1. CASE Connect \/ Poll BY <1>1 DEF Connect, Poll
<1>2. CASE Drop \/ ReadAtomics \/ ReadLocked BY <1>2 DEF Drop, ReadAtomics, ReadLocked
<1>3. CASE SendState \/ SendDisplay \/ SendCurrent
  BY <1>3 DEF SendState, SendDisplay, SendCurrent
<1>4. CASE SendBatch \/ SkipRecord BY <1>4 DEF SendBatch, SkipRecord
<1> QED BY <1>1, <1>2, <1>3, <1>4 DEF SessionStep

LEMMA DeviceReads ==
  ASSUME DeviceStill
  PROVE  /\ HasEffectiveLastShot' = HasEffectiveLastShot
         /\ EffectiveLastShot' = EffectiveLastShot
         /\ DeviceStatus' = DeviceStatus /\ Owed' = Owed
BY DEF DeviceStill, Same, HasEffectiveLastShot, EffectiveLastShot, DeviceStatus, StatusWith, Owed

(* A new session has sent nothing, and a lost one is not looked at.        *)
LEMMA PageInvFresh ==
  ASSUME PageInv, DeviceStill, session' = FreshSession, page'.card = page.card,
         spc' \in {"off", "atomics"}
  PROVE  PageInv'
<1>1. Shown' BY DeviceReads DEF PageInv, DeviceStill, Same, Shown, HasStatus
<1>2. FreshSession.hello /\ ~FreshSession.init /\ FreshSession.sent = None
  BY DEF FreshSession
<1>3. CardIsShown' BY <1>2 DEF CardIsShown, Reported
<1>4. CursorIsStatus' /\ StateIsSent' /\ CardIsSent' /\ CopyGrows'
  BY <1>2 DEF CursorIsStatus, StateIsSent, CardIsSent, CopyGrows
<1>5. CopiesCurrent' BY DEF CopiesCurrent, HasStatus
<1> QED BY <1>1, <1>3, <1>4, <1>5 DEF PageInv

LEMMA PageInvReads ==
  ASSUME StreamInv, PageInv, DeviceStill, Poll \/ ReadAtomics \/ ReadLocked
  PROVE  PageInv'
<1>1. session' = session /\ page' = page /\ UNCHANGED retaken
  BY DEF Poll, ReadAtomics, ReadLocked
<1>2. snap \in Statuses BY DEF StreamInv, SessionInv, StreamTypes
<1>3. CASE Poll
  <2>1. spc = "poll" /\ spc' = "atomics" BY <1>3 DEF Poll
  <2>2. Shown' BY <2>1, <1>1, DeviceReads DEF PageInv, DeviceStill, Same, Shown, HasStatus
  <2>3. CardIsShown'
    BY <2>1, <1>1, DeviceReads
       DEF PageInv, DeviceStill, Same, CardIsShown, CardLeaves, Reported, CardFollowsDevice
  <2>4. CursorIsStatus' /\ StateIsSent' /\ CardIsSent' /\ CopyGrows'
    BY <2>1, <1>1 DEF PageInv, DeviceStill, Same, CursorIsStatus, StateIsSent, CardIsSent, CopyGrows
  <2>5. CopiesCurrent' BY <2>1 DEF CopiesCurrent, HasStatus
  <2> QED BY <2>2, <2>3, <2>4, <2>5 DEF PageInv
<1>4. CASE ReadAtomics
  <2>1. /\ spc = "atomics" /\ spc' = "locked" /\ UNCHANGED <<woken, unheard>>
        /\ snap'.active = active /\ snap'.saved = savedSeq
    BY <1>2, <1>4 DEF ReadAtomics, Statuses, controllerVars, wakeVars
  <2>2. Shown' BY <2>1, <1>1, DeviceReads DEF PageInv, DeviceStill, Same, Shown, HasStatus
  <2>3. CardIsShown'
    BY <2>1, <1>1, DeviceReads
       DEF PageInv, DeviceStill, Same, CardIsShown, CardLeaves, Reported, CardFollowsDevice
  <2>4. CursorIsStatus' /\ StateIsSent' /\ CardIsSent' /\ CopyGrows'
    BY <2>1, <1>1 DEF PageInv, DeviceStill, Same, CursorIsStatus, StateIsSent, CardIsSent, CopyGrows
  <2>5. CopiesCurrent' BY <2>1 DEF CopiesCurrent, HasStatus, DeviceStill, Same
  <2> QED BY <2>2, <2>3, <2>4, <2>5 DEF PageInv
<1>5. CASE ReadLocked
  <2>1. /\ spc = "locked" /\ snap' = StatusWith(snap) /\ UNCHANGED <<woken, unheard>>
        /\ spc' = IF session.hello THEN "state" ELSE "display"
    BY <1>5 DEF ReadLocked, controllerVars, wakeVars
  <2>2. snap'.has = HasEffectiveLastShot /\ snap'.display = displaySeq
    BY <1>2, <2>1 DEF StatusWith, Statuses
  <2>3. Shown' BY <2>1, <2>2, <1>1, DeviceReads DEF PageInv, DeviceStill, Same, Shown, HasStatus
  <2>4. CardIsShown'
    BY <2>1, <1>1, DeviceReads
       DEF PageInv, DeviceStill, Same, CardIsShown, CardLeaves, Reported, CardFollowsDevice
  <2>5. CursorIsStatus' /\ StateIsSent' /\ CardIsSent' /\ CopyGrows'
    BY <2>1, <1>1 DEF PageInv, DeviceStill, Same, CursorIsStatus, StateIsSent, CardIsSent, CopyGrows
  <2>6. Quiet' => CopiesCurrent'
    <3> SUFFICES ASSUME Quiet' PROVE snap' = DeviceStatus'
      BY <2>1, <1>1 DEF CopiesCurrent
    <3>1. Quiet BY <2>1, DeviceReads DEF Quiet
    <3>2. snap.active = active /\ snap.saved = savedSeq
      BY <2>1, <3>1 DEF PageInv, CopiesCurrent
    <3>3. StatusWith(snap) = DeviceStatus
      BY <1>2, <3>2 DEF DeviceStatus, StatusWith, NoStatus, Statuses
    <3> QED BY <2>1, <3>3, DeviceReads
  <2> QED BY <2>3, <2>4, <2>5, <2>6 DEF PageInv
<1> QED BY <1>3, <1>4, <1>5

LEMMA PageInvState ==
  ASSUME StreamInv, PageInv, DeviceStill, SendState
  PROVE  PageInv'
<1> DEFINE hello == session.hello
<1>1. /\ snap \in Statuses /\ displaySeq \in Nat
      /\ session \in [hello : BOOLEAN, display : Nat, begin : Nat, phase : Phases,
                      init : BOOLEAN, idx : Nat, sent : {session.sent}, finalSeq : Nat]
      /\ page \in [state : {page.state}, inflight : Inflights \cup {None}, card : {page.card}]
  BY DEF StreamInv, SessionInv, StreamTypes, ControllerInv, ControllerTypes
<1>2. /\ spc = "state" /\ UNCHANGED <<woken, unheard, retaken>>
      /\ \/ hello /\ spc' = "display" /\ snap' = snap
         \/ ~hello /\ spc' = "poll"
  BY DEF SendState, EndPass, controllerVars, wakeVars
<1>3. StateOf(snap) # None BY <1>1 DEF StateOf, None, Statuses, Phases
<1>4. /\ session'.sent = StateOf(snap) /\ page'.state = StateOf(snap)
      /\ session'.hello = hello /\ session'.init = session.init
      /\ session'.display = session.display /\ session'.begin = session.begin
      /\ session'.idx = session.idx /\ session'.phase = session.phase
      /\ page'.inflight = page.inflight \/ (page'.inflight = None /\ snap.phase = "IDLE")
      /\ page'.card = IF snap.has THEN page.card ELSE NoShot
  <2>1. CASE StateShouldSend
    <3>1. /\ page' = PageOnState(page, StateOf(snap))
          /\ session' = [session EXCEPT !.sent = StateOf(snap)]
      BY <2>1 DEF SendState
    <3> QED BY <1>1, <3>1 DEF PageOnState, StateOf
  <2>2. CASE ~StateShouldSend
    <3>1. session.sent = StateOf(snap) /\ UNCHANGED <<page, session>> /\ ~hello
      BY <2>2 DEF SendState, StateShouldSend
    <3>2. session.sent.has = snap.has BY <3>1 DEF StateOf
    <3>3. ~snap.has => page.card = NoShot BY <1>2, <1>3, <3>1, <3>2 DEF PageInv, CardIsSent
    <3> QED BY <1>2, <1>3, <3>1, <3>3 DEF PageInv, StateIsSent
  <2> QED BY <2>1, <2>2
<1>5. Shown'
  BY <1>2, <1>4, DeviceReads DEF PageInv, DeviceStill, Same, Shown, HasStatus
<1>6. CardIsShown'
  <2> SUFFICES ASSUME ~hello, session.display = displaySeq, pc # "decode"
               PROVE  CardFollowsDevice'
    BY <1>2, <1>4 DEF CardIsShown, Reported, DeviceStill, Same
  <2>1. CardFollowsDevice \/ ~snap.has BY <1>2 DEF PageInv, CardIsShown, CardLeaves, Reported
  <2>2. snap.display = displaySeq BY <1>2 DEF PageInv, CursorIsStatus
  <2>3. snap.has = HasEffectiveLastShot BY <1>2, <2>2 DEF PageInv, Shown, HasStatus
  <2> QED BY <1>4, <2>1, <2>3, DeviceReads DEF CardFollowsDevice
<1>7. CursorIsStatus' /\ CardIsSent' BY <1>2, <1>4 DEF CursorIsStatus, CardIsSent, StateOf
<1>8. StateIsSent' BY <1>2, <1>3, <1>4 DEF StateIsSent, StateOf
<1>9. CopyGrows' BY <1>2, <1>4 DEF PageInv, CopyGrows, DeviceStill, Same
<1>10. Quiet' => CopiesCurrent'
  <2> SUFFICES ASSUME Quiet' PROVE CopiesCurrent' OBVIOUS
  <2>1. Quiet BY <1>2, DeviceReads DEF Quiet
  <2>2. snap = DeviceStatus BY <1>2, <2>1 DEF PageInv, CopiesCurrent, HasStatus
  <2>3. snap.phase = rec.phase /\ snap.display = displaySeq
    BY <1>1, <2>2 DEF DeviceStatus, StatusWith, NoStatus
  <2>4. CASE hello BY <1>2, <2>2, <2>4, DeviceReads DEF CopiesCurrent
  <2>5. CASE ~hello
    <3>1. spc' = "poll" BY <1>2, <2>5
    <3>2. retaken \/ CurveFollowsDevice BY <1>2, <2>1, <2>5 DEF PageInv, CopiesCurrent
    <3>3. retaken' \/ CurveFollowsDevice'
      BY <1>2, <1>4, <2>3, <3>2 DEF CurveFollowsDevice, DeviceStill, Same, InPumpWindow
    <3>4. session'.display = displaySeq'
      BY <1>2, <1>4, <2>3, <2>5 DEF PageInv, CursorIsStatus, DeviceStill, Same
    <3>5. session'.sent = StateOf(DeviceStatus') BY <1>4, <2>2, DeviceReads
    <3> QED BY <3>1, <3>3, <3>4, <3>5 DEF CopiesCurrent, HasStatus
  <2> QED BY <2>4, <2>5
<1> QED BY <1>5, <1>6, <1>7, <1>8, <1>9, <1>10 DEF PageInv

LEMMA PageInvDisplay ==
  ASSUME StreamInv, PageInv, DeviceStill, SendDisplay
  PROVE  PageInv'
<1>1. /\ snap \in Statuses /\ displaySeq \in Nat
      /\ session \in [hello : BOOLEAN, display : Nat, begin : Nat, phase : Phases,
                      init : BOOLEAN, idx : Nat, sent : {session.sent}, finalSeq : Nat]
      /\ page \in [state : {page.state}, inflight : Inflights \cup {None}, card : {page.card}]
  BY DEF StreamInv, SessionInv, StreamTypes, ControllerInv, ControllerTypes
<1>2. spc = "display" /\ spc' = "record" /\ snap' = snap /\ UNCHANGED <<woken, unheard>>
  BY DEF SendDisplay, controllerVars, wakeVars
<1> DEFINE Sends == session.hello \/ snap.display # session.display
<1>3. /\ session'.sent = session.sent /\ session'.hello = session.hello
      /\ session'.display = snap.display
      /\ \/ session'.init = FALSE
         \/ UNCHANGED <<session, page>> /\ ~Sends /\ (~retaken' => ~retaken)
      /\ page'.state = page.state
      /\ page'.card = IF Sends /\ snap.has THEN EffectiveLastShot ELSE page.card
  <2>1. CASE Sends /\ snap.has
    <3>1. /\ page' = PageOnFinal(page, EffectiveLastShot, accepted.seq)
          /\ session' = DisplayReported(snap, accepted.seq)
      BY <2>1 DEF SendDisplay
    <3> QED BY <1>1, <2>1, <3>1 DEF PageOnFinal, DisplayReported
  <2>2. CASE Sends /\ ~snap.has
    <3>1. page' = page /\ session' = DisplayReported(snap, session.finalSeq)
      BY <2>2 DEF SendDisplay
    <3> QED BY <1>1, <2>2, <3>1 DEF DisplayReported
  <2>3. CASE ~Sends
    <3>1. UNCHANGED <<session, page>> BY <2>3 DEF SendDisplay
    <3>2. ~retaken' => ~retaken BY <3>1 DEF SendDisplay
    <3> QED BY <2>3, <3>1, <3>2
  <2> QED BY <2>1, <2>2, <2>3
<1>4. Shown'
  BY <1>2, <1>3, DeviceReads DEF PageInv, DeviceStill, Same, Shown, HasStatus
<1>5a. session.hello => session.sent # None /\ session.sent.has = snap.has
  <2>1. session.hello => session.sent = StateOf(snap) BY <1>2 DEF PageInv, StateIsSent
  <2>2. StateOf(snap) # None BY DEF StateOf, None
  <2> QED BY <2>1, <2>2 DEF StateOf
<1>5. CardIsShown'
  <2> SUFFICES ASSUME snap.display = displaySeq, pc # "decode", session.hello \/ snap.has
               PROVE  CardFollowsDevice'
    BY <1>2, <1>3 DEF CardIsShown, CardLeaves, DeviceStill, Same
  <2>1. snap.has = HasEffectiveLastShot BY <1>2 DEF PageInv, Shown, HasStatus
  <2>2. CASE Sends /\ snap.has
    BY <1>3, <2>1, <2>2, DeviceReads DEF CardFollowsDevice
  <2>3. CASE Sends /\ ~snap.has
    <3>1. page.card = NoShot BY <1>2, <1>5a, <2>3 DEF PageInv, CardIsSent
    <3> QED BY <1>3, <2>1, <2>3, <3>1, DeviceReads DEF CardFollowsDevice
  <2>4. CASE ~Sends
    <3>1. CardFollowsDevice BY <1>2, <2>4 DEF PageInv, CardIsShown, CardLeaves, Reported
    <3> QED BY <1>3, <2>4, <3>1, DeviceReads DEF CardFollowsDevice
  <2> QED BY <2>2, <2>3, <2>4
<1>6. CursorIsStatus' /\ CardIsSent'
  BY <1>2, <1>3, <1>5a DEF PageInv, CursorIsStatus, CardIsSent
<1>7. StateIsSent' BY <1>2, <1>3 DEF PageInv, StateIsSent
<1>8. CopyGrows' BY <1>3 DEF PageInv, CopyGrows, DeviceStill, Same
<1>9. Quiet' => CopiesCurrent'
  BY <1>2, DeviceReads DEF PageInv, CopiesCurrent, Quiet, HasStatus
<1> QED BY <1>4, <1>5, <1>6, <1>7, <1>8, <1>9 DEF PageInv

(* The end of the record step, whatever was sent: the page's status and its*)
(* card stay, and its curve is the device's if the status copy still is.   *)
LEMMA PageInvRecord ==
  ASSUME PageInv, DeviceStill, spc = "record", UNCHANGED <<woken, unheard>>,
         session'.hello = FALSE, session'.display = session.display,
         session'.sent = session.sent, page'.state = page.state, page'.card = page.card,
         \/ spc' = "poll" /\ session.hello
         \/ spc' = "state" /\ snap' = snap /\ ~session.hello,
         CopyGrows', Quiet /\ snap = DeviceStatus => retaken' \/ CurveFollowsDevice'
  PROVE  PageInv'
<1>1. Shown' BY DeviceReads DEF PageInv, DeviceStill, Same, Shown, HasStatus
<1>2. CardIsShown'
  BY DeviceReads
     DEF PageInv, DeviceStill, Same, CardIsShown, CardLeaves, Reported, CardFollowsDevice
<1>3. CursorIsStatus' /\ CardIsSent' BY DEF PageInv, CursorIsStatus, CardIsSent
<1>4. session.sent # None /\ (session.hello => session.sent = StateOf(snap))
  <2>1. session.hello => session.sent = StateOf(snap) BY DEF PageInv, StateIsSent
  <2>2. StateOf(snap) # None BY DEF StateOf, None
  <2> QED BY <2>1, <2>2 DEF PageInv, StateIsSent
<1>5. StateIsSent' BY <1>4 DEF PageInv, StateIsSent
<1>6. Quiet' => CopiesCurrent'
  <2> SUFFICES ASSUME Quiet' PROVE CopiesCurrent' OBVIOUS
  <2>1. Quiet BY DeviceReads DEF Quiet
  <2>2. snap = DeviceStatus BY <2>1 DEF PageInv, CopiesCurrent, HasStatus
  <2>3. retaken' \/ CurveFollowsDevice' BY <2>1, <2>2
  <2>4. session.display = displaySeq
    BY <2>2 DEF PageInv, CursorIsStatus, DeviceStatus, StatusWith, NoStatus
  <2> QED BY <1>4, <2>2, <2>3, <2>4, DeviceReads DEF CopiesCurrent, HasStatus, DeviceStill, Same
<1> QED BY <1>1, <1>2, <1>3, <1>5, <1>6 DEF PageInv

LEMMA PageInvSends ==
  ASSUME StreamInv, PageInv, DeviceStill, SendCurrent \/ SendBatch \/ SkipRecord
  PROVE  PageInv'
<1>1. /\ rec \in Records /\ rec.n \in Nat /\ session.idx \in Nat
      /\ session \in [hello : BOOLEAN, display : Nat, begin : Nat, phase : Phases,
                      init : BOOLEAN, idx : Nat, sent : {session.sent}, finalSeq : Nat]
      /\ page \in [state : {page.state}, inflight : Inflights \cup {None}, card : {page.card}]
      /\ rec' = rec /\ active' = active
  BY DEF StreamInv, SessionInv, StreamTypes, ControllerInv, ControllerTypes, Records,
         DeviceStill, Same
<1>2. /\ InPumpWindow(rec.phase) => rec.begin # 0
      /\ session.init => session.begin # 0 /\ ~session.hello
      /\ ~session.init => session.begin = 0
  BY DEF StreamInv, SessionInv, ControllerInv, BegunRecord, SessionBegun
<1>3. /\ session.init /\ page.inflight # None => page.inflight.phase = session.phase
      /\ session.init /\ ~retaken =>
           /\ page.inflight # None
                => /\ page.inflight.begin = session.begin /\ page.inflight.n = session.idx
                   /\ page.inflight.seq = session.finalSeq
           /\ page.inflight = None => rec.begin # session.begin
           /\ session.begin = rec.begin => session.idx <= rec.n
  BY DEF StreamInv, SessionInv, CopyIsSessions, PageInv, CopyGrows
<1>4. CASE SendCurrent
  <2>1. /\ spc = "record" /\ UNCHANGED <<woken, unheard>>
        /\ session' = [RecordSent EXCEPT !.hello = FALSE]
        /\ page' = PageOnCurrent(page, rec, accepted.seq)
        /\ \/ spc' = "poll" /\ session.hello
           \/ spc' = "state" /\ snap' = snap /\ ~session.hello
    BY <1>4 DEF SendCurrent, AfterRecord, EndPass, controllerVars, wakeVars
  <2>2. /\ session'.hello = FALSE /\ session'.display = session.display
        /\ session'.sent = session.sent /\ session'.phase = rec.phase
        /\ session'.begin = rec.begin /\ session'.idx = rec.n
    BY <1>1, <2>1 DEF RecordSent
  <2>3. /\ page'.state = page.state /\ page'.card = page.card
        /\ page'.inflight = [phase |-> rec.phase, begin |-> rec.begin, n |-> rec.n,
                             seq |-> accepted.seq, spliced |-> FALSE]
    BY <1>1, <2>1 DEF PageOnCurrent
  <2>4. page'.inflight # None BY <2>3 DEF None
  <2>5. CopyGrows' BY <1>1, <2>2, <2>3 DEF CopyGrows
  <2>6. CurveFollowsDevice' BY <1>1, <2>3, <2>4 DEF CurveFollowsDevice
  <2> QED BY <2>1, <2>2, <2>3, <2>5, <2>6, PageInvRecord
<1>5. CASE SendBatch /\ ~PageAccepts(page, accepted.seq, session.idx)
  <2>1. session' = FreshSession /\ spc' = "off" /\ page' = PageOnResync(page)
    BY <1>5 DEF SendBatch, EndSession
  <2>2. page'.card = page.card BY <1>1, <2>1 DEF PageOnResync
  <2> QED BY <2>1, <2>2, PageInvFresh
<1>6. CASE SendBatch /\ PageAccepts(page, accepted.seq, session.idx)
  <2>1. /\ spc = "record" /\ UNCHANGED <<woken, unheard, retaken>> /\ SendsBatch
        /\ InPumpWindow(rec.phase) /\ ~session.hello /\ rec.begin = session.begin
        /\ session.init => rec.phase = session.phase
        /\ page' = PageOnBatch(page, rec) /\ session' = [session EXCEPT !.idx = rec.n]
        /\ spc' = "state" /\ snap' = snap
    BY <1>6 DEF SendBatch, SendsBatch, RecordIsSendable, NeedsFullRecord, AfterRecord,
                controllerVars, wakeVars
  <2>2. session.init /\ page.inflight # None BY <1>2, <1>6, <2>1 DEF PageAccepts
  <2>3. page.inflight \in Inflights BY <1>1, <2>2
  <2>4. /\ page'.state = page.state /\ page'.card = page.card
        /\ page'.inflight \in Inflights
        /\ page'.inflight.begin = page.inflight.begin /\ page'.inflight.n = rec.n
        /\ page'.inflight.phase = page.inflight.phase
    BY <1>1, <2>1, <2>3 DEF PageOnBatch, Inflights
  <2>5. /\ session'.hello = FALSE /\ session'.display = session.display
        /\ session'.sent = session.sent /\ session'.phase = session.phase
        /\ session'.begin = session.begin /\ session'.idx = rec.n
    BY <1>1, <2>1
  <2>6. page'.inflight # None BY <2>4 DEF Inflights, None, Phases
  <2>7. CopyGrows' BY <1>1, <1>3, <2>2, <2>4, <2>5 DEF CopyGrows
  <2>8. retaken' \/ CurveFollowsDevice'
    BY <1>1, <1>3, <2>1, <2>2, <2>4, <2>6 DEF CurveFollowsDevice
  <2> QED BY <2>1, <2>4, <2>5, <2>7, <2>8, PageInvRecord
<1>7. CASE SkipRecord
  <2>1. /\ spc = "record" /\ UNCHANGED <<woken, unheard, page, retaken>>
        /\ session' = [session EXCEPT !.hello = FALSE]
        /\ \/ spc' = "poll" /\ session.hello
           \/ spc' = "state" /\ snap' = snap /\ ~session.hello
    BY <1>7 DEF SkipRecord, AfterRecord, EndPass, controllerVars, wakeVars
  <2>2. /\ session'.hello = FALSE /\ session'.display = session.display
        /\ session'.sent = session.sent /\ session'.phase = session.phase
        /\ session'.begin = session.begin /\ session'.idx = session.idx
        /\ session'.init = session.init
    BY <1>1, <2>1
  <2>3. CopyGrows' BY <1>1, <2>1, <2>2 DEF PageInv, CopyGrows
  <2>4. ASSUME snap = DeviceStatus PROVE retaken' \/ CurveFollowsDevice'
    <3> SUFFICES ASSUME ~retaken, active, InPumpWindow(rec.phase)
                 PROVE  /\ page.inflight # None
                        /\ page.inflight.begin = rec.begin /\ page.inflight.n = rec.n
                        /\ page.inflight.phase = rec.phase
      BY <1>1, <2>1 DEF CurveFollowsDevice
    <3>1. /\ snap.active = active /\ snap.phase = rec.phase /\ snap.begin = rec.begin
          /\ snap.n = rec.n /\ snap.accepted = accepted.seq
      BY <2>4 DEF DeviceStatus, StatusWith, NoStatus
    <3>2. RecordIsSendable /\ rec.phase # "IDLE" BY <3>1 DEF RecordIsSendable, InPumpWindow
    <3>3. NeedsFullRecord => Prefilter
      BY <3>1, <3>2 DEF NeedsFullRecord, Prefilter
    <3>4. ~NeedsFullRecord BY <1>7, <3>2, <3>3 DEF SkipRecord
    <3>5. /\ ~session.hello /\ rec.begin = session.begin
          /\ session.init => rec.phase = session.phase
      BY <3>4 DEF NeedsFullRecord
    <3>6. session.init /\ page.inflight # None BY <1>2, <1>3, <3>5
    <3>7. ~(rec.n > session.idx)
      <4>1. rec.n > session.idx => Prefilter BY <3>1, <3>2 DEF Prefilter
      <4> QED BY <1>7, <3>2, <3>4, <4>1 DEF SkipRecord, SendsBatch
    <3>8. session.idx = rec.n BY <1>1, <1>3, <3>5, <3>6, <3>7
    <3> QED BY <1>3, <3>5, <3>6, <3>8
  <2> QED BY <2>1, <2>2, <2>3, <2>4, PageInvRecord
<1> QED BY <1>4, <1>5, <1>6, <1>7

LEMMA PageInvSession ==
  ASSUME StreamInv, PageInv, Connect \/ Drop \/ SessionStep
  PROVE  PageInv'
<1>1. DeviceStill BY SessionLeavesDevice
<1>2. CASE Connect BY <1>1, <1>2, PageInvFresh DEF Connect
<1>3. CASE Drop BY <1>1, <1>3, PageInvFresh DEF Drop, EndSession
<1>4. CASE Poll \/ ReadAtomics \/ ReadLocked BY <1>1, <1>4, PageInvReads
<1>5. CASE SendState BY <1>1, <1>5, PageInvState
<1>6. CASE SendDisplay BY <1>1, <1>6, PageInvDisplay
<1>7. CASE SendCurrent \/ SendBatch \/ SkipRecord BY <1>1, <1>7, PageInvSends
<1> QED BY <1>2, <1>3, <1>4, <1>5, <1>6, <1>7 DEF SessionStep

LEMMA RestInvInit == Init => RestInv
<1> SUFFICES ASSUME Init PROVE RestInv OBVIOUS
<1>1. SaveIsDue /\ StreamInv
  BY SaveIsDueInit, ControllerInvInit, SessionInvInit DEF StreamInv
<1>2. /\ pc = "idle" /\ finishedSeq = observedSeq /\ spc = "off" /\ session = FreshSession
      /\ page = FreshPage /\ displaySeq = 0 /\ hasLoaded = FALSE
      /\ accepted = [seq |-> 0, shot |-> NoShot]
  BY DEF Init, ControllerInit, StreamInit
<1>3. BoundsKept BY DEF BoundsKept, Init, ControllerInit
<1>4. MainPlace BY <1>2 DEF MainPlace
<1>5. PageInv
  <2>1. page.card = NoShot /\ ~HasEffectiveLastShot
    BY <1>2 DEF FreshPage, HasEffectiveLastShot
  <2>2. ~session.init /\ session.hello BY <1>2 DEF FreshSession
  <2> QED BY <1>2, <2>1, <2>2
          DEF PageInv, Shown, CardIsShown, CardIsSent, CursorIsStatus, StateIsSent, CopyGrows,
              CopiesCurrent, HasStatus
<1> QED BY <1>1, <1>3, <1>4, <1>5 DEF RestInv

LEMMA RestInvStep ==
  ASSUME RestInv, [Next]_vars
  PROVE  RestInv'
<1> USE DEF RestInv
<1>1. SaveIsDue' /\ StreamInv' BY SaveIsDueStep, StreamInvStep
<1>2. ControllerInv /\ ControllerInv' BY <1>1 DEF StreamInv
<1>3. CASE MainStep \/ HttpStep
  <2>1. ControllerNext /\ UNCHANGED streamVars BY <1>3 DEF MainStep, HttpStep, ControllerNext
  <2>2. ~retaken' => ~retaken /\ ~Retakes
    <3>1. CASE MainStep BY <3>1 DEF MainStep
    <3>2. CASE HttpStep
      <4>1. retaken' = retaken /\ rec' = rec BY <3>2 DEF HttpStep, SetLoaded, recorderVars
      <4> QED BY <4>1 DEF Retakes
    <3> QED BY <1>3, <3>1, <3>2
  <2>3. BoundsKept'
    <3>1. bound' = bound
      BY <2>1 DEF ControllerNext, MainNext, TickSteps, BeginSession, Activate, Deactivate,
         ExitReset, StartReplay, StopReplay, ResetInFlight, ReplayTick, ClearFinished, Tick,
         Decode, Update, Bump, Save, MarkSaved, BumpSaved, SetLoaded, boundVars
    <3> QED BY <3>1 DEF BoundsKept
  <2>4. MainPlace' BY <2>1, MainPlaceStep
  <2>5. PageInv' BY <1>2, <2>1, <2>2, ControllerMoves, PageInvController
  <2> QED BY <1>1, <2>3, <2>4, <2>5
<1>4. CASE Connect \/ Drop \/ SessionStep
  <2>1. UNCHANGED <<bound, pc, mode, observedSeq, finishedSeq>>
    BY <1>4 DEF Connect, Drop, SessionStep, Poll, ReadAtomics, ReadLocked, SendState, SendDisplay,
       SendCurrent, SendBatch, SkipRecord, recorderVars, boundVars, controllerVars
  <2>2. BoundsKept' /\ MainPlace' BY <2>1 DEF BoundsKept, MainPlace
  <2> QED BY <1>1, <1>4, <2>2, PageInvSession
<1>5. CASE UNCHANGED vars
  <2> USE <1>5 DEF vars, controllerVars, streamVars, recorderVars, shotVars, displayVars,
                   loadVars, wakeVars, boundVars
  <2>1. BoundsKept' /\ MainPlace' BY DEF BoundsKept, MainPlace
  <2>2. PageInv'
    BY DEF PageInv, Shown, CardIsShown, CardLeaves, CardIsSent, CursorIsStatus, StateIsSent,
           CopyGrows, CopiesCurrent, HasStatus, Reported, Quiet, Owed, DeviceStatus, StatusWith,
           HasEffectiveLastShot, EffectiveLastShot, CardFollowsDevice, CurveFollowsDevice
  <2> QED BY <1>1, <2>1, <2>2
<1> QED BY <1>3, <1>4, <1>5 DEF Next

(* However the main task, a POST /loaded and lost connections fall between *)
(* the copies a session takes, whatever stored records decode and whatever *)
(* records begin alike: once the main task has finished a step and the     *)
(* session has consumed every wake-up the page shows the device's status,  *)
(* card and curve; unless a load has failed since the session last began to*)
(* read, and, for the curve, a record has begun where the one began that   *)
(* the session tracks (liveSeq, _runSession, stream.js).                   *)
THEOREM RestingIsCurrent == Spec => []RestingPageIsCurrent
<1>1. Init => RestInv BY RestInvInit
<1>2. RestInv /\ [Next]_vars => RestInv' BY RestInvStep
<1>3. RestInv => RestingPageIsCurrent BY RestInvImplies
<1> QED BY <1>1, <1>2, <1>3, PTL DEF Spec

------------------------------------------------------------------------------
(* The recorder: what its operators do to a record.                        *)

Kinds == {"BEGIN", "PUMP_ON", "PUMP_OFF_CONFIRMED", "SCALE_CONNECTED", "SCALE_DISCONNECTED",
          "ALARM_TRIGGERED", "STABLE_DETECTED", "END"}
Entries == [t : Int, kind : Kinds]
Causes == {"NONE", "STABLE", "TIMEOUT", "NO_RECORD"}

Shaped(r) ==
  r \in [phase : Phases, begin : Int, end : Int, cause : Causes, lastOff : Int,
         pumpOn : {r.pumpOn}, alarm : {r.alarm}, overflowed : BOOLEAN, events : Seq(Entries),
         samples : Seq(Int), observed : BOOLEAN]

(* An open record has room for the two finalize events, and none of them.  *)
OpenRecord(r) ==
  /\ Shaped(r)
  /\ Len(r.events) <= MaxEvents - 2 /\ Len(r.samples) <= MaxSamples
  /\ \A i \in 1..Len(r.events) : r.events[i].kind # "END"

(* One list of events is another with one more, at time t.                 *)
Extends(new, old, t, kind) ==
  /\ Len(new) = Len(old) + 1
  /\ \A i \in 1..Len(old) : new[i] = old[i]
  /\ new[Len(old) + 1].t = t /\ new[Len(old) + 1].kind = kind

(* An event is appended, or it finds no room and the record overflows.     *)
EventAdded(q, r, t, kind) ==
  \/ Extends(q.events, r.events, t, kind) /\ q.overflowed = r.overflowed
  \/ /\ q.events = r.events /\ q.overflowed
     /\ Len(r.events) >= MaxEvents - 2

SampleAdded(q, r) ==
  \/ q.samples = r.samples
  \/ Len(q.samples) = Len(r.samples) + 1 /\ Len(r.samples) < MaxSamples

SameLife(q, r) ==
  /\ q.phase = r.phase /\ q.begin = r.begin /\ q.lastOff = r.lastOff /\ q.cause = r.cause
  /\ q.pumpOn = r.pumpOn

LEMMA Limits == MaxEvents \in Nat /\ MaxEvents > 4 /\ MaxSamples \in Nat /\ ClockRange \in Nat
                /\ ClockRange > 0
BY RecorderConstants

LEMMA NewRecordIsOpen == OpenRecord(NewRecord) /\ NewRecord.phase = "IDLE" /\ Len(NewRecord.events) = 0
                         /\ ~NewRecord.overflowed
<1>1. /\ NewRecord.phase = "IDLE" /\ NewRecord.events = <<>> /\ NewRecord.samples = <<>>
      /\ ~NewRecord.overflowed
  BY DEF NewRecord
<1>2. Shaped(NewRecord)
  <2>1. <<>> \in Seq(Entries) /\ <<>> \in Seq(Int) OBVIOUS
  <2>2. PICK z \in Int : z = 0 OBVIOUS
  <2>3. NewRecord =
          [phase |-> "IDLE", begin |-> z, end |-> z, cause |-> "NONE", lastOff |-> z,
           pumpOn |-> z, alarm |-> z, overflowed |-> FALSE, events |-> <<>>, samples |-> <<>>,
           observed |-> FALSE]
    BY <2>2 DEF NewRecord
  <2> QED BY <2>1, <2>2, <2>3 DEF Shaped, Phases, Causes
<1> QED BY <1>1, <1>2, Limits DEF OpenRecord

LEMMA EventAppended ==
  ASSUME NEW e \in Seq(Entries), NEW t \in Int, NEW kind \in Kinds
  PROVE  /\ Append(e, Event(t, kind)) \in Seq(Entries)
         /\ Extends(Append(e, Event(t, kind)), e, t, kind)
<1>1. /\ Event(t, kind) \in Entries /\ Event(t, kind).kind = kind /\ Event(t, kind).t = t
  BY DEF Event, Entries
<1> QED BY <1>1, AppendProperties DEF Extends

LEMMA AppendEventKeeps ==
  ASSUME NEW r, OpenRecord(r), NEW t \in Int, NEW kind \in Kinds, kind # "END"
  PROVE  /\ OpenRecord(AppendEvent(r, t, kind))
         /\ SameLife(AppendEvent(r, t, kind), r)
         /\ AppendEvent(r, t, kind).samples = r.samples
         /\ EventAdded(AppendEvent(r, t, kind), r, t, kind)
<1> DEFINE e == AppendEvent(r, t, kind)
<1>1. CASE Len(r.events) >= MaxEvents - 2
  <2>1. e = [r EXCEPT !.overflowed = TRUE] BY <1>1 DEF AppendEvent
  <2> HIDE DEF e
  <2>2. /\ Shaped(e) /\ SameLife(e, r) /\ e.samples = r.samples /\ e.events = r.events
        /\ e.overflowed
    BY <2>1 DEF OpenRecord, Shaped, SameLife
  <2> QED BY <1>1, <2>2 DEF OpenRecord, EventAdded, e
<1>2. CASE ~(Len(r.events) >= MaxEvents - 2)
  <2> DEFINE es == Append(r.events, Event(t, kind))
  <2>1. e = [r EXCEPT !.events = es] BY <1>2 DEF AppendEvent
  <2>2. r.events \in Seq(Entries) BY DEF OpenRecord, Shaped
  <2>3. es \in Seq(Entries) /\ Extends(es, r.events, t, kind) BY <2>2, EventAppended
  <2> HIDE DEF e, es
  <2>4. /\ Shaped(e) /\ SameLife(e, r) /\ e.samples = r.samples /\ e.events = es
        /\ e.overflowed = r.overflowed
    BY <2>1, <2>3 DEF OpenRecord, Shaped, SameLife
  <2>5. Len(r.events) \in Nat BY <2>2, LenProperties
  <2>6. \A i \in 1..Len(es) : es[i].kind # "END" BY <2>3, <2>5 DEF Extends, OpenRecord
  <2>7. Len(es) <= MaxEvents - 2 BY <1>2, <2>3, <2>5, Limits DEF Extends
  <2>8. OpenRecord(e) BY <2>4, <2>6, <2>7 DEF OpenRecord
  <2> QED BY <2>3, <2>4, <2>8 DEF EventAdded, e
<1> QED BY <1>1, <1>2

LEMMA AppendSampleKeeps ==
  ASSUME NEW r, OpenRecord(r), NEW t \in Int, NEW e,
         e = [AppendSample(r, t) EXCEPT !.observed = TRUE]
  PROVE  /\ OpenRecord(e) /\ SameLife(e, r)
         /\ e.events = r.events /\ e.overflowed = r.overflowed /\ SampleAdded(e, r)
<1> USE DEF OpenRecord, Shaped, SameLife
<1>1. CASE Len(r.samples) >= MaxSamples
  BY <1>1 DEF AppendSample, SampleAdded
<1>2. CASE ~(Len(r.samples) >= MaxSamples)
  <2>1. e = [[r EXCEPT !.samples = Append(r.samples, t)] EXCEPT !.observed = TRUE]
    BY <1>2 DEF AppendSample
  <2>2. r.samples \in Seq(Int) OBVIOUS
  <2>3. /\ Append(r.samples, t) \in Seq(Int)
        /\ Len(Append(r.samples, t)) = Len(r.samples) + 1
    BY <2>2, AppendProperties
  <2>4. /\ e.samples = Append(r.samples, t) /\ Shaped(e) /\ SameLife(e, r)
        /\ e.events = r.events /\ e.overflowed = r.overflowed
    <3>1. PICK q \in Seq(Int) : q = Append(r.samples, t) BY <2>3
    <3>2. e = [[r EXCEPT !.samples = q] EXCEPT !.observed = TRUE] BY <2>1, <3>1
    <3>3. /\ e.samples = q /\ SameLife(e, r)
          /\ e.events = r.events /\ e.overflowed = r.overflowed
      BY <3>2
    <3>4. Shaped(e) BY <3>2
    <3> QED BY <3>1, <3>3, <3>4
  <2>5. Len(r.samples) \in Nat BY <2>2, LenProperties
  <2>6. Len(e.samples) = Len(r.samples) + 1 /\ Len(r.samples) < MaxSamples
    <3>1. Len(e.samples) = Len(r.samples) + 1 BY ONLY <2>3, <2>4
    <3>2. Len(r.samples) < MaxSamples BY ONLY <1>2, <2>5, Limits
    <3> QED BY <3>1, <3>2
  <2>7. Len(e.samples) <= MaxSamples BY ONLY <2>5, <2>6, Limits
  <2> QED BY <2>4, <2>6, <2>7 DEF SampleAdded
<1> QED BY <1>1, <1>2

(* What a tick in the pump window leaves of a record.                      *)
NoteAdded(q, r, t) ==
  \/ q.events = r.events /\ q.overflowed = r.overflowed
  \/ EventAdded(q, r, t, "SCALE_CONNECTED")
  \/ EventAdded(q, r, t, "SCALE_DISCONNECTED")

Ticked(q, r, t) ==
  OpenRecord(q) /\ SameLife(q, r) /\ SampleAdded(q, r) /\ NoteAdded(q, r, t)

LinkShaped(l) ==
  l \in [stamp : Int, present : BOOLEAN, pump : BOOLEAN, onStart : Int, fed : Int,
         tracker : {l.tracker}]

LEMMA LiveTickKeeps ==
  ASSUME NEW r, OpenRecord(r), NEW l, LinkShaped(l), NEW t \in Int, NEW scale, scale.t \in Int
  PROVE  LET s == RecordLiveTick(State(r, l), t, scale)
         IN /\ Ticked(s.current, r, t) /\ LinkShaped(s.link)
            /\ s.link.pump = l.pump /\ s.link.onStart = l.onStart
<1> DEFINE s == RecordLiveTick(State(r, l), t, scale)
           q == CASE scale.present /\ ~l.present -> AppendEvent(r, t, "SCALE_CONNECTED")
                  [] ~scale.present /\ l.present -> AppendEvent(r, t, "SCALE_DISCONNECTED")
                  [] OTHER -> r
           seen == [l EXCEPT !.stamp = scale.t]
           tracker == Tracked(seen.tracker, scale.band, scale.enough)
           took == [seen EXCEPT !.fed = t, !.tracker = tracker]
<1>1. Ticked(q, r, t) /\ q.samples = r.samples
  <2>1. \/ q = r \/ q = AppendEvent(r, t, "SCALE_CONNECTED")
        \/ q = AppendEvent(r, t, "SCALE_DISCONNECTED")
    OBVIOUS
  <2> HIDE DEF q
  <2>2. CASE q = r BY <2>2 DEF Ticked, NoteAdded, SampleAdded, SameLife
  <2>3. CASE q = AppendEvent(r, t, "SCALE_CONNECTED")
    BY <2>3, AppendEventKeeps DEF Kinds, Ticked, NoteAdded, SampleAdded
  <2>4. CASE q = AppendEvent(r, t, "SCALE_DISCONNECTED")
    BY <2>4, AppendEventKeeps DEF Kinds, Ticked, NoteAdded, SampleAdded
  <2> QED BY <2>1, <2>2, <2>3, <2>4
<1>2. \/ s = State(q, l) \/ s = State(q, seen)
      \/ s = State([AppendSample(q, scale.t) EXCEPT !.observed = TRUE], took)
  <2> HIDE DEF took
  <2>1. State(r, l).current = r /\ State(r, l).link = l BY DEF State
  <2> QED BY <2>1 DEF RecordLiveTick, took
<1>3. LinkShaped(seen) /\ seen.pump = l.pump /\ seen.onStart = l.onStart BY DEF LinkShaped
<1>4. LinkShaped(took) /\ took.pump = l.pump /\ took.onStart = l.onStart
  <2> HIDE DEF tracker, seen
  <2> QED BY <1>3 DEF LinkShaped
<1> HIDE DEF q, seen, took
<1>5. CASE s = State(q, l) BY <1>1, <1>5 DEF State
<1>6. CASE s = State(q, seen) BY <1>1, <1>3, <1>6 DEF State
<1>7. CASE s = State([AppendSample(q, scale.t) EXCEPT !.observed = TRUE], took)
  <2>1. PICK e : e = [AppendSample(q, scale.t) EXCEPT !.observed = TRUE] OBVIOUS
  <2>2. OpenRecord(e) /\ SameLife(e, q) /\ e.events = q.events /\ e.overflowed = q.overflowed
        /\ SampleAdded(e, q)
    BY <1>1, <2>1, AppendSampleKeeps DEF Ticked
  <2>3. Ticked(e, r, t)
    BY <1>1, <2>2 DEF Ticked, SameLife, SampleAdded, NoteAdded, EventAdded
  <2>4. s = State(e, took) BY <1>7, <2>1
  <2> HIDE DEF s
  <2>5. s.current = e /\ s.link = took BY <2>4 DEF State
  <2> QED BY <1>4, <2>3, <2>5 DEF s
<1> QED BY <1>2, <1>5, <1>6, <1>7

LEMMA ToIdleIsNew ==
  ASSUME NEW s, s.current.phase = "IDLE" => s.current = NewRecord, LinkShaped(s.link)
  PROVE  /\ ToIdle(s).current = NewRecord
         /\ LinkShaped(ToIdle(s).link)
         /\ ToIdle(s).link.pump => s.link.pump /\ s.current.phase = "IDLE"
         /\ s.current.phase = "IDLE" => ToIdle(s).link = s.link
<1>1. CASE s.current.phase = "IDLE" BY <1>1 DEF ToIdle
<1>2. CASE s.current.phase # "IDLE"
  <2>1. PICK p \in BOOLEAN : p = s.link.present BY DEF LinkShaped
  <2>2. ToIdle(s) = State(NewRecord, [NewLink EXCEPT !.present = p]) BY <1>2, <2>1 DEF ToIdle
  <2>3. PICK z \in Int : z = 0 OBVIOUS
  <2>4. NewLink = [stamp |-> z, present |-> FALSE, pump |-> FALSE, onStart |-> z, fed |-> z,
                   tracker |-> FreshTracker]
    BY <2>3 DEF NewLink
  <2>5. PICK k : k = [NewLink EXCEPT !.present = p] OBVIOUS
  <2>6. LinkShaped(k) /\ ~k.pump BY <2>4, <2>5 DEF LinkShaped
  <2>7. ToIdle(s).current = NewRecord /\ ToIdle(s).link = k BY <2>2, <2>5 DEF State
  <2> QED BY <1>2, <2>6, <2>7
<1> QED BY <1>1, <1>2

(* A pump start: of a new record it is the second event, of an open one the*)
(* next.                                                                   *)
Begun(q, t) ==
  /\ q.begin = t /\ Len(q.samples) = 0 /\ ~q.overflowed /\ q.pumpOn = 0
  /\ Len(q.events) = 2
  /\ q.events[1].t = t /\ q.events[1].kind = "BEGIN"
  /\ q.events[2].t = t /\ q.events[2].kind = "PUMP_ON"

LEMMA ToRunningBegins ==
  ASSUME NEW s, s.current = NewRecord, LinkShaped(s.link), NEW t \in Int
  PROVE  LET q == ToRunning(s, t).current
         IN /\ OpenRecord(q) /\ q.phase = "RUNNING" /\ Begun(q, t)
            /\ LinkShaped(ToRunning(s, t).link) /\ ToRunning(s, t).link.pump = s.link.pump
            /\ ToRunning(s, t).link.onStart = t
<1> DEFINE b == [NewRecord EXCEPT !.begin = t]
           begun == AppendEvent(b, t, "BEGIN")
           on == AppendEvent(begun, t, "PUMP_ON")
<1>1. /\ OpenRecord(b) /\ b.begin = t /\ Len(b.events) = 0 /\ Len(b.samples) = 0
      /\ ~b.overflowed /\ b.pumpOn = 0
  <2>1. OpenRecord(NewRecord) /\ Len(NewRecord.events) = 0 /\ Len(NewRecord.samples) = 0
        /\ ~NewRecord.overflowed /\ NewRecord.pumpOn = 0
    BY NewRecordIsOpen DEF NewRecord
  <2> QED BY <2>1 DEF OpenRecord, Shaped
<1> HIDE DEF b
<1>2. OpenRecord(begun) /\ SameLife(begun, b) /\ begun.samples = b.samples
      /\ EventAdded(begun, b, t, "BEGIN")
  BY <1>1, AppendEventKeeps DEF Kinds
<1> HIDE DEF begun
<1>3. /\ Len(begun.events) = 1 /\ begun.events[1].t = t /\ begun.events[1].kind = "BEGIN"
      /\ ~begun.overflowed
  BY <1>1, <1>2, Limits DEF EventAdded, Extends
<1>4. OpenRecord(on) /\ SameLife(on, begun) /\ on.samples = begun.samples
      /\ EventAdded(on, begun, t, "PUMP_ON")
  BY <1>2, AppendEventKeeps DEF Kinds
<1> HIDE DEF on
<1>5. /\ Len(on.events) = 2 /\ ~on.overflowed
      /\ on.events[1].t = t /\ on.events[1].kind = "BEGIN"
      /\ on.events[2].t = t /\ on.events[2].kind = "PUMP_ON"
  BY <1>3, <1>4, Limits DEF EventAdded, Extends
<1>6. Begun(on, t) BY <1>1, <1>2, <1>4, <1>5 DEF Begun, SameLife
<1>7. NewRecord.phase = "IDLE" BY NewRecordIsOpen
<1>8. ToRunning(s, t) = State([on EXCEPT !.phase = "RUNNING"], [s.link EXCEPT !.onStart = t])
  BY <1>7 DEF ToRunning, State, on, begun, b
<1>9. PICK q : q = [on EXCEPT !.phase = "RUNNING"] OBVIOUS
<1>10. OpenRecord(q) /\ q.phase = "RUNNING" /\ Begun(q, t)
  BY <1>4, <1>6, <1>9 DEF OpenRecord, Shaped, Phases, Begun
<1>11. PICK k : k = [s.link EXCEPT !.onStart = t] OBVIOUS
<1>12. LinkShaped(k) /\ k.pump = s.link.pump /\ k.onStart = t BY <1>11 DEF LinkShaped
<1>13. ToRunning(s, t) = State(q, k) BY <1>8, <1>9, <1>11
<1>14. ToRunning(s, t).current = q /\ ToRunning(s, t).link = k BY <1>13 DEF State
<1> QED BY <1>10, <1>12, <1>14

LEMMA ToRunningJoins ==
  ASSUME NEW s, OpenRecord(s.current), s.current.phase = "POST_PUMP", LinkShaped(s.link),
         NEW t \in Int
  PROVE  LET q == ToRunning(s, t).current
         IN /\ OpenRecord(q) /\ q.phase = "RUNNING" /\ q.begin = s.current.begin
            /\ q.pumpOn = s.current.pumpOn
            /\ q.samples = s.current.samples /\ EventAdded(q, s.current, t, "PUMP_ON")
            /\ LinkShaped(ToRunning(s, t).link) /\ ToRunning(s, t).link.pump = s.link.pump
            /\ ToRunning(s, t).link.onStart = t
<1> DEFINE on == AppendEvent(s.current, t, "PUMP_ON")
<1>4. OpenRecord(on) /\ SameLife(on, s.current) /\ on.samples = s.current.samples
      /\ EventAdded(on, s.current, t, "PUMP_ON")
  BY AppendEventKeeps DEF Kinds
<1> HIDE DEF on
<1>8. ToRunning(s, t) = State([on EXCEPT !.phase = "RUNNING"], [s.link EXCEPT !.onStart = t])
  BY DEF ToRunning, State, on
<1>9. PICK q : q = [on EXCEPT !.phase = "RUNNING"] OBVIOUS
<1>10. OpenRecord(q) /\ q.phase = "RUNNING" /\ q.begin = s.current.begin
       /\ q.pumpOn = s.current.pumpOn
       /\ q.samples = s.current.samples /\ EventAdded(q, s.current, t, "PUMP_ON")
  BY <1>4, <1>9 DEF OpenRecord, Shaped, Phases, EventAdded, SameLife
<1>11. PICK k : k = [s.link EXCEPT !.onStart = t] OBVIOUS
<1>12. LinkShaped(k) /\ k.pump = s.link.pump /\ k.onStart = t BY <1>11 DEF LinkShaped
<1>13. ToRunning(s, t) = State(q, k) BY <1>8, <1>9, <1>11
<1>14. ToRunning(s, t).current = q /\ ToRunning(s, t).link = k BY <1>13 DEF State
<1> QED BY <1>10, <1>12, <1>14

LEMMA ToPostPumpKeeps ==
  ASSUME NEW s, OpenRecord(s.current), NEW t \in Int
  PROVE  LET q == ToPostPump(s, t).current
         IN /\ OpenRecord(q) /\ q.phase = "POST_PUMP" /\ q.samples = s.current.samples
            /\ q.begin = s.current.begin /\ q.lastOff = t
            /\ q.pumpOn = s.current.pumpOn + Minus(t, s.link.onStart)
            /\ EventAdded(q, s.current, t, "PUMP_OFF_CONFIRMED")
            /\ ToPostPump(s, t).link = s.link
<1> DEFINE on == s.current.pumpOn + Minus(t, s.link.onStart)
           off == [s.current EXCEPT !.pumpOn = on, !.lastOff = t]
           r == AppendEvent(off, t, "PUMP_OFF_CONFIRMED")
<1>1. ToPostPump(s, t) = State([r EXCEPT !.phase = "POST_PUMP"], s.link)
  BY DEF ToPostPump
<1>2. /\ OpenRecord(off) /\ off.samples = s.current.samples /\ off.begin = s.current.begin
      /\ off.events = s.current.events /\ off.overflowed = s.current.overflowed
      /\ off.lastOff = t /\ off.pumpOn = on
  <2> HIDE DEF on
  <2> QED BY DEF OpenRecord, Shaped
<1> HIDE DEF off
<1>3. OpenRecord(r) /\ r.samples = off.samples /\ SameLife(r, off)
      /\ EventAdded(r, off, t, "PUMP_OFF_CONFIRMED")
  BY <1>2, AppendEventKeeps DEF Kinds
<1> HIDE DEF r
<1>4. PICK q : q = [r EXCEPT !.phase = "POST_PUMP"] OBVIOUS
<1>5. /\ OpenRecord(q) /\ q.phase = "POST_PUMP" /\ q.samples = r.samples /\ q.begin = r.begin
      /\ q.lastOff = r.lastOff /\ q.pumpOn = r.pumpOn
      /\ q.events = r.events /\ q.overflowed = r.overflowed
  BY <1>3, <1>4 DEF OpenRecord, Shaped, Phases
<1>6. EventAdded(q, s.current, t, "PUMP_OFF_CONFIRMED")
  BY <1>2, <1>3, <1>5 DEF EventAdded
<1>7. ToPostPump(s, t) = State(q, s.link) BY <1>1, <1>4
<1>8. ToPostPump(s, t).current = q /\ ToPostPump(s, t).link = s.link BY <1>7 DEF State
<1> QED BY <1>2, <1>3, <1>5, <1>6, <1>8 DEF SameLife

LEMMA Greatest ==
  ASSUME NEW N \in Nat, NEW S \in SUBSET (0..N), S # {}
  PROVE  \E m \in S : \A x \in S : x <= m
<1> DEFINE Less == OpToRel(<, Nat)
           Below == {N - x : x \in S}
<1>1. IsWellFoundedOn(Less, Nat) BY NatLessThanWellFounded
<1>2. Below \subseteq Nat /\ Below # {}
  <2>1. \A x \in S : N - x \in Nat
    <3>1. \A x \in S : x \in 0..N OBVIOUS
    <3> QED BY <3>1
  <2> QED BY <2>1
<1>3. PICK b \in Below : \A x \in Below : <<x, b>> \notin Less
  <2> HIDE DEF Below, Less
  <2> QED BY <1>1, <1>2, WFMin
<1>4. PICK m \in S : b = N - m OBVIOUS
<1>5. ASSUME NEW x \in S PROVE x <= m
  <2>1. N - x \in Below OBVIOUS
  <2>2. ~(N - x < b) BY <1>2, <1>3, <2>1 DEF OpToRel
  <2> QED BY <1>4, <2>2
<1> QED BY <1>5

(* Trimming keeps the list up to its last event that is not after t.       *)
LastNotAfter(e, k, t) ==
  /\ k \in 0..Len(e) /\ (k = 0 \/ e[k].t <= t)
  /\ \A j \in 1..Len(e) : e[j].t <= t => j <= k

LEMMA TrimKeeps ==
  ASSUME NEW e \in Seq(Entries), NEW t \in Int
  PROVE  \E k \in 0..Len(e) : TrimAfter(e, t) = SubSeq(e, 1, k) /\ LastNotAfter(e, k, t)
<1> DEFINE kept == {k \in 0..Len(e) : k = 0 \/ e[k].t <= t}
           top == CHOOSE k \in kept : \A j \in kept : j <= k
<1>1. Len(e) \in Nat BY LenProperties
<1>2. kept \in SUBSET (0..Len(e)) /\ 0 \in kept BY <1>1
<1>3. \E m \in kept : \A x \in kept : x <= m
  <2> HIDE DEF kept
  <2> QED BY <1>1, <1>2, Greatest
<1>4. top \in kept /\ \A j \in kept : j <= top
  <2> HIDE DEF kept
  <2> QED BY <1>3
<1>5. LastNotAfter(e, top, t)
  <2> HIDE DEF top
  <2> QED BY <1>1, <1>4 DEF LastNotAfter
<1>6. TrimAfter(e, t) = SubSeq(e, 1, top) BY DEF TrimAfter
<1> HIDE DEF top
<1> QED BY <1>4, <1>5, <1>6

(* The record finalized at t: its events, with or without STABLE_DETECTED, *)
(* up to the last that is not after the intended end x, and END.           *)
Settled(e, r, x, t) ==
  \/ e = r.events /\ x \in {t, r.lastOff}
  \/ Extends(e, r.events, t, "STABLE_DETECTED") /\ x = t

Closing(q, e, k, x) ==
  /\ Len(q.events) = k + 1
  /\ \A i \in 1..k : q.events[i] = e[i]
  /\ q.events[k + 1].t = q.end /\ q.events[k + 1].kind = "END"
  /\ q.end = IF k = 0 THEN x ELSE EnsureMonotonic(x, e[k].t)

Finishes(q, r, t) ==
  /\ q.phase = "DONE" /\ q.begin = r.begin /\ q.samples = r.samples
  /\ q.lastOff = r.lastOff /\ q.overflowed = r.overflowed /\ q.pumpOn = r.pumpOn
  /\ \E e \in Seq(Entries), k \in Nat, x \in Int :
       Settled(e, r, x, t) /\ LastNotAfter(e, k, x) /\ Closing(q, e, k, x)

LEMMA EndIsInt ==
  ASSUME NEW x \in Int, NEW last \in Int
  PROVE  EnsureMonotonic(x, last) \in Int
BY Limits DEF EnsureMonotonic, Nudged

(* The finalize events always have room.                                   *)
LEMMA Finalizes ==
  ASSUME NEW r, Shaped(r), NEW t \in Int, NEW kind \in Kinds, Len(r.events) < MaxEvents
  PROVE  AppendFinalizeEvent(r, t, kind) = [r EXCEPT !.events = Append(r.events, Event(t, kind))]
<1>1. r.events \in Seq(Entries) BY DEF Shaped
<1>2. Len(r.events) \in Nat BY <1>1, LenProperties
<1> QED BY <1>2, Limits DEF AppendFinalizeEvent

LEMMA ToDoneCloses ==
  ASSUME NEW s, OpenRecord(s.current), LinkShaped(s.link), NEW t \in Int,
         NEW cause \in {"STABLE", "TIMEOUT"}
  PROVE  /\ Finishes(ToDone(s, t, cause).current, s.current, t)
         /\ ToDone(s, t, cause).link = s.link
<1> DEFINE r == s.current
           stable == IF cause = "STABLE" THEN AppendFinalizeEvent(r, t, "STABLE_DETECTED")
                     ELSE r
           x == IF cause = "TIMEOUT" /\ ~r.observed THEN r.lastOff ELSE t
           events == TrimAfter(stable.events, x)
           end == IF events = <<>> THEN x ELSE EnsureMonotonic(x, events[Len(events)].t)
           trimmed == [stable EXCEPT !.events = events, !.end = end, !.cause = cause,
                                     !.phase = "DONE"]
<1>1. r.events \in Seq(Entries) /\ Len(r.events) \in Nat /\ x \in Int
  <2>1. r.events \in Seq(Entries) /\ x \in Int BY DEF OpenRecord, Shaped
  <2> QED BY <2>1, LenProperties
<1>2. PICK e \in Seq(Entries) : e = stable.events /\ Settled(e, r, x, t)
  <2>1. CASE cause = "STABLE"
    <3>1. stable = [r EXCEPT !.events = Append(r.events, Event(t, "STABLE_DETECTED"))]
      <4>1. Len(r.events) < MaxEvents /\ Shaped(r) BY <1>1, Limits DEF OpenRecord
      <4> QED BY <2>1, <4>1, Finalizes DEF Kinds
    <3>2. stable.events = Append(r.events, Event(t, "STABLE_DETECTED"))
      BY <3>1 DEF OpenRecord, Shaped
    <3>3. /\ stable.events \in Seq(Entries)
          /\ Extends(stable.events, r.events, t, "STABLE_DETECTED")
      <4>1. "STABLE_DETECTED" \in Kinds BY DEF Kinds
      <4> QED BY <1>1, <3>2, <4>1, EventAppended
    <3>4. x = t BY <2>1
    <3> HIDE DEF stable, r, x
    <3> QED BY <3>3, <3>4 DEF Settled
  <2>2. CASE cause = "TIMEOUT"
    <3>1. stable = r /\ x \in {t, r.lastOff} BY <2>2
    <3> HIDE DEF stable, r, x
    <3> QED BY <1>1, <3>1 DEF Settled
  <2> QED BY <2>1, <2>2
<1>3. /\ Shaped(stable) /\ Len(e) < MaxEvents /\ stable.begin = r.begin
      /\ stable.samples = r.samples /\ stable.lastOff = r.lastOff
      /\ stable.overflowed = r.overflowed /\ stable.pumpOn = r.pumpOn
  <2>1. CASE cause = "STABLE"
    <3>1. stable = [r EXCEPT !.events = Append(r.events, Event(t, "STABLE_DETECTED"))]
      <4>1. Len(r.events) < MaxEvents /\ Shaped(r) BY <1>1, Limits DEF OpenRecord
      <4> QED BY <2>1, <4>1, Finalizes DEF Kinds
    <3>2. PICK es \in Seq(Entries) : es = Append(r.events, Event(t, "STABLE_DETECTED"))
                                     /\ Extends(es, r.events, t, "STABLE_DETECTED")
      <4>1. "STABLE_DETECTED" \in Kinds BY DEF Kinds
      <4> QED BY <1>1, <4>1, EventAppended
    <3>3. stable = [r EXCEPT !.events = es] BY <3>1, <3>2
    <3>4. /\ Shaped(stable) /\ stable.begin = r.begin /\ stable.events = es
          /\ stable.samples = r.samples /\ stable.lastOff = r.lastOff
          /\ stable.overflowed = r.overflowed /\ stable.pumpOn = r.pumpOn
      <4> HIDE DEF stable
      <4> QED BY <3>3 DEF OpenRecord, Shaped
    <3>5. Len(es) < MaxEvents BY <1>1, <3>2, Limits DEF Extends, OpenRecord
    <3> QED BY <1>2, <3>4, <3>5
  <2>2. CASE cause = "TIMEOUT"
    BY <1>1, <1>2, <2>2, Limits DEF OpenRecord
  <2> QED BY <2>1, <2>2
<1> HIDE DEF r, stable, x
<1>4. PICK k \in 0..Len(e) : events = SubSeq(e, 1, k) /\ LastNotAfter(e, k, x)
  <2>1. \E k \in 0..Len(e) : TrimAfter(e, x) = SubSeq(e, 1, k) /\ LastNotAfter(e, k, x)
    BY <1>1, TrimKeeps
  <2> QED BY <1>2, <2>1
<1>5. Len(e) \in Nat BY LenProperties
<1>6. /\ events \in Seq(Entries) /\ Len(events) = k /\ \A i \in 1..k : events[i] = e[i]
  <2>1. \A i \in 1..k : e[i] \in Entries BY <1>5, ElementOfSeq
  <2>2. 1 \in Int /\ k \in Int BY <1>5
  <2>3. /\ SubSeq(e, 1, k) \in Seq(Entries)
        /\ Len(SubSeq(e, 1, k)) = IF 1 <= k THEN k - 1 + 1 ELSE 0
        /\ \A i \in 1 .. k - 1 + 1 : SubSeq(e, 1, k)[i] = e[1 + i - 1]
    BY <2>1, <2>2, SubSeqProperties
  <2> QED BY <1>4, <1>5, <2>3
<1>7. end = (IF k = 0 THEN x ELSE EnsureMonotonic(x, e[k].t)) /\ end \in Int
  <2>1. events = <<>> <=> k = 0 BY <1>6
  <2>2. k # 0 => events[Len(events)] = e[k] /\ e[k].t \in Int
    <3>1. k # 0 => e[k] \in Entries BY <1>5, ElementOfSeq
    <3> HIDE DEF events
    <3> QED BY <1>5, <1>6, <3>1 DEF Entries
  <2> HIDE DEF events
  <2> QED BY <1>1, <2>1, <2>2, EndIsInt
<1> HIDE DEF events, end
<1>8. PICK c : c = trimmed OBVIOUS
<1>9. /\ Shaped(c) /\ c.begin = r.begin /\ c.samples = r.samples /\ c.lastOff = r.lastOff
      /\ c.overflowed = r.overflowed /\ c.pumpOn = r.pumpOn /\ c.phase = "DONE"
      /\ c.events = events /\ c.end = end
  BY <1>3, <1>6, <1>7, <1>8 DEF Shaped, Phases, Causes
<1>10. Len(c.events) < MaxEvents BY <1>3, <1>5, <1>6, <1>9, Limits
<1>11. PICK es \in Seq(Entries) : es = Append(c.events, Event(end, "END"))
                                  /\ Extends(es, c.events, end, "END")
  <2>1. "END" \in Kinds BY DEF Kinds
  <2> QED BY <1>6, <1>7, <1>9, <2>1, EventAppended
<1>12. PICK q : q = [c EXCEPT !.events = es] OBVIOUS
<1>13. /\ q.begin = r.begin /\ q.samples = r.samples /\ q.lastOff = r.lastOff
       /\ q.overflowed = r.overflowed /\ q.pumpOn = r.pumpOn /\ q.phase = "DONE"
       /\ q.events = es /\ q.end = end
  BY <1>9, <1>12, SMTT(20) DEF Shaped
<1>14. ToDone(s, t, cause) = State(q, s.link)
  <2>1. "END" \in Kinds BY DEF Kinds
  <2>2. AppendFinalizeEvent(c, end, "END")
          = [c EXCEPT !.events = Append(c.events, Event(end, "END"))]
    BY ONLY <1>7, <1>9, <1>10, <2>1, Finalizes
  <2>3. ToDone(s, t, cause) = State(AppendFinalizeEvent(trimmed, end, "END"), s.link)
    BY DEF ToDone, r, stable, x, events, end
  <2>4. [c EXCEPT !.events = Append(c.events, Event(end, "END"))] = q BY <1>11, <1>12
  <2> QED BY <1>8, <2>2, <2>3, <2>4
<1>15. Closing(q, e, k, x)
  BY <1>5, <1>6, <1>7, <1>9, <1>11, <1>13 DEF Extends, Closing
<1>16. Finishes(q, r, t) BY <1>1, <1>2, <1>4, <1>5, <1>13, <1>15 DEF Finishes
<1>17. ToDone(s, t, cause).current = q /\ ToDone(s, t, cause).link = s.link
  BY <1>14 DEF State
<1> QED BY <1>16, <1>17 DEF r

------------------------------------------------------------------------------
(* The recorder: what an update does.                                      *)

RecordInv ==
  /\ now \in Int /\ reading \in Int /\ LinkShaped(link)
  /\ current.phase \in Phases
  /\ current.phase = "IDLE" => current = NewRecord
  /\ current.phase # "DONE" => OpenRecord(current)

(* q is the record after the tick of an update at t.                       *)
Rises(on) == on /\ ~link.pump
NotOver(q, t) ==
  Minus(t, q.lastOff) <= EmptyTimeout \/ Minus(t, q.lastOff) <= SettleTimeout

Waits(q, on) ==
  /\ ~InPumpWindow(current.phase) /\ ~Rises(on)
  /\ q = current

Starts(q, t, on) ==
  /\ ~InPumpWindow(current.phase) /\ Rises(on)
  /\ OpenRecord(q) /\ q.phase = "RUNNING" /\ Begun(q, t)
  /\ link'.onStart = t /\ (current.phase = "IDLE" => link'.pump = on)

Stays(q, t, on) ==
  /\ InPumpWindow(current.phase) /\ Ticked(q, current, t) /\ link'.pump = on
  /\ link'.onStart = link.onStart
  /\ current.phase = "RUNNING" => on \/ ~link.pump
  /\ current.phase = "POST_PUMP" => ~Rises(on) /\ NotOver(q, t)

Stops(c, t, on) ==
  /\ current.phase = "RUNNING" /\ ~on
  /\ \E q : /\ Ticked(q, current, t)
            /\ OpenRecord(c) /\ c.phase = "POST_PUMP" /\ c.samples = q.samples
            /\ c.begin = q.begin /\ c.lastOff = t
            /\ c.pumpOn = q.pumpOn + Minus(t, link.onStart)
            /\ EventAdded(c, q, t, "PUMP_OFF_CONFIRMED")

Joins(c, t, on) ==
  /\ current.phase = "POST_PUMP" /\ Rises(on) /\ link'.onStart = t
  /\ \E q : /\ Ticked(q, current, t)
            /\ OpenRecord(c) /\ c.phase = "RUNNING" /\ c.samples = q.samples
            /\ c.begin = q.begin /\ c.pumpOn = q.pumpOn
            /\ EventAdded(c, q, t, "PUMP_ON")

Ends(c, t, on) ==
  /\ current.phase = "POST_PUMP" /\ ~Rises(on)
  /\ \E q : Ticked(q, current, t) /\ Finishes(c, q, t)

Splits(c, d, t, on) ==
  /\ current.phase = "POST_PUMP" /\ Rises(on) /\ link'.onStart = t
  /\ OpenRecord(c) /\ c.phase = "RUNNING" /\ Begun(c, t)
  /\ \E q : Ticked(q, current, t) /\ Finishes(d, q, t)

UpdateMoves(t, on) ==
  /\ LinkShaped(link') /\ (link'.pump => on)
  /\ \/ /\ published' = NoRecord
        /\ \/ Waits(current', on) \/ Starts(current', t, on) \/ Stays(current', t, on)
           \/ Stops(current', t, on) \/ Joins(current', t, on)
     \/ Ends(current', t, on) /\ published' = current'
     \/ Splits(current', published', t, on)

(* The same of the states the functions work on.                           *)

LEMMA PostPumpMoves ==
  ASSUME NEW s, NEW t \in Int, NEW on \in BOOLEAN, NEW rising, NEW scale,
         current.phase = "POST_PUMP", Ticked(s.current, current, t), LinkShaped(s.link),
         s.link.pump = on, s.link.onStart = link.onStart, rising = Rises(on),
         NEW u, u = OnPostPump(s, t, rising, scale),
         current' = u.state.current, link' = u.state.link, published' = u.finished
  PROVE  UpdateMoves(t, on)
<1> DEFINE cause == SplitCause(s, scale)
           final == FinalCause(s, t)
           split == ToDone(s, t, cause)
           ended == ToDone(s, t, final)
<1>1. cause \in {"STABLE", "TIMEOUT"} /\ final \in {"STABLE", "TIMEOUT", "NONE"}
  BY DEF SplitCause, FinalCause
<1>2. final = "NONE" => NotOver(s.current, t)
  <2>1. PICK d \in Int : d = Minus(t, s.current.lastOff)
    <3>1. s.current.lastOff \in Int BY DEF Ticked, OpenRecord, Shaped
    <3> QED BY <3>1, Limits DEF Minus
  <2>2. EmptyTimeout \in Int /\ SettleTimeout \in Int BY RecorderConstants
  <2>3. final = "NONE" => ~(d > EmptyTimeout) \/ ~(d > SettleTimeout)
    BY <2>1 DEF FinalCause
  <2> QED BY <2>1, <2>2, <2>3 DEF NotOver
<1>3. OpenRecord(s.current) /\ s.current.phase = "POST_PUMP"
  BY DEF Ticked, SameLife
<1>4. \/ rising /\ u = Result(ToRunning(s, t), NoRecord)
      \/ rising /\ u = Result(ToRunning(ToIdle(split), t), split.current)
      \/ ~rising /\ final # "NONE" /\ u = Result(ended, ended.current)
      \/ ~rising /\ final = "NONE" /\ u = Result(s, NoRecord)
  <2>1. rising \in BOOLEAN BY DEF Rises
  <2> HIDE DEF split, ended, final
  <2>2. u = CASE rising /\ Coalesces(s, t, scale) -> Result(ToRunning(s, t), NoRecord)
              [] rising /\ ~Coalesces(s, t, scale) ->
                   Result(ToRunning(ToIdle(split), t), split.current)
              [] ~rising /\ final # "NONE" -> Result(ended, ended.current)
              [] OTHER -> Result(s, NoRecord)
    BY DEF OnPostPump, split, ended, final
  <2> QED BY <2>1, <2>2
<1> HIDE DEF cause, final, split, ended
<1>5. CASE rising /\ u = Result(ToRunning(s, t), NoRecord)
  <2>1. /\ current' = ToRunning(s, t).current /\ link' = ToRunning(s, t).link
        /\ published' = NoRecord
    <3>1. PICK x : x = ToRunning(s, t) OBVIOUS
    <3>2. u = Result(x, NoRecord) BY <1>5, <3>1
    <3>3. u.state = x /\ u.finished = NoRecord BY ONLY <3>2 DEF Result
    <3> QED BY <3>1, <3>3
  <2>2. Joins(current', t, on)
    <3>1. LET q == ToRunning(s, t).current
          IN /\ OpenRecord(q) /\ q.phase = "RUNNING" /\ q.begin = s.current.begin
             /\ q.pumpOn = s.current.pumpOn /\ ToRunning(s, t).link.onStart = t
             /\ q.samples = s.current.samples /\ EventAdded(q, s.current, t, "PUMP_ON")
      BY <1>3, ToRunningJoins
    <3> QED BY <1>5, <2>1, <3>1 DEF Joins
  <2>3. LinkShaped(ToRunning(s, t).link) /\ ToRunning(s, t).link.pump = s.link.pump
    BY <1>3, ToRunningJoins
  <2> QED BY <2>1, <2>2, <2>3 DEF UpdateMoves
<1>6. CASE rising /\ u = Result(ToRunning(ToIdle(split), t), split.current)
  <2>1. Finishes(split.current, s.current, t) /\ split.link = s.link
    BY <1>1, <1>3, ToDoneCloses DEF split
  <2>2. split.current.phase = "DONE" BY <2>1 DEF Finishes
  <2>3. PICK i : i = ToIdle(split) OBVIOUS
  <2>4. i.current = NewRecord /\ LinkShaped(i.link) /\ ~i.link.pump
    BY <2>1, <2>2, <2>3, ToIdleIsNew
  <2>5. /\ OpenRecord(ToRunning(i, t).current) /\ ToRunning(i, t).current.phase = "RUNNING"
        /\ Begun(ToRunning(i, t).current, t) /\ ToRunning(i, t).link.onStart = t
        /\ LinkShaped(ToRunning(i, t).link) /\ ToRunning(i, t).link.pump = i.link.pump
    BY <2>4, ToRunningBegins
  <2>6. /\ current' = ToRunning(i, t).current /\ link' = ToRunning(i, t).link
        /\ published' = split.current
    <3>1. PICK x : x = ToRunning(i, t) OBVIOUS
    <3>2. u = Result(x, split.current) BY <1>6, <2>3, <3>1
    <3>3. u.state = x /\ u.finished = split.current BY ONLY <3>2 DEF Result
    <3> QED BY <3>1, <3>3
  <2>7. Splits(current', published', t, on)
    BY <1>6, <2>1, <2>5, <2>6 DEF Splits
  <2> QED BY <2>4, <2>5, <2>6, <2>7 DEF UpdateMoves
<1>7. CASE ~rising /\ final # "NONE" /\ u = Result(ended, ended.current)
  <2>1. Finishes(ended.current, s.current, t) /\ ended.link = s.link
    BY <1>1, <1>3, <1>7, ToDoneCloses DEF ended
  <2>2. current' = ended.current /\ link' = s.link /\ published' = ended.current
    BY <1>7, <2>1 DEF Result
  <2>3. Ends(current', t, on) BY <1>7, <2>1, <2>2 DEF Ends
  <2> QED BY <2>2, <2>3 DEF UpdateMoves
<1>8. CASE ~rising /\ final = "NONE" /\ u = Result(s, NoRecord)
  <2>1. current' = s.current /\ link' = s.link /\ published' = NoRecord
    BY <1>8 DEF Result
  <2>2. Stays(current', t, on)
    BY <1>2, <1>8, <2>1 DEF Stays, InPumpWindow
  <2> QED BY <2>1, <2>2 DEF UpdateMoves
<1> QED BY <1>4, <1>5, <1>6, <1>7, <1>8

LEMMA UpdatedMoves ==
  ASSUME RecordInv, NEW t \in Int, NEW on \in BOOLEAN, NEW scale, scale.t \in Int,
         scale.present \in BOOLEAN,
         NEW u, u = Updated(State(current, link), t, on, scale),
         current' = u.state.current, link' = u.state.link, published' = u.finished
  PROVE  UpdateMoves(t, on)
<1> DEFINE s1 == IF InPumpWindow(current.phase) THEN RecordLiveTick(State(current, link), t, scale)
                 ELSE State(current, link)
           k == [s1.link EXCEPT !.present = scale.present, !.pump = on]
           s == State(s1.current, k)
           rising == on /\ ~s1.link.pump
           falling == ~on /\ s1.link.pump
<1>1. State(current, link).current = current /\ State(current, link).link = link BY DEF State
<1>2. /\ LinkShaped(s1.link) /\ s1.link.pump = link.pump /\ s1.link.onStart = link.onStart
      /\ InPumpWindow(current.phase) => Ticked(s1.current, current, t)
      /\ ~InPumpWindow(current.phase) => s1.current = current
  <2>1. CASE InPumpWindow(current.phase)
    <3>1. OpenRecord(current) BY <2>1 DEF RecordInv, InPumpWindow
    <3>2. s1 = RecordLiveTick(State(current, link), t, scale) BY <2>1
    <3> HIDE DEF s1
    <3> QED BY <2>1, <3>1, <3>2, LiveTickKeeps DEF RecordInv
  <2>2. CASE ~InPumpWindow(current.phase) BY <1>1, <2>2 DEF RecordInv
  <2> QED BY <2>1, <2>2
<1>3. u = CASE s.current.phase = "POST_PUMP" -> OnPostPump(s, t, rising, scale)
            [] s.current.phase = "RUNNING" /\ falling -> Result(ToPostPump(s, t), NoRecord)
            [] s.current.phase \in {"IDLE", "DONE"} /\ rising ->
                 Result(ToRunning(ToIdle(s), t), NoRecord)
            [] OTHER -> Result(s, NoRecord)
  <2> HIDE DEF s1
  <2> QED BY <1>1 DEF Updated, s1
<1> HIDE DEF s1
<1>4. LinkShaped(k) /\ k.pump = on /\ k.onStart = link.onStart BY <1>2 DEF LinkShaped
<1>5. s.current = s1.current /\ s.link = k BY DEF State
<1>6. s.current.phase = current.phase /\ rising = Rises(on) /\ falling = (~on /\ link.pump)
  BY <1>2, <1>5 DEF Ticked, SameLife, Rises
<1>7. link.pump \in BOOLEAN BY DEF RecordInv, LinkShaped
<1> HIDE DEF s, k, rising, falling
<1>8. CASE current.phase = "POST_PUMP"
  <2>1. u = OnPostPump(s, t, rising, scale) BY <1>3, <1>6, <1>8
  <2>2. Ticked(s.current, current, t) BY <1>2, <1>5, <1>8 DEF InPumpWindow
  <2> QED BY <1>4, <1>5, <1>6, <1>8, <2>1, <2>2, PostPumpMoves
<1>9. CASE current.phase = "RUNNING"
  <2>1. Ticked(s.current, current, t) BY <1>2, <1>5, <1>9 DEF InPumpWindow
  <2>2. CASE falling
    <3>1. u = Result(ToPostPump(s, t), NoRecord) BY <1>3, <1>6, <1>9, <2>2
    <3>2. /\ current' = ToPostPump(s, t).current /\ link' = ToPostPump(s, t).link
          /\ published' = NoRecord
      BY <3>1 DEF Result
    <3>3. OpenRecord(s.current) BY <2>1 DEF Ticked
    <3>4. /\ OpenRecord(current') /\ current'.phase = "POST_PUMP"
          /\ current'.samples = s.current.samples /\ current'.begin = s.current.begin
          /\ current'.lastOff = t
          /\ current'.pumpOn = s.current.pumpOn + Minus(t, link.onStart)
          /\ EventAdded(current', s.current, t, "PUMP_OFF_CONFIRMED") /\ link' = s.link
      BY <1>4, <1>5, <3>2, <3>3, ToPostPumpKeeps
    <3>5. Stops(current', t, on) BY <1>6, <1>9, <2>1, <2>2, <3>4 DEF Stops
    <3> QED BY <1>4, <1>5, <3>2, <3>4, <3>5 DEF UpdateMoves
  <2>3. CASE ~falling
    <3>1. u = Result(s, NoRecord) BY <1>3, <1>6, <1>9, <2>3
    <3>2. current' = s.current /\ link' = s.link /\ published' = NoRecord
      BY <3>1 DEF Result
    <3>3. Stays(current', t, on)
      BY <1>4, <1>5, <1>6, <1>9, <2>1, <2>3, <3>2 DEF Stays, InPumpWindow
    <3> QED BY <1>4, <1>5, <3>2, <3>3 DEF UpdateMoves
  <2> QED BY <2>2, <2>3
<1>10. CASE current.phase \in {"IDLE", "DONE"}
  <2>1. ~InPumpWindow(current.phase) BY <1>10 DEF InPumpWindow
  <2>2. CASE rising
    <3>1. u = Result(ToRunning(ToIdle(s), t), NoRecord) BY <1>3, <1>6, <1>10, <2>2
    <3>2. PICK i : i = ToIdle(s) OBVIOUS
    <3>3. s.current.phase = "IDLE" => s.current = NewRecord
      BY <1>2, <1>5, <2>1 DEF RecordInv
    <3>4. /\ i.current = NewRecord /\ LinkShaped(i.link) /\ (i.link.pump => on)
          /\ s.current.phase = "IDLE" => i.link = k
      BY <1>4, <1>5, <3>2, <3>3, ToIdleIsNew
    <3>5. /\ OpenRecord(ToRunning(i, t).current) /\ ToRunning(i, t).current.phase = "RUNNING"
          /\ Begun(ToRunning(i, t).current, t) /\ ToRunning(i, t).link.onStart = t
          /\ LinkShaped(ToRunning(i, t).link) /\ ToRunning(i, t).link.pump = i.link.pump
      BY <3>4, ToRunningBegins
    <3>6. /\ current' = ToRunning(i, t).current /\ link' = ToRunning(i, t).link
          /\ published' = NoRecord
      BY <3>1, <3>2 DEF Result
    <3>7. current.phase = "IDLE" => link'.pump = on BY <1>4, <1>6, <3>4, <3>5, <3>6
    <3>8. Starts(current', t, on) BY <1>6, <2>1, <2>2, <3>5, <3>6, <3>7 DEF Starts
    <3> QED BY <3>4, <3>5, <3>6, <3>8 DEF UpdateMoves
  <2>3. CASE ~rising
    <3>1. u = Result(s, NoRecord) BY <1>3, <1>6, <1>10, <2>3
    <3>2. current' = s.current /\ link' = s.link /\ published' = NoRecord
      BY <3>1 DEF Result
    <3>3. Waits(current', on) BY <1>2, <1>5, <1>6, <2>1, <2>3, <3>2 DEF Waits
    <3> QED BY <1>4, <1>5, <3>2, <3>3 DEF UpdateMoves
  <2> QED BY <2>2, <2>3
<1> QED BY <1>8, <1>9, <1>10 DEF RecordInv, Phases

LEMMA UpdateIsMove ==
  ASSUME RecordInv, NEW gap \in Gaps, NEW on \in BOOLEAN, RecorderUpdate(gap, on)
  PROVE  /\ UpdateMoves(now', on) /\ now' = (now + gap) % ClockRange
         /\ now' \in Int /\ reading' \in Int /\ gap \in Int
<1> DEFINE t == (now + gap) % ClockRange
<1>1. gap \in Int /\ now \in Int /\ reading \in Int
  BY Limits, RecorderConstants DEF Gaps, RecordInv
<1>2. t \in Int BY <1>1, Limits
<1>3. now' = t BY DEF RecorderUpdate
<1> HIDE DEF t
<1>4. PICK scale \in Scales(t) :
        LET r == Updated(State(current, link), t, on, scale)
        IN /\ reading' = scale.t /\ current' = r.state.current
           /\ link' = r.state.link /\ published' = r.finished
  BY DEF RecorderUpdate, t
<1>5. scale.t \in Int /\ scale.present \in BOOLEAN
  <2>1. Arrived(t) \in Int BY <1>2, Limits DEF Arrived, Nudged, Minus
  <2> DEFINE Gone == {Scale(FALSE, 0, "none", FALSE)}
             Known == {Scale(TRUE, x, "none", FALSE) :
                          x \in {y \in {reading} : y = 0 \/ Minus(t, y) <= MaxAge}}
             Unread == {Scale(TRUE, x, b, e) :
                          x \in {Arrived(t)} \ {reading}, b \in Bands, e \in BOOLEAN}
  <2>2. Scales(t) = Gone \cup Known \cup Unread BY DEF Scales
  <2>3. scale \in Gone => scale.t = 0 /\ scale.present = FALSE BY DEF Scale
  <2>4. scale \in Known => scale.t = reading /\ scale.present = TRUE BY DEF Scale
  <2>5. scale \in Unread => scale.t = Arrived(t) /\ scale.present = TRUE BY DEF Scale
  <2> HIDE DEF Gone, Known, Unread
  <2>6. scale.t \in Int BY <1>1, <2>1, <2>2, <2>3, <2>4, <2>5
  <2>7. scale.present = TRUE \/ scale.present = FALSE
    BY <2>2, <2>3, <2>4, <2>5
  <2>8. scale.present \in BOOLEAN BY <2>7
  <2> QED BY <2>6, <2>8
<1>6. UpdateMoves(t, on) BY <1>2, <1>4, <1>5, UpdatedMoves
<1> QED BY <1>1, <1>2, <1>3, <1>4, <1>5, <1>6 DEF t

LEMMA BegunIsNew ==
  ASSUME NEW q, Begun(q, now'), OpenRecord(q), q.phase = "RUNNING"
  PROVE  Life(q) = Started(now', "live")
BY DEF Begun, Life, Started

LEMMA TickedIsSampled ==
  ASSUME NEW q, NEW r, NEW t, Ticked(q, r, t)
  PROVE  Life(q) \in Sampled(Life(r), MaxSamples)
<1>1. q.phase = r.phase /\ q.begin = r.begin BY DEF Ticked, SameLife
<1>2. CASE q.samples = r.samples BY <1>1, <1>2 DEF Life, Sampled
<1>3. CASE Len(q.samples) = Len(r.samples) + 1 /\ Len(r.samples) < MaxSamples
  BY <1>1, <1>3 DEF Life, Sampled
<1> QED BY <1>2, <1>3 DEF Ticked, SampleAdded

LEMMA FinalizedIsShot ==
  ASSUME NEW c, NEW q, NEW t, Finishes(c, q, t)
  PROVE  /\ c # NoRecord /\ Life(c) = [Life(q) EXCEPT !.phase = "DONE"]
         /\ ShotOf(Life(c)) = ShotOf(Life(q))
<1>1. c.phase = "DONE" /\ c.begin = q.begin /\ c.samples = q.samples BY DEF Finishes
<1>2. NoRecord.phase = "IDLE" BY DEF NoRecord, NewRecord
<1> QED BY <1>1, <1>2 DEF Life, ShotOf

(* The outcomes of an open record, with and without its end.               *)
Moved(x, phase) == Outcome([x EXCEPT !.phase = phase], NoShot)
Openings(record) ==
  {Moved(s, p) : s \in Sampled(record, MaxSamples), p \in {"RUNNING", "POST_PUMP"}}
Ended(x, new) ==
  {Outcome([x EXCEPT !.phase = "DONE"], ShotOf(x)), Outcome(new, ShotOf(x))}
Closings(record, new) == UNION {Ended(s, new) : s \in Sampled(record, MaxSamples)}

LEMMA OpenOutcomes ==
  ASSUME NEW record, NEW begin
  PROVE  /\ record.phase = "RUNNING" =>
              Updates(record, begin, "live", MaxSamples) = Openings(record)
         /\ record.phase = "POST_PUMP" =>
              Updates(record, begin, "live", MaxSamples)
                = Openings(record) \cup Closings(record, Started(begin, "live"))
<1>1. ASSUME record.phase = "RUNNING"
      PROVE  Updates(record, begin, "live", MaxSamples) = Openings(record)
  BY <1>1 DEF Updates, Openings, Moved
<1>2. ASSUME record.phase = "POST_PUMP"
      PROVE  Updates(record, begin, "live", MaxSamples)
               = Openings(record) \cup Closings(record, Started(begin, "live"))
  BY <1>2 DEF Updates, Openings, Moved, Closings, Ended
<1> QED BY <1>1, <1>2

LEMMA MovedIsOpen ==
  ASSUME NEW record, NEW q \in Sampled(record, MaxSamples), NEW p \in {"RUNNING", "POST_PUMP"}
  PROVE  Outcome([q EXCEPT !.phase = p], NoShot) \in Openings(record)
<1>1. Moved(q, p) \in Openings(record) BY DEF Openings
<1> QED BY <1>1 DEF Moved

LEMMA EndedIsClosing ==
  ASSUME NEW record, NEW q \in Sampled(record, MaxSamples), NEW new
  PROVE  /\ Outcome([q EXCEPT !.phase = "DONE"], ShotOf(q)) \in Closings(record, new)
         /\ Outcome(new, ShotOf(q)) \in Closings(record, new)
<1>1. Ended(q, new) \subseteq Closings(record, new) BY DEF Closings
<1> QED BY <1>1 DEF Ended

LEMMA UpdateKeepsLife ==
  ASSUME RecordInv, NEW on \in BOOLEAN, UpdateMoves(now', on)
  PROVE  LifeOutcome(current', published') \in Updates(Life(current), now', "live", MaxSamples)
<1> DEFINE life == Life(current)
           new == Started(now', "live")
           outcomes == Updates(life, now', "live", MaxSamples)
<1>1. life.phase = current.phase BY DEF Life
<1>2. current.phase \in Phases BY DEF RecordInv
<1>3. current.phase \in {"IDLE", "DONE"} =>
        outcomes = {Outcome(life, NoShot), Outcome(new, NoShot)}
  <2> HIDE DEF life
  <2> QED BY <1>1 DEF Updates
<1>4. ASSUME current.phase \in {"RUNNING", "POST_PUMP"}, NEW q \in Sampled(life, MaxSamples),
             NEW p \in {"RUNNING", "POST_PUMP"}
      PROVE  Outcome([q EXCEPT !.phase = p], NoShot) \in outcomes
  <2> HIDE DEF life
  <2>1. CASE current.phase = "RUNNING"
    BY <1>1, <1>4, <2>1, OpenOutcomes, MovedIsOpen
  <2>2. CASE current.phase = "POST_PUMP"
    BY <1>1, <1>4, <2>2, OpenOutcomes, MovedIsOpen
  <2> QED BY <1>4, <2>1, <2>2
<1>5. ASSUME current.phase = "POST_PUMP", NEW q \in Sampled(life, MaxSamples)
      PROVE  /\ Outcome([q EXCEPT !.phase = "DONE"], ShotOf(q)) \in outcomes
             /\ Outcome(new, ShotOf(q)) \in outcomes
  <2> HIDE DEF life, new
  <2>1. /\ Outcome([q EXCEPT !.phase = "DONE"], ShotOf(q)) \in Closings(life, new)
        /\ Outcome(new, ShotOf(q)) \in Closings(life, new)
    BY EndedIsClosing
  <2> QED BY <1>1, <1>5, <2>1, OpenOutcomes DEF new
<1> SUFFICES LifeOutcome(current', published') \in outcomes OBVIOUS
<1> HIDE DEF life, new, outcomes
<1>6. CASE published' = NoRecord
  <2>1. LifeOutcome(current', published') = Outcome(Life(current'), NoShot)
    BY <1>6 DEF LifeOutcome
  <2>2. CASE Waits(current', on)
    BY <1>2, <1>3, <2>1, <2>2 DEF Waits, InPumpWindow, Phases, life
  <2>3. CASE Starts(current', now', on)
    <3>1. Life(current') = new BY <2>3, BegunIsNew DEF Starts, new
    <3>2. current.phase \in {"IDLE", "DONE"} BY <1>2, <2>3 DEF Starts, InPumpWindow, Phases
    <3> QED BY <1>3, <2>1, <3>1, <3>2
  <2>4. ASSUME NEW q, NEW c, Ticked(q, current, now'), c.phase \in {"RUNNING", "POST_PUMP"},
               current.phase \in {"RUNNING", "POST_PUMP"},
               c.begin = q.begin, c.samples = q.samples
        PROVE  Outcome(Life(c), NoShot) \in outcomes
    <3>1. Life(q) \in Sampled(life, MaxSamples) BY <2>4, TickedIsSampled DEF life
    <3>2. Life(c) = [Life(q) EXCEPT !.phase = c.phase] BY <2>4 DEF Life
    <3> QED BY <1>4, <2>4, <3>1, <3>2
  <2>5. CASE Stays(current', now', on)
    <3>1. Ticked(current', current, now') /\ current.phase \in {"RUNNING", "POST_PUMP"}
          /\ current'.phase = current.phase
      BY <2>5 DEF Stays, InPumpWindow, Ticked, SameLife
    <3> QED BY <2>1, <2>4, <3>1
  <2>6. CASE Stops(current', now', on) BY <2>1, <2>4, <2>6 DEF Stops
  <2>7. CASE Joins(current', now', on) BY <2>1, <2>4, <2>7 DEF Joins
  <2> QED BY <1>6, <2>2, <2>3, <2>5, <2>6, <2>7, FinalizedIsShot DEF UpdateMoves, Ends, Splits
<1>7. CASE Ends(current', now', on) /\ published' = current'
  <2>1. PICK q : Ticked(q, current, now') /\ Finishes(current', q, now') BY <1>7 DEF Ends
  <2>2. /\ current' # NoRecord /\ Life(current') = [Life(q) EXCEPT !.phase = "DONE"]
        /\ ShotOf(Life(current')) = ShotOf(Life(q))
    BY <2>1, FinalizedIsShot
  <2>3. Life(q) \in Sampled(life, MaxSamples) BY <2>1, TickedIsSampled DEF life
  <2>4. current.phase = "POST_PUMP" BY <1>7 DEF Ends
  <2>5. LifeOutcome(current', published')
          = Outcome([Life(q) EXCEPT !.phase = "DONE"], ShotOf(Life(q)))
    BY <1>7, <2>2 DEF LifeOutcome
  <2> QED BY <1>5, <2>3, <2>4, <2>5
<1>8. CASE Splits(current', published', now', on)
  <2>1. PICK q : Ticked(q, current, now') /\ Finishes(published', q, now') BY <1>8 DEF Splits
  <2>2. published' # NoRecord /\ ShotOf(Life(published')) = ShotOf(Life(q))
    BY <2>1, FinalizedIsShot
  <2>3. Life(q) \in Sampled(life, MaxSamples) BY <2>1, TickedIsSampled DEF life
  <2>4. current.phase = "POST_PUMP" /\ Life(current') = new BY <1>8, BegunIsNew DEF Splits, new
  <2>5. LifeOutcome(current', published') = Outcome(new, ShotOf(Life(q)))
    BY <2>2, <2>4 DEF LifeOutcome
  <2> QED BY <1>5, <2>3, <2>4, <2>5
<1> QED BY <1>6, <1>7, <1>8 DEF UpdateMoves

LEMMA AlarmKeeps ==
  ASSUME RecordInv, TriggerAlarm
  PROVE  /\ OpenRecord(current) /\ OpenRecord(current') /\ SameLife(current', current)
         /\ current.phase = "RUNNING" /\ current'.samples = current.samples
         /\ EventAdded(current', current, now, "ALARM_TRIGGERED")
<1>1. PICK r : r = [current EXCEPT !.alarm = now] OBVIOUS
<1>2. current.phase = "RUNNING" /\ OpenRecord(current) /\ now \in Int
  BY DEF TriggerAlarm, RecordInv
<1>3. /\ OpenRecord(r) /\ SameLife(r, current) /\ r.samples = current.samples
      /\ r.events = current.events /\ r.overflowed = current.overflowed
  BY <1>1, <1>2 DEF OpenRecord, Shaped, SameLife
<1>4. current' = AppendEvent(r, now, "ALARM_TRIGGERED") BY <1>1 DEF TriggerAlarm
<1>5. /\ OpenRecord(current') /\ SameLife(current', r) /\ current'.samples = r.samples
      /\ EventAdded(current', r, now, "ALARM_TRIGGERED")
  BY <1>2, <1>3, <1>4, AppendEventKeeps DEF Kinds
<1> QED BY <1>2, <1>3, <1>5 DEF SameLife, EventAdded

LEMMA ClearKeeps ==
  ASSUME RecordInv, Clear
  PROVE  /\ current' = NewRecord /\ LinkShaped(link') /\ published' = NoRecord
         /\ link'.pump => link.pump /\ current.phase = "IDLE"
         /\ UNCHANGED <<now, reading, pumpFor>>
<1>1. PICK s : s = State(current, link) OBVIOUS
<1>2. s.current = current /\ s.link = link BY <1>1 DEF State
<1>3. current' = ToIdle(s).current /\ link' = ToIdle(s).link BY <1>1 DEF Clear
<1>4. /\ ToIdle(s).current = NewRecord /\ LinkShaped(ToIdle(s).link)
      /\ ToIdle(s).link.pump => s.link.pump /\ s.current.phase = "IDLE"
  BY <1>2, ToIdleIsNew DEF RecordInv
<1> QED BY <1>2, <1>3, <1>4 DEF Clear

LEMMA RecordInvInit == RecorderInit => RecordInv
<1> SUFFICES ASSUME RecorderInit PROVE RecordInv OBVIOUS
<1>1. PICK z \in Int : z = 0 OBVIOUS
<1>2. NewLink = [stamp |-> z, present |-> FALSE, pump |-> FALSE, onStart |-> z, fed |-> z,
                 tracker |-> FreshTracker]
  BY <1>1 DEF NewLink
<1>3. LinkShaped(link) BY <1>2 DEF RecorderInit, LinkShaped
<1> QED BY <1>3, NewRecordIsOpen DEF RecorderInit, RecordInv, Phases

LEMMA RecordInvStep == RecordInv /\ [RecorderNext]_pullVars => RecordInv'
<1> SUFFICES ASSUME RecordInv, [RecorderNext]_pullVars PROVE RecordInv' OBVIOUS
<1>1. CASE AnyUpdate
  <2>1. PICK gap \in Gaps, on \in BOOLEAN : RecorderUpdate(gap, on) BY <1>1 DEF AnyUpdate
  <2>2. UpdateMoves(now', on) /\ now' \in Int /\ reading' \in Int BY <2>1, UpdateIsMove
  <2>3. CASE Waits(current', on) BY <2>2, <2>3 DEF Waits, RecordInv, UpdateMoves
  <2>4. CASE Starts(current', now', on) \/ Splits(current', published', now', on)
    <3>1. OpenRecord(current') /\ current'.phase = "RUNNING" BY <2>4 DEF Starts, Splits
    <3> QED BY <2>2, <3>1 DEF RecordInv, UpdateMoves, Phases
  <2>5. CASE Stays(current', now', on)
    <3>1. OpenRecord(current') /\ current'.phase \in {"RUNNING", "POST_PUMP"}
      BY <2>5 DEF Stays, Ticked, SameLife, InPumpWindow
    <3> QED BY <2>2, <3>1 DEF RecordInv, UpdateMoves, Phases
  <2>6. CASE Stops(current', now', on) \/ Joins(current', now', on)
    <3>1. OpenRecord(current') /\ current'.phase \in {"RUNNING", "POST_PUMP"}
      BY <2>6 DEF Stops, Joins
    <3> QED BY <2>2, <3>1 DEF RecordInv, UpdateMoves, Phases
  <2>7. CASE Ends(current', now', on)
    <3>1. current'.phase = "DONE" BY <2>7 DEF Ends, Finishes
    <3> QED BY <2>2, <3>1 DEF RecordInv, UpdateMoves, Phases
  <2> QED BY <2>2, <2>3, <2>4, <2>5, <2>6, <2>7 DEF UpdateMoves
<1>2. CASE Clear
  BY <1>2, ClearKeeps, NewRecordIsOpen DEF RecordInv, Phases
<1>3. CASE TriggerAlarm
  <2>1. OpenRecord(current') /\ current'.phase = "RUNNING" BY <1>3, AlarmKeeps DEF SameLife
  <2>2. UNCHANGED <<now, reading, link>> BY <1>3 DEF TriggerAlarm
  <2> QED BY <2>1, <2>2 DEF RecordInv, Phases
<1>4. CASE UNCHANGED pullVars BY <1>4 DEF RecordInv, pullVars
<1> QED BY <1>1, <1>2, <1>3, <1>4 DEF RecorderNext

(* The recorder keeps the promise the controller is modelled with: every   *)
(* update() does to the record what ShotLifecycle allows, clear() and      *)
(* triggerAlarm() no more than clear it (ExtractionRecorder.h).            *)
THEOREM LifecycleKept == RecorderSpec => KeepsLifecycle
<1>1. RecorderInit => RecordInv BY RecordInvInit
<1>2. RecordInv /\ [RecorderNext]_pullVars => RecordInv' BY RecordInvStep
<1>3. RecordInv /\ [RecorderNext]_pullVars =>
        [/\ AnyUpdate => LifeOutcome(current', published')
                           \in Updates(Life(current), now', "live", MaxSamples)
         /\ Clear \/ TriggerAlarm => Life(current') \in {Life(current), Cleared}]_pullVars
  <2> SUFFICES ASSUME RecordInv, RecorderNext
               PROVE  /\ AnyUpdate => LifeOutcome(current', published')
                           \in Updates(Life(current), now', "live", MaxSamples)
                      /\ Clear \/ TriggerAlarm => Life(current') \in {Life(current), Cleared}
    OBVIOUS
  <2>1. ASSUME AnyUpdate
        PROVE  LifeOutcome(current', published')
                 \in Updates(Life(current), now', "live", MaxSamples)
    <3>1. PICK gap \in Gaps, on \in BOOLEAN : RecorderUpdate(gap, on) BY <2>1 DEF AnyUpdate
    <3> QED BY <3>1, UpdateIsMove, UpdateKeepsLife
  <2>2. ASSUME Clear PROVE Life(current') = Cleared
    <3>1. current' = NewRecord BY <2>2, ClearKeeps
    <3>2. NewRecord.phase = "IDLE" /\ NewRecord.begin = 0 /\ NewRecord.samples = <<>>
      BY DEF NewRecord
    <3> QED BY <3>1, <3>2 DEF Life, Cleared
  <2>3. ASSUME TriggerAlarm PROVE Life(current') = Life(current)
    BY <2>3, AlarmKeeps DEF SameLife, Life
  <2> QED BY <2>1, <2>2, <2>3
<1> QED BY <1>1, <1>2, <1>3, PTL DEF RecorderSpec, KeepsLifecycle

------------------------------------------------------------------------------
(* The recorder: the pump in a record's events.                            *)

(* Every pulse is closed but, when open, the last.                         *)
Pulses(e, open) ==
  /\ \E i \in Pumps(e) : LastPump(e, i)
  /\ \A i \in Pumps(e) : LastPump(e, i)
       => e[i].kind = IF open THEN "PUMP_ON" ELSE "PUMP_OFF_CONFIRMED"
  /\ \A i \in Pumps(e) : Turns(e, i, "PUMP_ON")
       => \/ open /\ LastPump(e, i)
          \/ \E j \in Pumps(e) : NextPump(e, i, j) /\ Turns(e, j, "PUMP_OFF_CONFIRMED")
  /\ \A j \in Pumps(e) : Turns(e, j, "PUMP_OFF_CONFIRMED")
       => \E i \in Pumps(e) : NextPump(e, i, j) /\ Turns(e, i, "PUMP_ON")

SamePumps(new, old) ==
  Pumps(new) = Pumps(old) /\ \A i \in Pumps(old) : new[i] = old[i]

LEMMA SamePulses ==
  ASSUME NEW new, NEW old, SamePumps(new, old), NEW open \in BOOLEAN, Pulses(old, open)
  PROVE  Pulses(new, open)
<1>1. \A i, j : NextPump(new, i, j) <=> NextPump(old, i, j) BY DEF SamePumps, NextPump
<1>2. \A i, kind : Turns(new, i, kind) <=> Turns(old, i, kind) BY DEF SamePumps, Turns
<1>3. \A i : LastPump(new, i) <=> LastPump(old, i) BY DEF SamePumps, LastPump
<1>4. Pumps(new) = Pumps(old) /\ \A i \in Pumps(old) : new[i] = old[i] BY DEF SamePumps
<1> QED BY <1>1, <1>2, <1>3, <1>4 DEF Pulses

LEMMA PulsesAreClosed ==
  ASSUME NEW e, Pulses(e, FALSE)
  PROVE  PulsesClosed(e)
<1>1. Pumps(e) \subseteq 1..Len(e) BY DEF Pumps
<1>2. \A i, kind : Turns(e, i, kind) => i \in Pumps(e) BY DEF Turns
<1> QED BY <1>1, <1>2 DEF Pulses, PulsesClosed

LEMMA QuietExtends ==
  ASSUME NEW old \in Seq(Entries), NEW new, NEW t, NEW kind,
         Extends(new, old, t, kind), kind \notin {"PUMP_ON", "PUMP_OFF_CONFIRMED"}
  PROVE  SamePumps(new, old)
<1>1. Len(old) \in Nat BY LenProperties
<1> QED BY <1>1 DEF SamePumps, Pumps, IsPump, Extends

LEMMA PumpExtends ==
  ASSUME NEW old \in Seq(Entries), NEW new, NEW t, NEW kind \in {"PUMP_ON", "PUMP_OFF_CONFIRMED"},
         Extends(new, old, t, kind)
  PROVE  /\ Len(old) + 1 \in Pumps(new) /\ new[Len(old) + 1].kind = kind
         /\ Pumps(new) = Pumps(old) \cup {Len(old) + 1}
         /\ \A i \in Pumps(old) : i \in 1..Len(old) /\ new[i] = old[i]
         /\ \A i : LastPump(new, i) <=> i = Len(old) + 1
         /\ Len(old) \in Nat
<1>1. Len(old) \in Nat BY LenProperties
<1>2. /\ Len(old) + 1 \in Pumps(new) /\ new[Len(old) + 1].kind = kind
      /\ Pumps(new) = Pumps(old) \cup {Len(old) + 1}
      /\ \A i \in Pumps(old) : i \in 1..Len(old) /\ new[i] = old[i]
  BY <1>1 DEF Pumps, IsPump, Extends
<1>3. \A i : LastPump(new, i) <=> i = Len(old) + 1
  BY <1>1, <1>2 DEF LastPump
<1> QED BY <1>1, <1>2, <1>3

LEMMA PulseOpens ==
  ASSUME NEW old \in Seq(Entries), NEW new, NEW t, Extends(new, old, t, "PUMP_ON"),
         Pulses(old, FALSE)
  PROVE  Pulses(new, TRUE)
<1> DEFINE n == Len(old) + 1
<1>1. /\ n \in Pumps(new) /\ new[n].kind = "PUMP_ON"
      /\ Pumps(new) = Pumps(old) \cup {n}
      /\ \A i \in Pumps(old) : i \in 1..Len(old) /\ new[i] = old[i]
      /\ \A i : LastPump(new, i) <=> i = n
      /\ Len(old) \in Nat
  BY PumpExtends
<1>2. \A i, j \in Pumps(old) : NextPump(old, i, j) => NextPump(new, i, j)
  BY <1>1 DEF NextPump
<1>3. \A i \in Pumps(old) : \A kind : Turns(old, i, kind) <=> Turns(new, i, kind)
  BY <1>1 DEF Turns
<1>4. \A i \in Pumps(new) : Turns(new, i, "PUMP_ON")
        => \/ LastPump(new, i)
           \/ \E j \in Pumps(new) : NextPump(new, i, j) /\ Turns(new, j, "PUMP_OFF_CONFIRMED")
  BY <1>1, <1>2, <1>3 DEF Pulses
<1>5. \A j \in Pumps(new) : Turns(new, j, "PUMP_OFF_CONFIRMED")
        => \E i \in Pumps(new) : NextPump(new, i, j) /\ Turns(new, i, "PUMP_ON")
  <2>1. ~Turns(new, n, "PUMP_OFF_CONFIRMED") BY <1>1 DEF Turns
  <2> QED BY <1>1, <1>2, <1>3, <2>1 DEF Pulses
<1> QED BY <1>1, <1>4, <1>5 DEF Pulses

LEMMA PulseCloses ==
  ASSUME NEW old \in Seq(Entries), NEW new, NEW t, Extends(new, old, t, "PUMP_OFF_CONFIRMED"),
         Pulses(old, TRUE)
  PROVE  /\ Pulses(new, FALSE)
         /\ \A i \in Pumps(new) : LastPump(new, i) => new[i].t = t
<1> DEFINE n == Len(old) + 1
<1>1. /\ n \in Pumps(new) /\ new[n].kind = "PUMP_OFF_CONFIRMED"
      /\ Pumps(new) = Pumps(old) \cup {n}
      /\ \A i \in Pumps(old) : i \in 1..Len(old) /\ new[i] = old[i]
      /\ \A i : LastPump(new, i) <=> i = n
      /\ Len(old) \in Nat
  BY PumpExtends
<1>2. \A i, j \in Pumps(old) : NextPump(old, i, j) => NextPump(new, i, j)
  BY <1>1 DEF NextPump
<1>3. \A i \in Pumps(old) : \A kind : Turns(old, i, kind) <=> Turns(new, i, kind)
  BY <1>1 DEF Turns
<1>4. PICK last \in Pumps(old) : LastPump(old, last) /\ old[last].kind = "PUMP_ON"
  BY DEF Pulses
<1>5. NextPump(new, last, n) /\ Turns(new, n, "PUMP_OFF_CONFIRMED") /\ Turns(new, last, "PUMP_ON")
  BY <1>1, <1>4 DEF NextPump, LastPump, Turns
<1>6. \A i \in Pumps(old) : LastPump(old, i) => i = last
  BY <1>1, <1>4 DEF LastPump
<1>7. \A i \in Pumps(new) : Turns(new, i, "PUMP_ON")
        => \E j \in Pumps(new) : NextPump(new, i, j) /\ Turns(new, j, "PUMP_OFF_CONFIRMED")
  <2>1. ~Turns(new, n, "PUMP_ON") BY <1>1 DEF Turns
  <2> QED BY <1>1, <1>2, <1>3, <1>5, <1>6, <2>1 DEF Pulses
<1>8. \A j \in Pumps(new) : Turns(new, j, "PUMP_OFF_CONFIRMED")
        => \E i \in Pumps(new) : NextPump(new, i, j) /\ Turns(new, i, "PUMP_ON")
  BY <1>1, <1>2, <1>3, <1>5 DEF Pulses
<1>9. new[n].t = t BY DEF Extends
<1> QED BY <1>1, <1>7, <1>8, <1>9 DEF Pulses

LEMMA FirstPulse ==
  ASSUME NEW q, NEW t, Begun(q, t)
  PROVE  Pulses(q.events, TRUE) /\ Pumps(q.events) = {2}
<1> DEFINE e == q.events
<1>1. Len(e) = 2 /\ e[1].kind = "BEGIN" /\ e[2].kind = "PUMP_ON" BY DEF Begun
<1> HIDE DEF e
<1>2. Pumps(e) = {2} BY <1>1 DEF Pumps, IsPump
<1>3. \A i : LastPump(e, i) <=> i = 2 BY <1>2 DEF LastPump
<1> QED BY <1>1, <1>2, <1>3 DEF Pulses, Turns, e

(* A record's events in plain time order, from its begin to u.             *)
Ordered(e, begin, u) ==
  /\ 1 \in 1..Len(e) /\ e[1].t = begin /\ e[1].kind = "BEGIN"
  /\ \A i \in 1..Len(e) : begin <= e[i].t /\ e[i].t <= u
  /\ \A i, j \in 1..Len(e) : i <= j => e[i].t <= e[j].t

(* The pump is off since lastOff.                                          *)
PulseOver(r) ==
  /\ \A i \in Pumps(r.events) : r.events[i].t <= r.lastOff
  /\ ~r.overflowed =>
       /\ Pulses(r.events, FALSE)
       /\ \A i \in Pumps(r.events) : LastPump(r.events, i) => r.events[i].t = r.lastOff

LEMMA EntryTypes ==
  ASSUME NEW e \in Seq(Entries)
  PROVE  Len(e) \in Nat /\ \A i \in 1..Len(e) : e[i].t \in Int /\ e[i] = Event(e[i].t, e[i].kind)
<1>1. \A i \in 1..Len(e) : e[i] \in Entries BY ElementOfSeq
<1>2. \A x \in Entries : x.t \in Int /\ x = Event(x.t, x.kind) BY DEF Entries, Event
<1> QED BY <1>1, <1>2, LenProperties

LEMMA OrderedExtends ==
  ASSUME NEW old \in Seq(Entries), NEW new, NEW begin \in Int, NEW u \in Int, NEW t \in Int,
         NEW kind, Ordered(old, begin, u), u <= t, Extends(new, old, t, kind)
  PROVE  Ordered(new, begin, t)
<1>1. Len(old) \in Nat /\ \A i \in 1..Len(old) : old[i].t \in Int BY EntryTypes
<1>2. \A i \in 1..Len(new) : i \in 1..Len(old) \/ i = Len(old) + 1 BY <1>1 DEF Extends
<1>3. \A i \in 1..Len(old) : new[i] = old[i] BY DEF Extends
<1>4. new[Len(old) + 1].t = t BY DEF Extends
<1>5. begin <= u BY <1>1 DEF Ordered
<1>6. \A i \in 1..Len(new) : begin <= new[i].t /\ new[i].t <= t
  <2> SUFFICES ASSUME NEW i \in 1..Len(new)
               PROVE  begin <= new[i].t /\ new[i].t <= t
    OBVIOUS
  <2>1. CASE i = Len(old) + 1 BY <1>4, <1>5, <2>1
  <2>2. CASE i \in 1..Len(old)
    <3>1. begin <= old[i].t /\ old[i].t <= u /\ old[i].t \in Int BY <1>1, <2>2 DEF Ordered
    <3> QED BY <1>3, <2>2, <3>1
  <2> QED BY <1>2, <2>1, <2>2
<1>7. \A i, j \in 1..Len(new) : i <= j => new[i].t <= new[j].t
  <2> SUFFICES ASSUME NEW i \in 1..Len(new), NEW j \in 1..Len(new), i <= j
               PROVE  new[i].t <= new[j].t
    OBVIOUS
  <2>1. CASE j = Len(old) + 1 BY <1>4, <1>6, <2>1
  <2>2. CASE j \in 1..Len(old)
    <3>1. i \in 1..Len(old) BY <1>1, <2>2
    <3> QED BY <1>3, <2>2, <3>1 DEF Ordered
  <2> QED BY <1>2, <2>1, <2>2
<1>8. 1 \in 1..Len(new) /\ new[1].t = begin /\ new[1].kind = "BEGIN"
  BY <1>1, <1>3 DEF Ordered, Extends
<1> QED BY <1>6, <1>7, <1>8 DEF Ordered

LEMMA OrderedLater ==
  ASSUME NEW e \in Seq(Entries), NEW begin \in Int, NEW u \in Int, NEW t \in Int,
         Ordered(e, begin, u), u <= t
  PROVE  Ordered(e, begin, t)
BY EntryTypes DEF Ordered

LEMMA OrderedAdds ==
  ASSUME NEW r, OpenRecord(r), NEW q, NEW u \in Int, NEW t \in Int, NEW kind,
         Ordered(r.events, r.begin, u), u <= t, EventAdded(q, r, t, kind), q.begin = r.begin
  PROVE  Ordered(q.events, q.begin, t)
<1>1. r.events \in Seq(Entries) /\ r.begin \in Int BY DEF OpenRecord, Shaped
<1> QED BY <1>1, OrderedExtends, OrderedLater DEF EventAdded

LEMMA OrderedTicks ==
  ASSUME NEW r, OpenRecord(r), NEW q, NEW u \in Int, NEW t \in Int,
         Ordered(r.events, r.begin, u), u <= t, Ticked(q, r, t)
  PROVE  Ordered(q.events, q.begin, t)
<1>1. r.events \in Seq(Entries) /\ r.begin \in Int BY DEF OpenRecord, Shaped
<1>2. q.begin = r.begin BY DEF Ticked, SameLife
<1> QED BY <1>1, <1>2, OrderedAdds, OrderedLater DEF Ticked, NoteAdded

LEMMA QuietAdds ==
  ASSUME NEW r, OpenRecord(r), NEW q, NEW t, NEW kind, EventAdded(q, r, t, kind),
         kind \notin {"PUMP_ON", "PUMP_OFF_CONFIRMED"}
  PROVE  SamePumps(q.events, r.events) /\ (~q.overflowed => ~r.overflowed)
<1>1. r.events \in Seq(Entries) BY DEF OpenRecord, Shaped
<1>2. CASE q.events = r.events /\ q.overflowed BY <1>2 DEF SamePumps
<1>3. CASE Extends(q.events, r.events, t, kind) /\ q.overflowed = r.overflowed
  BY <1>1, <1>3, QuietExtends
<1> QED BY <1>2, <1>3 DEF EventAdded

LEMMA QuietTicks ==
  ASSUME NEW r, OpenRecord(r), NEW q, NEW t, Ticked(q, r, t)
  PROVE  SamePumps(q.events, r.events) /\ (~q.overflowed => ~r.overflowed)
<1>1. CASE q.events = r.events /\ q.overflowed = r.overflowed BY <1>1 DEF SamePumps
<1>2. CASE EventAdded(q, r, t, "SCALE_CONNECTED") BY <1>2, QuietAdds
<1>3. CASE EventAdded(q, r, t, "SCALE_DISCONNECTED") BY <1>3, QuietAdds
<1> QED BY <1>1, <1>2, <1>3 DEF Ticked, NoteAdded

LEMMA OverStays ==
  ASSUME NEW r, NEW q, SamePumps(q.events, r.events), ~q.overflowed => ~r.overflowed,
         q.lastOff = r.lastOff, PulseOver(r)
  PROVE  PulseOver(q)
<1>1. Pulses(r.events, FALSE) => Pulses(q.events, FALSE) BY SamePulses
<1>2. \A i : LastPump(q.events, i) <=> LastPump(r.events, i) BY DEF SamePumps, LastPump
<1> QED BY <1>1, <1>2 DEF PulseOver, SamePumps

LEMMA PulseEnds ==
  ASSUME NEW q, OpenRecord(q), NEW c, NEW t \in Int, NEW begin \in Int, NEW u \in Int,
         Ordered(q.events, begin, u), u <= t,
         EventAdded(c, q, t, "PUMP_OFF_CONFIRMED"), c.lastOff = t,
         ~q.overflowed => Pulses(q.events, TRUE)
  PROVE  PulseOver(c)
<1>1. q.events \in Seq(Entries) BY DEF OpenRecord, Shaped
<1>2. Len(q.events) \in Nat /\ \A i \in 1..Len(q.events) : q.events[i].t \in Int
  BY <1>1, EntryTypes
<1>3. CASE c.events = q.events /\ c.overflowed
  BY <1>2, <1>3 DEF PulseOver, Ordered, Pumps
<1>4. CASE Extends(c.events, q.events, t, "PUMP_OFF_CONFIRMED") /\ c.overflowed = q.overflowed
  <2>1. \A i \in 1..Len(c.events) : c.events[i].t <= t
    <3>1. Ordered(c.events, begin, t) BY <1>1, <1>4, OrderedExtends
    <3> QED BY <3>1 DEF Ordered
  <2>2. ~c.overflowed => /\ Pulses(c.events, FALSE)
                         /\ \A i \in Pumps(c.events) : LastPump(c.events, i) => c.events[i].t = t
    BY <1>1, <1>4, PulseCloses
  <2> QED BY <2>1, <2>2 DEF PulseOver, Pumps
<1> QED BY <1>3, <1>4 DEF EventAdded

LEMMA PulseStarts ==
  ASSUME NEW q, OpenRecord(q), PulseOver(q), NEW c, NEW t, EventAdded(c, q, t, "PUMP_ON")
  PROVE  ~c.overflowed => Pulses(c.events, TRUE)
<1>1. q.events \in Seq(Entries) BY DEF OpenRecord, Shaped
<1> QED BY <1>1, PulseOpens DEF EventAdded, PulseOver

------------------------------------------------------------------------------
(* The recorder: the timeline, while the clock does not turn over in a     *)
(* record.                                                                 *)

(* A pump start is seen first at one of these times and starts its record  *)
(* an update later; the window lasts the pull, the updates that notice its *)
(* edges and the time-outs that end it, and END may come one tick after.   *)
Beginnings == FirstStarts \cup 0..LatestStart
Lasts == 3 * MaxGap + MaxPull + EmptyTimeout + SettleTimeout + 1

(* The clock does not turn over in a record.                               *)
InOneTurn == \A b \in Beginnings : b + MaxGap + Lasts < ClockRange

(* The timing of an open record.                                           *)
RunTimes ==
  /\ pumpFor \in {1, 2} /\ (pumpFor = 2 => link.pump)
  /\ current.begin <= now /\ now - current.begin <= MaxPull + MaxGap
  /\ pumpFor = 1 => now - current.begin <= MaxPull

OffTimes ==
  /\ pumpFor = 0 /\ ~link.pump
  /\ current.begin <= current.lastOff /\ current.lastOff <= now
  /\ current.lastOff - current.begin <= MaxPull + 2 * MaxGap
  /\ now - current.lastOff <= EmptyTimeout + SettleTimeout

TimelineInv ==
  /\ now \in 0..(ClockRange - 1) /\ pumpFor \in 0..2
  /\ link.pump => pumpFor # 0
  /\ pumpFor = 1 => now \in Beginnings
  /\ current.phase = "DONE" => pumpFor = 0 /\ ~link.pump
  /\ InPumpWindow(current.phase) =>
       /\ current.begin \in Nat /\ current.begin + Lasts < ClockRange
       /\ Ordered(current.events, current.begin, now)
  /\ current.phase = "RUNNING" =>
       RunTimes /\ (~current.overflowed => Pulses(current.events, TRUE))
  /\ current.phase = "POST_PUMP" => OffTimes /\ PulseOver(current)

LEMMA TimelineBounds ==
  /\ MaxGap \in Nat /\ MaxPull \in Nat /\ EmptyTimeout \in Nat /\ SettleTimeout \in Nat
  /\ LatestStart \in Nat /\ FirstStarts \subseteq Nat /\ ClockRange \in Nat /\ ClockRange > 0
  /\ MaxGap > 0
BY RecorderConstants

LEMMA NoWrap ==
  ASSUME NEW a \in Nat, NEW b \in Nat, b <= a, a < ClockRange
  PROVE  Minus(a, b) = a - b
BY TimelineBounds DEF Minus

LEMMA NoTurn ==
  ASSUME NEW a \in Nat, a + 1 < ClockRange
  PROVE  (a + 1) % ClockRange = a + 1
BY TimelineBounds

(* The end is the intended one or just after the last event.               *)
LEMMA EndFollows ==
  ASSUME NEW x \in Nat, NEW last \in Nat, last <= x, x + 1 < ClockRange
  PROVE  EnsureMonotonic(x, last) \in {x, last + 1} /\ EnsureMonotonic(x, last) >= last
<1>1. Minus(x, last) = x - last BY TimelineBounds, NoWrap
<1>2. (last + 1) % ClockRange = last + 1 BY TimelineBounds
<1>3. CASE x = last
  BY <1>1, <1>2, <1>3 DEF EnsureMonotonic, Nudged
<1>4. CASE x # last
  BY <1>1, <1>2, <1>4 DEF EnsureMonotonic, Nudged
<1> QED BY <1>3, <1>4

SoundEvents(e, r) ==
  /\ e # <<>>
  /\ e[1] = Event(r.begin, "BEGIN")
  /\ \A i \in 1..Len(e) : e[i].kind = "END" <=> i = Len(e)
  /\ e[Len(e)].t = r.end
  /\ \A i \in 1..(Len(e) - 1) : Offset(e[i].t, r) <= Offset(e[i + 1].t, r)
  /\ ~r.overflowed =>
       /\ PulsesClosed(e)
       /\ \A i \in 1..Len(e) : LastPump(e, i) => e[i].t = r.lastOff

(* When it ends, and that no switch of the pump is lost.                   *)
EndsAfter(d, q, t) ==
  /\ SamePumps(d.events, q.events) /\ Len(d.events) \in Nat
  /\ d.end \in Nat /\ d.end < ClockRange /\ q.begin <= d.end
  /\ 2 * (t - q.begin) < ClockRange => q.lastOff <= d.end

LEMMA FinalizedIsSound ==
  ASSUME NEW q, OpenRecord(q), NEW t \in Nat, NEW d, Finishes(d, q, t),
         q.begin \in Nat, Ordered(q.events, q.begin, t), PulseOver(q),
         q.lastOff \in Nat, q.begin <= q.lastOff, q.lastOff <= t, t + 1 < ClockRange
  PROVE  SoundEvents(d.events, d) /\ EndsAfter(d, q, t)
<1>1. /\ d.begin = q.begin /\ d.lastOff = q.lastOff /\ d.overflowed = q.overflowed
  BY DEF Finishes
<1>2. PICK e \in Seq(Entries), k \in Nat, x \in Int :
        Settled(e, q, x, t) /\ LastNotAfter(e, k, x) /\ Closing(d, e, k, x)
  BY DEF Finishes
<1>3. q.events \in Seq(Entries) BY DEF OpenRecord, Shaped
<1>4. /\ Len(e) \in Nat /\ Len(q.events) \in Nat
      /\ \A i \in 1..Len(e) : e[i].t \in Int /\ e[i] = Event(e[i].t, e[i].kind)
  BY <1>3, EntryTypes
<1>5. x \in Nat /\ q.begin <= x /\ x <= t /\ q.lastOff <= x
  <2>1. x \in {t, q.lastOff} BY <1>2 DEF Settled
  <2>2. q.begin <= t OBVIOUS
  <2> QED BY <2>1, <2>2
<1>6. Ordered(e, q.begin, t) /\ SamePumps(e, q.events)
      /\ \A i \in 1..Len(e) : e[i].kind # "END"
  <2>1. CASE e = q.events BY <2>1 DEF SamePumps, OpenRecord
  <2>2. CASE Extends(e, q.events, t, "STABLE_DETECTED")
    <3>1. Ordered(e, q.begin, t) BY <1>3, <2>2, OrderedExtends
    <3>2. SamePumps(e, q.events) BY <1>3, <2>2, QuietExtends
    <3>3. ASSUME NEW i \in 1..Len(e) PROVE e[i].kind # "END"
      <4>1. i \in 1..Len(q.events) \/ i = Len(q.events) + 1 BY <1>4, <2>2 DEF Extends
      <4>2. i \in 1..Len(q.events) => e[i].kind # "END" BY <2>2 DEF Extends, OpenRecord
      <4>3. i = Len(q.events) + 1 => e[i].kind = "STABLE_DETECTED" BY <2>2 DEF Extends
      <4> QED BY <4>1, <4>2, <4>3
    <3> QED BY <3>1, <3>2, <3>3
  <2> QED BY <1>2, <2>1, <2>2 DEF Settled
<1> DEFINE f == d.events
<1>7. /\ Len(f) = k + 1 /\ \A i \in 1..k : f[i] = e[i]
      /\ f[k + 1].t = d.end /\ f[k + 1].kind = "END"
      /\ d.end = IF k = 0 THEN x ELSE EnsureMonotonic(x, e[k].t)
  BY <1>2 DEF Closing
<1>8. k \in 1..Len(e) /\ e[k].t <= x /\ \A j \in 1..Len(e) : e[j].t <= x => j <= k
  <2>1. 1 \in 1..Len(e) /\ e[1].t <= x BY <1>4, <1>5, <1>6 DEF Ordered
  <2> QED BY <1>2, <1>4, <2>1 DEF LastNotAfter
<1> HIDE DEF f
<1>9. \A i \in 1..Len(e) : e[i].t \in Nat /\ q.begin <= e[i].t /\ e[i].t <= t
  BY <1>4, <1>6 DEF Ordered
<1>10. d.end \in Nat /\ e[k].t <= d.end /\ d.end <= t + 1
  <2>1. d.end = EnsureMonotonic(x, e[k].t) BY <1>7, <1>8
  <2>2. EnsureMonotonic(x, e[k].t) \in {x, e[k].t + 1} /\ EnsureMonotonic(x, e[k].t) >= e[k].t
    <3>1. e[k].t \in Nat /\ e[k].t <= x /\ x + 1 < ClockRange BY <1>5, <1>8, <1>9, TimelineBounds
    <3> QED BY <1>5, <3>1, EndFollows
  <2> QED BY <1>5, <1>8, <1>9, <2>1, <2>2
<1>11. \A i \in 1..Len(f) : /\ f[i].t \in Nat /\ q.begin <= f[i].t /\ f[i].t < ClockRange
                            /\ i \in 1..k => f[i] = e[i]
  BY <1>7, <1>8, <1>9, <1>10, TimelineBounds
<1>12. \A i \in 1..Len(f) : Offset(f[i].t, d) = f[i].t - q.begin
  BY <1>1, <1>11, NoWrap DEF Offset
<1>13. \A i \in 1..(Len(f) - 1) : f[i].t <= f[i + 1].t
  <2> SUFFICES ASSUME NEW i \in 1..(Len(f) - 1) PROVE f[i].t <= f[i + 1].t OBVIOUS
  <2>1. i \in 1..k /\ i \in 1..Len(e) BY <1>4, <1>7, <1>8
  <2>2. CASE i = k BY <1>7, <1>8, <1>10, <2>2
  <2>3. CASE i # k
    <3>1. i + 1 \in 1..k /\ i + 1 \in 1..Len(e) /\ i <= i + 1 BY <1>4, <1>8, <2>1, <2>3
    <3>2. e[i].t <= e[i + 1].t BY <1>6, <2>1, <3>1 DEF Ordered
    <3> QED BY <1>7, <2>1, <3>1, <3>2
  <2> QED BY <2>2, <2>3
<1>14. \A i \in 1..(Len(f) - 1) : Offset(f[i].t, d) <= Offset(f[i + 1].t, d)
  <2> SUFFICES ASSUME NEW i \in 1..(Len(f) - 1)
               PROVE  Offset(f[i].t, d) <= Offset(f[i + 1].t, d)
    OBVIOUS
  <2>1. i \in 1..Len(f) /\ i + 1 \in 1..Len(f) BY <1>7
  <2>2. /\ Offset(f[i].t, d) = f[i].t - q.begin
        /\ Offset(f[i + 1].t, d) = f[i + 1].t - q.begin
    BY <1>12, <2>1
  <2>3. f[i].t \in Nat /\ f[i + 1].t \in Nat BY <1>11, <2>1
  <2>4. f[i].t <= f[i + 1].t BY <1>13
  <2> QED BY <2>2, <2>3, <2>4
<1>15. f[1] = Event(d.begin, "BEGIN")
  <2>1. e[1] = Event(q.begin, "BEGIN") BY <1>4, <1>6 DEF Ordered
  <2> QED BY <1>1, <1>7, <1>8, <2>1
<1>16. \A i \in 1..Len(f) : f[i].kind = "END" <=> i = Len(f)
  <2> SUFFICES ASSUME NEW i \in 1..Len(f) PROVE f[i].kind = "END" <=> i = Len(f) OBVIOUS
  <2>1. CASE i = k + 1 BY <1>7, <2>1
  <2>2. CASE i # k + 1
    <3>1. i \in 1..k /\ i \in 1..Len(e) BY <1>4, <1>7, <1>8, <2>2
    <3>2. f[i].kind # "END" BY <1>6, <1>7, <3>1
    <3> QED BY <1>7, <2>2, <3>2
  <2> QED BY <2>1, <2>2
<1>17. PulseOver(q) /\ Pumps(e) = Pumps(q.events) /\ \A i \in Pumps(e) : e[i] = q.events[i]
  BY <1>6 DEF SamePumps
<1>18. SamePumps(f, q.events)
  <2>1. \A i \in Pumps(e) : i \in 1..Len(e) /\ e[i].t <= x
    <3>1. \A i \in Pumps(e) : e[i].t <= q.lastOff BY <1>17 DEF PulseOver
    <3>2. \A i \in Pumps(e) : i \in 1..Len(e) BY DEF Pumps
    <3> QED BY <1>4, <1>5, <3>1, <3>2
  <2>2. \A i \in Pumps(e) : i \in 1..k BY <1>4, <1>8, <2>1
  <2>3. ~IsPump(f[k + 1]) BY <1>7 DEF IsPump
  <2>4. \A i \in 1..k : IsPump(f[i]) <=> IsPump(e[i]) BY <1>7
  <2>5. Pumps(f) = Pumps(e) BY <1>4, <1>7, <1>8, <2>2, <2>3, <2>4 DEF Pumps
  <2> QED BY <1>7, <1>17, <2>2, <2>5 DEF SamePumps
<1>19. ~d.overflowed => /\ PulsesClosed(f)
                        /\ \A i \in 1..Len(f) : LastPump(f, i) => f[i].t = d.lastOff
  <2>1. SUFFICES ASSUME ~d.overflowed
                 PROVE  /\ PulsesClosed(f)
                        /\ \A i \in 1..Len(f) : LastPump(f, i) => f[i].t = d.lastOff
    OBVIOUS
  <2>2. Pulses(q.events, FALSE) BY <1>1, <2>1 DEF PulseOver
  <2>3. PulsesClosed(f) BY <1>18, <2>2, SamePulses, PulsesAreClosed
  <2>4. \A i : LastPump(f, i) => i \in Pumps(q.events) /\ LastPump(q.events, i) /\ f[i] = q.events[i]
    BY <1>18 DEF LastPump, SamePumps
  <2> QED BY <1>1, <2>1, <2>3, <2>4 DEF PulseOver
<1>20. f # <<>> BY <1>7, EmptySeq
<1>21. f[Len(f)].t = d.end BY <1>7
<1>22. SoundEvents(d.events, d) BY <1>14, <1>15, <1>16, <1>19, <1>20, <1>21 DEF SoundEvents, f
<1>23. ASSUME 2 * (t - q.begin) < ClockRange PROVE q.lastOff <= d.end
  <2>1. e[k].t \in Nat /\ e[k].t <= x /\ q.begin <= e[k].t BY <1>8, <1>9
  <2>2. Minus(x, e[k].t) = x - e[k].t BY <1>5, <2>1, NoWrap, TimelineBounds
  <2>3. ~Negative(x - e[k].t) BY <1>5, <1>23, <2>1, TimelineBounds DEF Negative
  <2>4. (e[k].t + 1) % ClockRange = e[k].t + 1
    <3>1. e[k].t + 1 < ClockRange BY <1>5, <2>1, TimelineBounds
    <3> QED BY <2>1, <3>1, NoTurn
  <2>5. EnsureMonotonic(x, e[k].t) >= x
    <3>1. CASE x = e[k].t BY <1>5, <2>1, <2>2, <2>4, <3>1 DEF EnsureMonotonic, Nudged
    <3>2. CASE x # e[k].t
      <4>1. x - e[k].t # 0 BY <1>5, <2>1, <3>2
      <4> QED BY <1>5, <2>1, <2>2, <2>3, <4>1 DEF EnsureMonotonic, Nudged
    <3> QED BY <3>1, <3>2
  <2>6. d.end = EnsureMonotonic(x, e[k].t) BY <1>7, <1>8
  <2> QED BY <1>5, <1>10, <2>5, <2>6
<1>24. EndsAfter(d, q, t)
  <2>1. d.end < ClockRange /\ q.begin <= d.end BY <1>8, <1>9, <1>10, TimelineBounds
  <2>2. Len(d.events) \in Nat BY <1>7 DEF f
  <2> QED BY <1>10, <1>18, <1>23, <2>1, <2>2 DEF EndsAfter, f
<1> QED BY <1>22, <1>24

LEMMA TimelineInvInit == RecorderInit => TimelineInv
<1> SUFFICES ASSUME RecorderInit PROVE TimelineInv OBVIOUS
<1>1. NewRecord.phase = "IDLE" /\ ~NewLink.pump BY DEF NewRecord, NewLink
<1>2. 0 \in 0..(ClockRange - 1) BY TimelineBounds
<1> QED BY <1>1, <1>2 DEF RecorderInit, TimelineInv, InPumpWindow

(* When the pump may run, and the clock in the window.                     *)
PumpRuns(on) ==
  /\ ~on => pumpFor # 1 /\ pumpFor' = 0
  /\ on /\ pumpFor = 0 => pumpFor' = 1
  /\ on /\ pumpFor # 0 => pumpFor' = 2
  /\ on /\ InPumpWindow(current.phase) =>
       \/ pumpFor = 1
       \/ /\ Minus(now', current.begin) <= MaxPull
          /\ pumpFor = 2 \/ now' <= LatestStart
  /\ on /\ ~InPumpWindow(current.phase) => pumpFor = 1 \/ now' \in FirstStarts

LEMMA UpdateRuns ==
  ASSUME ShortPulses = FALSE, RecordInv, TimelineInv, NEW gap \in Gaps, NEW on \in BOOLEAN,
         RecorderUpdate(gap, on)
  PROVE  PumpRuns(on)
<1>1. PumpMayBe(on, now') BY DEF RecorderUpdate
<1>2. pumpFor' = CASE ~on -> 0 [] on /\ pumpFor = 0 -> 1 [] OTHER -> 2
  BY DEF RecorderUpdate
<1>3. InPumpWindow(current.phase) \in BOOLEAN BY DEF InPumpWindow
<1>4. ~on => pumpFor # 1 BY <1>1, <1>3 DEF PumpMayBe
<1>5. on /\ InPumpWindow(current.phase) =>
       \/ pumpFor = 1
       \/ /\ Minus(now', current.begin) <= MaxPull
          /\ pumpFor = 2 \/ now' <= LatestStart
  BY <1>1, <1>3 DEF PumpMayBe
<1>6. on /\ ~InPumpWindow(current.phase) => pumpFor = 1 \/ now' \in FirstStarts
  BY <1>1, <1>3 DEF PumpMayBe
<1> QED BY <1>2, <1>4, <1>5, <1>6 DEF PumpRuns

LEMMA WindowTime ==
  ASSUME RecordInv, TimelineInv, NEW gap \in Gaps, InPumpWindow(current.phase),
         now' = (now + gap) % ClockRange
  PROVE  /\ gap \in 1..MaxGap /\ now' = now + gap
         /\ now' + 1 <= current.begin + Lasts /\ now' + 1 < ClockRange
         /\ now' \in Nat /\ current.begin <= now'
         /\ Minus(now', current.begin) = now' - current.begin
         /\ current.phase = "POST_PUMP" =>
              Minus(now', current.lastOff) = now' - current.lastOff
<1>1. gap \in 1..MaxGap BY DEF Gaps
<1>2. current.begin \in Nat /\ current.begin + Lasts < ClockRange /\ now \in Nat
  BY TimelineBounds DEF TimelineInv
<1>3. current.phase # "RUNNING" => current.phase = "POST_PUMP" BY DEF InPumpWindow
<1>4. current.lastOff \in Int BY DEF RecordInv, OpenRecord, Shaped, InPumpWindow
<1>5. now + gap + 1 <= current.begin + Lasts /\ current.begin <= now
  <2>1. CASE current.phase = "RUNNING"
    BY <1>1, <1>2, <2>1, TimelineBounds DEF TimelineInv, RunTimes, Lasts
  <2>2. CASE current.phase = "POST_PUMP"
    BY <1>1, <1>2, <1>4, <2>2, TimelineBounds DEF TimelineInv, OffTimes, Lasts
  <2> QED BY <1>3, <2>1, <2>2
<1>6. Lasts \in Nat BY TimelineBounds DEF Lasts
<1>7. now' = now + gap BY <1>1, <1>2, <1>5, <1>6, TimelineBounds
<1>8. now' \in Nat /\ current.begin <= now' /\ now' < ClockRange
  BY <1>1, <1>2, <1>5, <1>6, <1>7, TimelineBounds
<1>9. Minus(now', current.begin) = now' - current.begin BY <1>2, <1>8, NoWrap
<1>10. current.phase = "POST_PUMP" => Minus(now', current.lastOff) = now' - current.lastOff
  <2> SUFFICES ASSUME current.phase = "POST_PUMP"
               PROVE  Minus(now', current.lastOff) = now' - current.lastOff
    OBVIOUS
  <2>1. current.lastOff \in Nat /\ current.lastOff <= now'
    BY <1>1, <1>2, <1>4, <1>7 DEF TimelineInv, OffTimes
  <2> QED BY <1>8, <2>1, NoWrap
<1> QED BY <1>1, <1>2, <1>5, <1>6, <1>7, <1>8, <1>9, <1>10, TimelineBounds

(* A record that begins.                                                   *)
LEMMA BegunTimes ==
  ASSUME InOneTurn, NEW t \in 0..(ClockRange - 1), now' = t,
         NEW b \in Nat, b \in Beginnings, b <= t, t <= b + MaxGap,
         OpenRecord(current'), current'.phase = "RUNNING", Begun(current', t),
         pumpFor' \in {1, 2}, pumpFor' = 2 => link'.pump, pumpFor' = 1 => t \in Beginnings
  PROVE  TimelineInv'
<1>1. t + Lasts < ClockRange
  <2>1. b + MaxGap + Lasts < ClockRange BY DEF InOneTurn
  <2>2. Lasts \in Nat BY TimelineBounds DEF Lasts
  <2> QED BY <2>1, <2>2, TimelineBounds
<1>2. current'.begin = t /\ t \in Nat BY DEF Begun
<1>3. Ordered(current'.events, t, t) BY <1>2 DEF Ordered, Begun
<1>4. Pulses(current'.events, TRUE) BY FirstPulse
<1>5. current'.begin <= t /\ t - current'.begin = 0 BY <1>2
<1>6. RunTimes' BY <1>5, TimelineBounds DEF RunTimes
<1>7. pumpFor' \in 0..2 /\ pumpFor' # 0 OBVIOUS
<1>8. InPumpWindow(current'.phase) /\ current'.phase # "POST_PUMP" /\ current'.phase # "DONE"
  BY DEF InPumpWindow
<1> QED BY <1>1, <1>2, <1>3, <1>4, <1>6, <1>7, <1>8 DEF TimelineInv

LEMMA UpdateKeepsTimeline ==
  ASSUME ShortPulses = FALSE, InOneTurn, RecordInv, TimelineInv, AnyUpdate
  PROVE  TimelineInv'
<1>1. PICK gap \in Gaps, on \in BOOLEAN : RecorderUpdate(gap, on) BY DEF AnyUpdate
<1>2. /\ UpdateMoves(now', on) /\ now' = (now + gap) % ClockRange /\ now' \in Int /\ gap \in Int
      /\ now \in Int
  BY <1>1, UpdateIsMove DEF RecordInv
<1>3. PumpRuns(on) BY <1>1, UpdateRuns
<1>4. now' \in 0..(ClockRange - 1) BY <1>2, TimelineBounds
<1>5. pumpFor \in 0..2 /\ link.pump \in BOOLEAN /\ link'.pump \in BOOLEAN
      /\ (link.pump => pumpFor # 0)
  BY <1>2 DEF TimelineInv, RecordInv, UpdateMoves, LinkShaped
<1>6. pumpFor' \in 0..2 /\ (on <=> pumpFor' # 0) BY <1>3, <1>5 DEF PumpRuns
<1>7. link'.pump => pumpFor' # 0 BY <1>2, <1>6 DEF UpdateMoves
<1>8. pumpFor' = 1 => on /\ pumpFor = 0 BY <1>3, <1>5, <1>6 DEF PumpRuns
<1>9. pumpFor' = 1 => now' \in Beginnings
  BY <1>3, <1>4, <1>8, TimelineBounds DEF PumpRuns, Beginnings
<1>10. ASSUME current'.phase \in {"IDLE", "DONE"}, current'.phase = "DONE" => ~on
       PROVE  TimelineInv'
  BY <1>4, <1>6, <1>7, <1>9, <1>10 DEF TimelineInv, InPumpWindow
<1>11. CASE Waits(current', on)
  <2>1. current'.phase \in {"IDLE", "DONE"}
    BY <1>11 DEF Waits, InPumpWindow, RecordInv, Phases
  <2>2. current'.phase = "DONE" => ~on BY <1>11 DEF Waits, Rises, TimelineInv
  <2> QED BY <1>10, <2>1, <2>2
<1>12. CASE Starts(current', now', on)
  <2>1. on /\ ~link.pump /\ ~InPumpWindow(current.phase) BY <1>12 DEF Starts, Rises
  <2>2. pumpFor = 1 \/ now' \in FirstStarts BY <1>3, <2>1 DEF PumpRuns
  <2>3. \E s \in Nat : s \in Beginnings /\ s <= now' /\ now' <= s + MaxGap
    <3>1. CASE now' \in FirstStarts BY <1>4, <3>1, TimelineBounds DEF Beginnings
    <3>2. CASE pumpFor = 1 /\ gap \in 1..MaxGap
      <4>1. now \in Beginnings /\ now \in Nat /\ now + MaxGap + Lasts < ClockRange
        BY <3>2, TimelineBounds DEF TimelineInv, InOneTurn, Beginnings
      <4>2. Lasts \in Nat BY TimelineBounds DEF Lasts
      <4>3. now' = now + gap BY <1>2, <3>2, <4>1, <4>2, TimelineBounds
      <4> QED BY <3>2, <4>1, <4>3, TimelineBounds
    <3>3. CASE gap = ClockRange - now
      <4>1. now' = 0 BY <1>2, <3>3, TimelineBounds
      <4>2. 0 \in Beginnings BY TimelineBounds DEF Beginnings
      <4> QED BY <4>1, <4>2, TimelineBounds
    <3>4. gap \in 1..MaxGap \/ gap = ClockRange - now BY DEF Gaps
    <3> QED BY <2>2, <3>1, <3>2, <3>3, <3>4
  <2>4. OpenRecord(current') /\ current'.phase = "RUNNING" /\ Begun(current', now')
    BY <1>12 DEF Starts
  <2>5. pumpFor' = 2 => link'.pump
    <3>1. pumpFor' = 2 => pumpFor # 0 BY <1>3, <1>5, <2>1 DEF PumpRuns
    <3>2. pumpFor # 0 => current.phase = "IDLE"
      BY <2>1 DEF TimelineInv, RecordInv, Phases, InPumpWindow
    <3> QED BY <1>12, <2>1, <3>1, <3>2 DEF Starts
  <2> QED BY <1>4, <1>6, <1>9, <2>1, <2>3, <2>4, <2>5, BegunTimes
<1>13. CASE Splits(current', published', now', on)
  <2>1. on /\ current.phase = "POST_PUMP" /\ InPumpWindow(current.phase)
    BY <1>13 DEF Splits, Rises, InPumpWindow
  <2>2. pumpFor = 0 /\ pumpFor' = 1 BY <1>3, <2>1 DEF TimelineInv, OffTimes, PumpRuns
  <2>3. OpenRecord(current') /\ current'.phase = "RUNNING" /\ Begun(current', now')
    BY <1>13 DEF Splits
  <2>4. now' \in Beginnings /\ now' <= now' + MaxGap /\ now' <= now'
    BY <1>2, <1>9, <2>2, TimelineBounds
  <2> QED BY <1>2, <1>4, <1>6, <1>9, <2>2, <2>3, <2>4, BegunTimes
<1>14. ASSUME NEW q, Ticked(q, current, now'), InPumpWindow(current.phase)
       PROVE  /\ q.begin = current.begin /\ q.phase = current.phase /\ q.lastOff = current.lastOff
              /\ OpenRecord(q) /\ Ordered(q.events, current.begin, now')
              /\ SamePumps(q.events, current.events) /\ (~q.overflowed => ~current.overflowed)
              /\ current.begin \in Nat /\ current.begin + Lasts < ClockRange
  <2>1. q.begin = current.begin /\ q.phase = current.phase /\ q.lastOff = current.lastOff
        /\ OpenRecord(q)
    BY <1>14 DEF Ticked, SameLife
  <2>2. OpenRecord(current) BY <1>14 DEF RecordInv, InPumpWindow
  <2>3. now <= now' BY <1>1, <1>2, <1>14, WindowTime
  <2>4. Ordered(current.events, current.begin, now) BY <1>14 DEF TimelineInv
  <2>5. Ordered(q.events, q.begin, now') BY <1>2, <1>14, <2>2, <2>3, <2>4, OrderedTicks
  <2>6. SamePumps(q.events, current.events) /\ (~q.overflowed => ~current.overflowed)
    BY <1>14, <2>2, QuietTicks
  <2> QED BY <1>14, <2>1, <2>5, <2>6 DEF TimelineInv
<1>15. CASE Stays(current', now', on) /\ current.phase = "RUNNING"
  <2>1. InPumpWindow(current.phase) BY <1>15 DEF InPumpWindow
  <2>2. Ticked(current', current, now') /\ link'.pump = on /\ (on \/ ~link.pump)
    BY <1>15 DEF Stays
  <2>3. RunTimes BY <1>15 DEF TimelineInv
  <2>4. on BY <1>3, <1>5, <2>2, <2>3 DEF RunTimes, PumpRuns
  <2>5. pumpFor' = 2 BY <1>3, <2>3, <2>4 DEF RunTimes, PumpRuns
  <2>6. /\ gap \in 1..MaxGap /\ now' = now + gap /\ current.begin <= now'
        /\ Minus(now', current.begin) = now' - current.begin
    BY <1>1, <1>2, <2>1, WindowTime
  <2>7. now' - current.begin <= MaxPull + MaxGap
    <3>1. CASE pumpFor = 1 BY <1>2, <2>3, <2>6, <3>1, TimelineBounds, <1>14, <2>1, <2>2 DEF RunTimes
    <3>2. CASE pumpFor # 1 BY <1>2, <1>3, <2>1, <2>4, <2>6, <3>2, TimelineBounds, <1>14, <2>2 DEF PumpRuns
    <3> QED BY <3>1, <3>2
  <2>8. /\ current'.begin = current.begin /\ current'.phase = "RUNNING"
        /\ Ordered(current'.events, current.begin, now')
        /\ SamePumps(current'.events, current.events)
        /\ (~current'.overflowed => ~current.overflowed)
        /\ current.begin \in Nat /\ current.begin + Lasts < ClockRange
    BY <1>14, <1>15, <2>1, <2>2
  <2>9. RunTimes' BY <2>2, <2>4, <2>5, <2>6, <2>7, <2>8 DEF RunTimes
  <2>10. ~current'.overflowed => Pulses(current'.events, TRUE)
    BY <1>15, <2>8, SamePulses DEF TimelineInv
  <2> QED BY <1>4, <1>6, <1>7, <1>9, <2>8, <2>9, <2>10 DEF TimelineInv, InPumpWindow
<1>16. CASE Stays(current', now', on) /\ current.phase = "POST_PUMP"
  <2>1. InPumpWindow(current.phase) BY <1>16 DEF InPumpWindow
  <2>2. Ticked(current', current, now') /\ link'.pump = on /\ ~Rises(on)
        /\ NotOver(current', now')
    BY <1>16 DEF Stays
  <2>3. OffTimes /\ PulseOver(current) BY <1>16 DEF TimelineInv
  <2>4. ~on /\ pumpFor' = 0 BY <1>6, <2>2, <2>3 DEF OffTimes, Rises
  <2>5. /\ current'.begin = current.begin /\ current'.phase = "POST_PUMP"
        /\ current'.lastOff = current.lastOff
        /\ Ordered(current'.events, current.begin, now')
        /\ SamePumps(current'.events, current.events)
        /\ (~current'.overflowed => ~current.overflowed)
        /\ current.begin \in Nat /\ current.begin + Lasts < ClockRange
    BY <1>14, <1>16, <2>1, <2>2
  <2>6. /\ gap \in 1..MaxGap /\ now' = now + gap
        /\ Minus(now', current.lastOff) = now' - current.lastOff
    BY <1>1, <1>2, <1>16, <2>1, WindowTime
  <2>7. now' - current.lastOff <= EmptyTimeout + SettleTimeout /\ current.lastOff <= now'
    <3>1. current.lastOff \in Int BY <1>16 DEF RecordInv, OpenRecord, Shaped
    <3> QED BY <1>2, <2>2, <2>3, <2>5, <2>6, <3>1, TimelineBounds DEF NotOver, OffTimes
  <2>8. OffTimes' BY <2>2, <2>3, <2>4, <2>5, <2>7 DEF OffTimes
  <2>9. PulseOver(current') BY <2>3, <2>5, OverStays
  <2> QED BY <1>4, <1>6, <1>7, <1>9, <2>5, <2>8, <2>9 DEF TimelineInv, InPumpWindow
<1>17. CASE Stops(current', now', on)
  <2>1. ~on /\ current.phase = "RUNNING" /\ InPumpWindow(current.phase)
    BY <1>17 DEF Stops, InPumpWindow
  <2>2. PICK q : /\ Ticked(q, current, now')
                 /\ OpenRecord(current') /\ current'.phase = "POST_PUMP"
                 /\ current'.begin = q.begin /\ current'.lastOff = now'
                 /\ EventAdded(current', q, now', "PUMP_OFF_CONFIRMED")
    BY <1>17 DEF Stops
  <2>3. /\ q.begin = current.begin
        /\ OpenRecord(q) /\ Ordered(q.events, current.begin, now')
        /\ SamePumps(q.events, current.events) /\ (~q.overflowed => ~current.overflowed)
        /\ current.begin \in Nat /\ current.begin + Lasts < ClockRange
    BY <1>14, <2>1, <2>2
  <2>4. /\ gap \in 1..MaxGap /\ now' = now + gap /\ current.begin <= now'
    BY <1>1, <1>2, <2>1, WindowTime
  <2>5. RunTimes /\ (~current.overflowed => Pulses(current.events, TRUE))
    BY <2>1 DEF TimelineInv
  <2>6. pumpFor' = 0 /\ ~link'.pump BY <1>6, <1>7, <2>1
  <2>7. OffTimes'
    BY <1>2, <2>2, <2>3, <2>4, <2>5, <2>6, TimelineBounds DEF OffTimes, RunTimes
  <2>8. ~q.overflowed => Pulses(q.events, TRUE) BY <2>3, <2>5, SamePulses
  <2>9. PulseOver(current')
    <3>1. now' <= now' /\ current.begin \in Int BY <1>2, <2>3
    <3> QED BY <1>2, <2>2, <2>3, <2>8, <3>1, PulseEnds
  <2>10. Ordered(current'.events, current'.begin, now')
    BY <1>2, <2>2, <2>3, OrderedAdds
  <2> QED BY <1>4, <1>6, <1>7, <1>9, <2>2, <2>3, <2>7, <2>9, <2>10 DEF TimelineInv, InPumpWindow
<1>18. CASE Joins(current', now', on)
  <2>1. on /\ current.phase = "POST_PUMP" /\ InPumpWindow(current.phase)
    BY <1>18 DEF Joins, Rises, InPumpWindow
  <2>2. PICK q : /\ Ticked(q, current, now')
                 /\ OpenRecord(current') /\ current'.phase = "RUNNING"
                 /\ current'.begin = q.begin /\ EventAdded(current', q, now', "PUMP_ON")
    BY <1>18 DEF Joins
  <2>3. /\ q.begin = current.begin /\ q.lastOff = current.lastOff
        /\ OpenRecord(q) /\ Ordered(q.events, current.begin, now')
        /\ SamePumps(q.events, current.events) /\ (~q.overflowed => ~current.overflowed)
        /\ current.begin \in Nat /\ current.begin + Lasts < ClockRange
    BY <1>14, <2>1, <2>2
  <2>4. /\ gap \in 1..MaxGap /\ now' = now + gap /\ current.begin <= now'
        /\ Minus(now', current.begin) = now' - current.begin
    BY <1>1, <1>2, <2>1, WindowTime
  <2>5. OffTimes /\ PulseOver(current) BY <2>1 DEF TimelineInv
  <2>6. pumpFor = 0 /\ pumpFor' = 1 BY <1>3, <2>1, <2>5 DEF OffTimes, PumpRuns
  <2>7. now' - current.begin <= MaxPull BY <1>3, <2>1, <2>4, <2>6 DEF PumpRuns
  <2>8. RunTimes' BY <1>2, <2>2, <2>3, <2>4, <2>6, <2>7, TimelineBounds DEF RunTimes
  <2>9. PulseOver(q) BY <2>3, <2>5, OverStays
  <2>10. ~current'.overflowed => Pulses(current'.events, TRUE) BY <2>2, <2>3, <2>9, PulseStarts
  <2>11. Ordered(current'.events, current'.begin, now')
    BY <1>2, <2>2, <2>3, OrderedAdds
  <2> QED BY <1>4, <1>6, <1>7, <1>9, <2>2, <2>3, <2>8, <2>10, <2>11 DEF TimelineInv, InPumpWindow
<1>19. CASE Ends(current', now', on)
  <2>1. current'.phase = "DONE" BY <1>19 DEF Ends, Finishes
  <2>2. ~on BY <1>19 DEF Ends, Rises, TimelineInv, OffTimes
  <2> QED BY <1>10, <2>1, <2>2
<1>20. Stays(current', now', on) => current.phase \in {"RUNNING", "POST_PUMP"}
  BY DEF Stays, InPumpWindow
<1> QED BY <1>2, <1>11, <1>12, <1>13, <1>15, <1>16, <1>17, <1>18, <1>19, <1>20 DEF UpdateMoves

LEMMA TimelineInvStep ==
  ASSUME ShortPulses = FALSE, InOneTurn, RecordInv, TimelineInv, [RecorderNext]_pullVars
  PROVE  TimelineInv'
<1>1. CASE AnyUpdate BY <1>1, UpdateKeepsTimeline
<1>2. CASE Clear
  <2>1. /\ current' = NewRecord /\ UNCHANGED <<now, pumpFor>> /\ (link'.pump => link.pump)
        /\ NewRecord.phase = "IDLE"
    BY <1>2, ClearKeeps, NewRecordIsOpen
  <2> QED BY <2>1 DEF TimelineInv, InPumpWindow
<1>3. CASE TriggerAlarm
  <2>1. /\ OpenRecord(current) /\ SameLife(current', current) /\ current.phase = "RUNNING"
        /\ EventAdded(current', current, now, "ALARM_TRIGGERED")
    BY <1>3, AlarmKeeps
  <2>2. UNCHANGED <<now, pumpFor, link>> BY <1>3 DEF TriggerAlarm
  <2>3. InPumpWindow(current.phase) /\ now <= now /\ now \in Int
    BY <2>1 DEF InPumpWindow, RecordInv
  <2>4. Ordered(current'.events, current'.begin, now)
    BY <2>1, <2>3, OrderedAdds DEF TimelineInv, SameLife
  <2>5. SamePumps(current'.events, current.events) /\ (~current'.overflowed => ~current.overflowed)
    BY <2>1, QuietAdds
  <2>6. ~current'.overflowed => Pulses(current'.events, TRUE)
    BY <2>1, <2>5, SamePulses DEF TimelineInv
  <2>7. RunTimes' BY <2>1, <2>2 DEF TimelineInv, RunTimes, SameLife
  <2> QED BY <2>1, <2>2, <2>3, <2>4, <2>6, <2>7 DEF TimelineInv, SameLife
<1>4. CASE UNCHANGED pullVars
  BY <1>4 DEF pullVars, TimelineInv, RunTimes, OffTimes
<1> QED BY <1>1, <1>2, <1>3, <1>4 DEF RecorderNext

(* The record an update finalizes.                                         *)
LEMMA UpdateFinalizes ==
  ASSUME RecordInv, TimelineInv, NEW gap \in Gaps, NEW on \in BOOLEAN, RecorderUpdate(gap, on),
         published' # NoRecord
  PROVE  /\ current.phase = "POST_PUMP" /\ SoundEvents(published'.events, published')
         /\ \E q : /\ Ticked(q, current, now') /\ Finishes(published', q, now')
                   /\ EndsAfter(published', q, now')
<1>1. UpdateMoves(now', on) /\ now' = (now + gap) % ClockRange BY UpdateIsMove
<1>2. current.phase = "POST_PUMP" /\ \E q : Ticked(q, current, now') /\ Finishes(published', q, now')
  BY <1>1 DEF UpdateMoves, Ends, Splits
<1>3. PICK q : Ticked(q, current, now') /\ Finishes(published', q, now') BY <1>2
<1>4. InPumpWindow(current.phase) BY <1>2 DEF InPumpWindow
<1>5. /\ gap \in 1..MaxGap /\ now' = now + gap /\ now' + 1 < ClockRange /\ now' \in Nat
      /\ current.begin <= now'
  BY <1>1, <1>4, WindowTime
<1>6. /\ OpenRecord(current) /\ OffTimes /\ PulseOver(current) /\ current.begin \in Nat
      /\ Ordered(current.events, current.begin, now) /\ now \in Int
  BY <1>2, <1>4 DEF RecordInv, TimelineInv
<1>7. OpenRecord(q) /\ q.begin = current.begin /\ q.lastOff = current.lastOff
  BY <1>3 DEF Ticked, SameLife
<1>8. now <= now' /\ now' \in Int BY <1>5, <1>6
<1>9. Ordered(q.events, q.begin, now') BY <1>3, <1>6, <1>8, OrderedTicks
<1>10. PulseOver(q)
  <2>1. SamePumps(q.events, current.events) /\ (~q.overflowed => ~current.overflowed)
    BY <1>3, <1>6, QuietTicks
  <2> QED BY <1>6, <1>7, <2>1, OverStays
<1>11. current.lastOff \in Nat /\ current.begin <= current.lastOff /\ current.lastOff <= now'
  <2>1. current.lastOff \in Int BY <1>6 DEF OpenRecord, Shaped
  <2> QED BY <1>6, <1>8, <2>1 DEF OffTimes
<1>12. SoundEvents(published'.events, published') /\ EndsAfter(published', q, now')
  BY <1>3, <1>5, <1>6, <1>7, <1>9, <1>10, <1>11, FinalizedIsSound
<1> QED BY <1>2, <1>3, <1>12

LEMMA SoundStep ==
  ASSUME ShortPulses = FALSE, InOneTurn, RecordInv, TimelineInv, TimelineSound,
         [RecorderNext]_pullVars
  PROVE  TimelineSound'
<1>1. CASE AnyUpdate
  <2>1. PICK gap \in Gaps, on \in BOOLEAN : RecorderUpdate(gap, on) BY <1>1 DEF AnyUpdate
  <2>2. CASE published' = NoRecord BY <2>2 DEF TimelineSound
  <2>3. CASE published' # NoRecord
    <3>1. SoundEvents(published'.events, published') BY <2>1, <2>3, UpdateFinalizes
    <3> QED BY <3>1 DEF TimelineSound, SoundEvents, Offset
  <2> QED BY <2>2, <2>3
<1>2. CASE Clear
  <2>1. published' = NoRecord BY <1>2 DEF Clear
  <2> QED BY <2>1 DEF TimelineSound
<1>3. CASE TriggerAlarm
  <2>1. published' = published BY <1>3 DEF TriggerAlarm
  <2> QED BY <2>1 DEF TimelineSound, Offset
<1>4. CASE UNCHANGED pullVars
  BY <1>4 DEF pullVars, TimelineSound, Offset
<1> QED BY <1>1, <1>2, <1>3, <1>4 DEF RecorderNext

(* While each pulse is seen by two updates and the clock does not turn over*)
(* in a record: a record handed on opens with BEGIN, closes with its only  *)
(* END, runs forward, and its pump events close every pulse, the last when *)
(* the pump last stopped (appendEvent, transitionTo, resumeOrSplitShot).   *)
THEOREM TimelineIsSound ==
  ASSUME ShortPulses = FALSE, InOneTurn
  PROVE  RecorderSpec => []TimelineSound
<1> DEFINE Inv == RecordInv /\ TimelineInv /\ TimelineSound
<1>1. RecorderInit => Inv
  <2>1. RecorderInit => TimelineSound BY DEF RecorderInit, TimelineSound
  <2> QED BY <2>1, RecordInvInit, TimelineInvInit
<1>2. Inv /\ [RecorderNext]_pullVars => Inv' BY RecordInvStep, TimelineInvStep, SoundStep
<1>3. Inv => TimelineSound OBVIOUS
<1> QED BY <1>1, <1>2, <1>3, PTL DEF RecorderSpec

------------------------------------------------------------------------------
(* The recorder: the time the pump was on.                                 *)

(* m counts, event by event, the time the pump was on.  OnTime is a        *)
(* recursive function; that there is such a function is shown by m.        *)
Meter(m, e, begin) ==
  /\ m \in [Nat -> Int] /\ m[0] = 0
  /\ \A i \in Nat : i > 0 => m[i] = m[i - 1] + Switched(e, begin, i)

(* After the last switch of the pump it counts x.                          *)
PastPumps(e, i) == \A p \in Pumps(e) : p <= i
Measured(e, begin, x) ==
  \E m : Meter(m, e, begin) /\ \A i \in Nat : PastPumps(e, i) => m[i] = x

LEMMA NoneMeasured ==
  ASSUME NEW e, NEW begin, Pumps(e) = {}
  PROVE  Measured(e, begin, 0)
<1> DEFINE m == [i \in Nat |-> 0]
<1>1. \A i \in Nat : Switched(e, begin, i) = 0 BY DEF Switched, Turns
<1>2. Meter(m, e, begin) BY <1>1 DEF Meter
<1>3. \A i \in Nat : m[i] = 0 OBVIOUS
<1> HIDE DEF m
<1> QED BY <1>2, <1>3 DEF Measured

LEMMA SameMeasured ==
  ASSUME NEW old, NEW new, SamePumps(new, old), NEW begin, NEW x, Measured(old, begin, x)
  PROVE  Measured(new, begin, x)
<1>1. \A i : Switched(new, begin, i) = Switched(old, begin, i)
  BY DEF SamePumps, Switched, Turns
<1>2. \A i : PastPumps(new, i) <=> PastPumps(old, i) BY DEF SamePumps, PastPumps
<1> QED BY <1>1, <1>2 DEF Measured, Meter

(* What a switch of the pump at t adds to the time it was on.              *)
Gain(kind, t, begin) == IF kind = "PUMP_ON" THEN -Minus(t, begin) ELSE Minus(t, begin)

LEMMA MeasuredAdds ==
  ASSUME NEW old \in Seq(Entries), NEW new, NEW t \in Int, NEW begin \in Int, NEW x \in Int,
         NEW kind \in {"PUMP_ON", "PUMP_OFF_CONFIRMED"}, Extends(new, old, t, kind),
         Measured(old, begin, x)
  PROVE  Measured(new, begin, x + Gain(kind, t, begin))
<1> DEFINE n == Len(old) + 1
           y == x + Gain(kind, t, begin)
<1>1. PICK m : Meter(m, old, begin) /\ \A i \in Nat : PastPumps(old, i) => m[i] = x
  BY DEF Measured
<1> DEFINE k == [i \in Nat |-> IF i < n THEN m[i] ELSE y]
<1>2. /\ n \in Pumps(new) /\ new[n].kind = kind /\ Pumps(new) = Pumps(old) \cup {n}
      /\ \A i \in Pumps(old) : i \in 1..Len(old) /\ new[i] = old[i]
      /\ Len(old) \in Nat
  BY PumpExtends
<1>3. new[n].t = t BY DEF Extends
<1>4. Minus(t, begin) \in Int BY Limits DEF Minus
<1>5. y \in Int /\ y = x + Gain(kind, t, begin) BY <1>4 DEF Gain
<1> HIDE DEF n, y
<1>6. n \in Nat /\ n - 1 = Len(old) /\ n > 0 BY <1>2 DEF n
<1>7. \A i \in Nat : i < n => Switched(new, begin, i) = Switched(old, begin, i)
  BY <1>2, <1>6 DEF Switched, Turns
<1>8. \A i \in Nat : i > n => Switched(new, begin, i) = 0
  BY <1>2, <1>6 DEF Switched, Turns
<1>9. Switched(new, begin, n) = y - x
  BY <1>2, <1>3, <1>4, <1>5 DEF Switched, Turns, Gain
<1>10. m[n - 1] = x
  <2>1. \A p \in Pumps(old) : p <= Len(old) BY <1>2
  <2>2. PastPumps(old, n - 1) BY <1>6, <2>1 DEF PastPumps
  <2> QED BY <1>1, <1>2, <1>6, <2>2
<1>11. k \in [Nat -> Int] /\ k[0] = 0 BY <1>1, <1>6, <1>5 DEF Meter
<1>12. ASSUME NEW i \in Nat, i > 0 PROVE k[i] = k[i - 1] + Switched(new, begin, i)
  <2>1. i - 1 \in Nat BY <1>12
  <2>2. CASE i < n
    <3>1. m[i] = m[i - 1] + Switched(old, begin, i) BY <1>1, <1>12 DEF Meter
    <3>2. k[i] = m[i] /\ k[i - 1] = m[i - 1] BY <1>6, <2>1, <2>2
    <3> QED BY <1>7, <2>2, <3>1, <3>2
  <2>3. CASE i = n
    <3>1. k[i] = y /\ k[i - 1] = x BY <1>6, <1>10, <2>1, <2>3
    <3> QED BY <1>5, <1>9, <2>3, <3>1
  <2>4. CASE i > n
    <3>1. k[i] = y /\ k[i - 1] = y BY <1>6, <2>1, <2>4
    <3> QED BY <1>5, <1>8, <2>4, <3>1
  <2> QED BY <1>6, <2>2, <2>3, <2>4
<1>13. ASSUME NEW i \in Nat, PastPumps(new, i) PROVE k[i] = y
  BY <1>2, <1>6, <1>13 DEF PastPumps
<1> HIDE DEF k
<1>14. Meter(k, new, begin) BY <1>11, <1>12 DEF Meter
<1> QED BY <1>13, <1>14, <1>5 DEF Measured

(* The recursive function and the meter agree.                             *)
LEMMA OnTimeMeasured ==
  ASSUME NEW e, Len(e) \in Nat, NEW begin, NEW x, Measured(e, begin, x)
  PROVE  OnTime(e, begin)[Len(e)] = x
<1> DEFINE on == OnTime(e, begin)
           Recursive(f) == f = [i \in Nat |-> IF i = 0 THEN 0
                                              ELSE f[i - 1] + Switched(e, begin, i)]
<1>1. PICK m : Meter(m, e, begin) /\ \A i \in Nat : PastPumps(e, i) => m[i] = x
  BY DEF Measured
<1>2. Recursive(m)
  <2>1. m = [i \in Nat |-> m[i]] BY <1>1 DEF Meter
  <2>2. \A i \in Nat : m[i] = IF i = 0 THEN 0 ELSE m[i - 1] + Switched(e, begin, i)
    BY <1>1 DEF Meter
  <2> QED BY <2>1, <2>2
<1>3. on = CHOOSE f : Recursive(f) BY DEF OnTime
<1>4. Recursive(on)
  <2> HIDE DEF on, Recursive
  <2> QED BY <1>2, <1>3
<1> HIDE DEF on
<1>5. \A i \in Nat : on[i] = IF i = 0 THEN 0 ELSE on[i - 1] + Switched(e, begin, i)
  BY <1>4, Zenon
<1> HIDE DEF Recursive
<1> DEFINE Differ == {i \in Nat : on[i] # m[i]}
           Less == OpToRel(<, Nat)
<1>6. Differ = {}
  <2>1. SUFFICES ASSUME Differ # {} PROVE FALSE OBVIOUS
  <2>2. IsWellFoundedOn(Less, Nat) /\ Differ \subseteq Nat BY NatLessThanWellFounded
  <2>3. PICK d \in Differ : \A i \in Differ : <<i, d>> \notin Less
    <3> HIDE DEF Differ, Less
    <3> QED BY <2>1, <2>2, WFMin
  <2>4. d \in Nat /\ on[d] # m[d] BY <2>3
  <2>5. d # 0 BY <1>1, <1>5, <2>4 DEF Meter
  <2>6. d - 1 \in Nat /\ <<d - 1, d>> \in Less BY <2>4, <2>5 DEF OpToRel
  <2>7. on[d - 1] = m[d - 1] BY <2>3, <2>6
  <2>8. m[d] = m[d - 1] + Switched(e, begin, d) BY <1>1, <2>4, <2>5 DEF Meter
  <2>9. on[d] = on[d - 1] + Switched(e, begin, d) BY <1>5, <2>4, <2>5
  <2> QED BY <2>4, <2>7, <2>8, <2>9
<1>7. PastPumps(e, Len(e)) BY DEF PastPumps, Pumps
<1> QED BY <1>1, <1>6, <1>7 DEF on

LEMMA BegunMeasured ==
  ASSUME NEW q, NEW t \in Int, Begun(q, t)
  PROVE  Measured(q.events, t, 0)
<1> DEFINE e == q.events
           m == [i \in Nat |-> 0]
<1>1. Pumps(e) = {2} /\ e[2].kind = "PUMP_ON" /\ e[2].t = t BY FirstPulse DEF Begun
<1> HIDE DEF e
<1>2. Minus(t, t) = 0 BY Limits DEF Minus
<1>3. \A i \in Nat : Switched(e, t, i) = 0 BY <1>1, <1>2 DEF Switched, Turns
<1>4. Meter(m, e, t) BY <1>3 DEF Meter
<1>5. \A i \in Nat : m[i] = 0 OBVIOUS
<1> HIDE DEF m
<1> QED BY <1>4, <1>5 DEF Measured, e

(* While the pump runs its time counts up to the interval's start, and the *)
(* interval's own PUMP_ON is already taken away; once it is off, all of it *)
(* counts, and it is no more than the time from begin to lastOff.          *)
MeterInv ==
  /\ current.phase = "RUNNING" =>
       /\ link.onStart \in Nat /\ current.begin <= link.onStart /\ link.onStart <= now
       /\ current.pumpOn \in Nat /\ current.pumpOn <= link.onStart - current.begin
       /\ ~current.overflowed =>
            Measured(current.events, current.begin,
                     current.pumpOn - (link.onStart - current.begin))
  /\ current.phase = "POST_PUMP" =>
       /\ current.pumpOn \in Nat /\ current.pumpOn <= current.lastOff - current.begin
       /\ ~current.overflowed =>
            Measured(current.events, current.begin, current.pumpOn)

LEMMA AtOnce ==
  ASSUME NEW on, NEW begin, NEW start, NEW t \in Nat, on = 0, begin = t, start = t
  PROVE  on - (start - begin) = 0 /\ on <= start - begin /\ begin <= start /\ start <= t
OBVIOUS

(* Unsigned differences within a record are not read as negative ones.     *)
HalfTurn == 2 * Lasts < ClockRange

LEMMA SwitchMeasured ==
  ASSUME NEW q, OpenRecord(q), NEW c, NEW t \in Int, NEW begin \in Int,
         NEW kind \in {"PUMP_ON", "PUMP_OFF_CONFIRMED"}, EventAdded(c, q, t, kind),
         NEW x \in Int, ~q.overflowed => Measured(q.events, begin, x), NEW y \in Int,
         y = x + Gain(kind, t, begin)
  PROVE  ~c.overflowed => Measured(c.events, begin, y)
<1>1. q.events \in Seq(Entries) BY DEF OpenRecord, Shaped
<1>2. SUFFICES ASSUME ~c.overflowed PROVE Measured(c.events, begin, y) OBVIOUS
<1>3. Extends(c.events, q.events, t, kind) /\ ~q.overflowed BY <1>2 DEF EventAdded
<1>4. Measured(q.events, begin, x) BY <1>3
<1>5. PICK old \in Seq(Entries) : old = q.events BY <1>1
<1>6. PICK new : new = c.events OBVIOUS
<1>7. Extends(new, old, t, kind) /\ Measured(old, begin, x) BY <1>3, <1>4, <1>5, <1>6
<1>8. Measured(new, begin, x + Gain(kind, t, begin)) BY <1>7, MeasuredAdds
<1> QED BY <1>6, <1>8

(* A record as a tick of an update leaves it counts what it counted.       *)
LEMMA TickMeasured ==
  ASSUME RecordInv, InPumpWindow(current.phase), NEW q, NEW t, Ticked(q, current, t),
         NEW x, ~current.overflowed => Measured(current.events, current.begin, x)
  PROVE  ~q.overflowed => Measured(q.events, current.begin, x)
<1>1. OpenRecord(current) BY DEF RecordInv, InPumpWindow
<1>2. SamePumps(q.events, current.events) /\ (~q.overflowed => ~current.overflowed)
  BY <1>1, QuietTicks
<1> QED BY <1>2, SameMeasured

LEMMA UpdateKeepsMeter ==
  ASSUME RecordInv, TimelineInv, MeterInv, AnyUpdate
  PROVE  MeterInv'
<1>1. PICK gap \in Gaps, on \in BOOLEAN : RecorderUpdate(gap, on) BY DEF AnyUpdate
<1>2. UpdateMoves(now', on) /\ now' = (now + gap) % ClockRange /\ now' \in Int
  BY <1>1, UpdateIsMove
<1>3. now' \in Nat BY <1>1, <1>2, Limits, TimelineBounds DEF TimelineInv, Gaps
<1>4. ASSUME NEW q, Ticked(q, current, now'), InPumpWindow(current.phase)
      PROVE  /\ q.begin = current.begin /\ q.phase = current.phase
             /\ q.lastOff = current.lastOff /\ q.pumpOn = current.pumpOn /\ OpenRecord(q)
  BY <1>4 DEF Ticked, SameLife
<1>5. InPumpWindow(current.phase) =>
        /\ now \in Nat /\ now <= now' /\ now' < ClockRange
        /\ current.begin \in Nat /\ current.begin <= now'
        /\ Minus(now', current.begin) = now' - current.begin
        /\ current.lastOff \in Int
  <2> SUFFICES ASSUME InPumpWindow(current.phase)
               PROVE  /\ now \in Nat /\ now <= now' /\ now' < ClockRange
                      /\ current.begin \in Nat /\ current.begin <= now'
                      /\ Minus(now', current.begin) = now' - current.begin
                      /\ current.lastOff \in Int
    OBVIOUS
  <2>1. /\ gap \in 1..MaxGap /\ now' = now + gap /\ now' + 1 < ClockRange
        /\ current.begin <= now' /\ Minus(now', current.begin) = now' - current.begin
    BY <1>1, <1>2, WindowTime
  <2>2. OpenRecord(current) /\ current.begin \in Nat /\ now \in Nat
    BY TimelineBounds DEF RecordInv, TimelineInv, InPumpWindow
  <2>3. current.lastOff \in Int BY <2>2 DEF OpenRecord, Shaped
  <2> QED BY <1>3, <2>1, <2>2, <2>3, TimelineBounds
<1>6. CASE current'.phase \in {"IDLE", "DONE"} BY <1>6 DEF MeterInv
<1>7. ASSUME current'.phase = "RUNNING", Begun(current', now'), link'.onStart = now'
      PROVE  MeterInv'
  <2>1. current'.begin = now' /\ current'.pumpOn = 0 BY <1>7 DEF Begun
  <2>2. Measured(current'.events, now', 0) BY <1>2, <1>7, BegunMeasured
  <2>3. PICK t \in Nat : t = now' BY <1>3
  <2>4. link'.onStart = t /\ current'.begin = t /\ current'.pumpOn = 0 BY <1>7, <2>1, <2>3
  <2>5. /\ current'.pumpOn - (link'.onStart - current'.begin) = 0
        /\ current'.pumpOn <= link'.onStart - current'.begin
        /\ current'.begin <= link'.onStart /\ link'.onStart <= now'
    BY <2>3, <2>4, AtOnce, Zenon
  <2>6. Measured(current'.events, current'.begin,
                 current'.pumpOn - (link'.onStart - current'.begin))
    BY ONLY <2>1, <2>2, <2>5
  <2>7. link'.onStart \in Nat /\ current'.pumpOn \in Nat BY ONLY <2>1, <2>3, <2>4
  <2> QED BY <1>7, <2>5, <2>6, <2>7 DEF MeterInv
<1>8. CASE Stays(current', now', on) /\ current.phase = "RUNNING"
  <2>1. InPumpWindow(current.phase) BY <1>8 DEF InPumpWindow
  <2>2. Ticked(current', current, now') /\ link'.onStart = link.onStart BY <1>8 DEF Stays
  <2>3. /\ current'.begin = current.begin /\ current'.phase = "RUNNING"
        /\ current'.pumpOn = current.pumpOn
    BY <1>4, <1>8, <2>1, <2>2
  <2>4. ~current'.overflowed =>
          Measured(current'.events, current.begin,
                   current.pumpOn - (link.onStart - current.begin))
    BY <1>8, <2>1, <2>2, TickMeasured DEF MeterInv
  <2>5. link'.onStart <= now' BY <1>3, <1>5, <1>8, <2>1, <2>2 DEF MeterInv
  <2> QED BY <1>8, <2>2, <2>3, <2>4, <2>5 DEF MeterInv
<1>9. CASE Stays(current', now', on) /\ current.phase = "POST_PUMP"
  <2>1. InPumpWindow(current.phase) BY <1>9 DEF InPumpWindow
  <2>2. Ticked(current', current, now') BY <1>9 DEF Stays
  <2>3. /\ current'.begin = current.begin /\ current'.phase = "POST_PUMP"
        /\ current'.pumpOn = current.pumpOn /\ current'.lastOff = current.lastOff
    BY <1>4, <1>9, <2>1, <2>2
  <2>4. ~current'.overflowed => Measured(current'.events, current.begin, current.pumpOn)
    BY <1>9, <2>1, <2>2, TickMeasured DEF MeterInv
  <2> QED BY <1>9, <2>3, <2>4 DEF MeterInv
<1>10. CASE Stops(current', now', on)
  <2>1. current.phase = "RUNNING" /\ InPumpWindow(current.phase)
    BY <1>10 DEF Stops, InPumpWindow
  <2>2. PICK q : /\ Ticked(q, current, now')
                 /\ current'.phase = "POST_PUMP" /\ current'.begin = q.begin
                 /\ current'.lastOff = now'
                 /\ current'.pumpOn = q.pumpOn + Minus(now', link.onStart)
                 /\ EventAdded(current', q, now', "PUMP_OFF_CONFIRMED")
    BY <1>10 DEF Stops
  <2>3. q.begin = current.begin /\ q.pumpOn = current.pumpOn /\ OpenRecord(q)
    BY <1>4, <2>1, <2>2
  <2>4. /\ link.onStart \in Nat /\ current.begin <= link.onStart /\ link.onStart <= now
        /\ current.pumpOn \in Nat /\ current.pumpOn <= link.onStart - current.begin
    BY <2>1 DEF MeterInv
  <2>5. Minus(now', link.onStart) = now' - link.onStart /\ link.onStart <= now'
    BY <1>3, <1>5, <2>1, <2>4, NoWrap
  <2>6. PICK x \in Int : x = current.pumpOn - (link.onStart - current.begin)
    BY <1>5, <2>1, <2>4
  <2>7. ~q.overflowed => Measured(q.events, current.begin, x)
    BY <2>1, <2>2, <2>6, TickMeasured DEF MeterInv
  <2>8. current'.pumpOn \in Int /\ current'.pumpOn = x + Minus(now', current.begin)
    BY <1>2, <1>5, <2>1, <2>2, <2>3, <2>4, <2>5, <2>6
  <2>9. ~current'.overflowed => Measured(current'.events, current.begin, current'.pumpOn)
    <3>1. PICK y \in Int : y = current'.pumpOn BY <2>8
    <3>2. y = x + Gain("PUMP_OFF_CONFIRMED", now', current.begin) /\ current.begin \in Int
      BY <1>5, <2>1, <2>8, <3>1 DEF Gain
    <3>3. ~current'.overflowed => Measured(current'.events, current.begin, y)
      BY <1>2, <2>2, <2>3, <2>6, <2>7, <3>2, SwitchMeasured
    <3> QED BY <3>1, <3>3
  <2>10. current'.pumpOn \in Nat /\ current'.pumpOn <= current'.lastOff - current'.begin
    BY <1>3, <1>5, <2>1, <2>2, <2>3, <2>4, <2>5
  <2> QED BY <2>2, <2>3, <2>9, <2>10 DEF MeterInv
<1>11. CASE Joins(current', now', on)
  <2>1. current.phase = "POST_PUMP" /\ InPumpWindow(current.phase)
    BY <1>11 DEF Joins, InPumpWindow
  <2>2. PICK q : /\ Ticked(q, current, now')
                 /\ current'.phase = "RUNNING" /\ current'.begin = q.begin
                 /\ current'.pumpOn = q.pumpOn /\ link'.onStart = now'
                 /\ EventAdded(current', q, now', "PUMP_ON")
    BY <1>11 DEF Joins
  <2>3. q.begin = current.begin /\ q.pumpOn = current.pumpOn /\ OpenRecord(q)
    BY <1>4, <2>1, <2>2
  <2>4. current.pumpOn \in Nat /\ current.pumpOn <= current.lastOff - current.begin
    BY <2>1 DEF MeterInv
  <2>5. current.lastOff <= now' BY <1>5, <1>3, <2>1 DEF TimelineInv, OffTimes
  <2>6. ~q.overflowed => Measured(q.events, current.begin, current.pumpOn)
    BY <2>1, <2>2, TickMeasured DEF MeterInv
  <2>7. PICK y \in Int : y = current.pumpOn - Minus(now', current.begin)
    BY <1>3, <1>5, <2>1, <2>4
  <2>8. ~current'.overflowed => Measured(current'.events, current.begin, y)
    <3>1. current.pumpOn \in Int /\ current.begin \in Int BY <1>5, <2>1, <2>4
    <3>2. y = current.pumpOn + Gain("PUMP_ON", now', current.begin)
      BY <1>3, <1>5, <2>1, <2>4, <2>7 DEF Gain
    <3> QED BY <1>2, <2>2, <2>3, <2>6, <2>7, <3>1, <3>2, SwitchMeasured
  <2>9. y = current'.pumpOn - (link'.onStart - current'.begin)
    BY <1>3, <1>5, <2>1, <2>2, <2>3, <2>7
  <2>10. current'.pumpOn <= link'.onStart - current'.begin
    BY <1>3, <1>5, <2>1, <2>2, <2>3, <2>4, <2>5
  <2>11. current'.begin <= link'.onStart /\ link'.onStart <= now'
    BY <1>3, <1>5, <2>1, <2>2, <2>3
  <2> QED BY <1>3, <2>2, <2>3, <2>4, <2>8, <2>9, <2>10, <2>11 DEF MeterInv
<1>12. CASE Waits(current', on)
  <2>1. current'.phase \in {"IDLE", "DONE"}
    BY <1>12 DEF Waits, InPumpWindow, RecordInv, Phases
  <2> QED BY <1>6, <2>1
<1>13. CASE Starts(current', now', on) BY <1>7, <1>13 DEF Starts
<1>14. CASE Splits(current', published', now', on) BY <1>7, <1>14 DEF Splits
<1>15. CASE Ends(current', now', on)
  <2>1. current'.phase = "DONE" BY <1>15 DEF Ends, Finishes
  <2> QED BY <1>6, <2>1
<1>16. Stays(current', now', on) => current.phase \in {"RUNNING", "POST_PUMP"}
  BY DEF Stays, InPumpWindow
<1> QED BY <1>2, <1>8, <1>9, <1>10, <1>11, <1>12, <1>13, <1>14, <1>15, <1>16 DEF UpdateMoves

LEMMA MeterInvStep ==
  ASSUME RecordInv, TimelineInv, MeterInv, [RecorderNext]_pullVars
  PROVE  MeterInv'
<1>1. CASE AnyUpdate BY <1>1, UpdateKeepsMeter
<1>2. CASE Clear
  <2>1. current' = NewRecord /\ NewRecord.phase = "IDLE" BY <1>2, ClearKeeps, NewRecordIsOpen
  <2> QED BY <2>1 DEF MeterInv
<1>3. CASE TriggerAlarm
  <2>1. /\ OpenRecord(current) /\ SameLife(current', current) /\ current.phase = "RUNNING"
        /\ EventAdded(current', current, now, "ALARM_TRIGGERED")
    BY <1>3, AlarmKeeps
  <2>2. UNCHANGED <<now, link>> BY <1>3 DEF TriggerAlarm
  <2>3. /\ current'.begin = current.begin /\ current'.pumpOn = current.pumpOn
        /\ current'.phase = "RUNNING"
    BY <2>1 DEF SameLife
  <2>4. SamePumps(current'.events, current.events) /\ (~current'.overflowed => ~current.overflowed)
    BY <2>1, QuietAdds
  <2>5. ~current'.overflowed =>
          Measured(current'.events, current.begin,
                   current.pumpOn - (link.onStart - current.begin))
    BY <2>1, <2>4, SameMeasured DEF MeterInv
  <2> QED BY <2>1, <2>2, <2>3, <2>5 DEF MeterInv
<1>4. CASE UNCHANGED pullVars BY <1>4 DEF pullVars, MeterInv
<1> QED BY <1>1, <1>2, <1>3, <1>4 DEF RecorderNext

LEMMA AccountedStep ==
  ASSUME HalfTurn, RecordInv, TimelineInv, MeterInv, PumpTimeAccounted, [RecorderNext]_pullVars
  PROVE  PumpTimeAccounted'
<1>1. CASE AnyUpdate /\ published' # NoRecord
  <2>1. PICK gap \in Gaps, on \in BOOLEAN : RecorderUpdate(gap, on) BY <1>1 DEF AnyUpdate
  <2>2. now' = (now + gap) % ClockRange BY <2>1, UpdateIsMove
  <2>3. current.phase = "POST_PUMP" /\ InPumpWindow(current.phase)
    BY <1>1, <2>1, UpdateFinalizes DEF InPumpWindow
  <2>4. PICK q : /\ Ticked(q, current, now') /\ Finishes(published', q, now')
                 /\ EndsAfter(published', q, now')
    BY <1>1, <2>1, UpdateFinalizes
  <2>5. /\ q.begin = current.begin /\ q.lastOff = current.lastOff /\ q.pumpOn = current.pumpOn
        /\ published'.begin = q.begin /\ published'.pumpOn = q.pumpOn
        /\ published'.overflowed = q.overflowed
    BY <2>4 DEF Ticked, SameLife, Finishes
  <2>6. /\ current.begin \in Nat /\ current.lastOff \in Int /\ now' \in Nat
        /\ current.begin <= now' /\ now' + 1 <= current.begin + Lasts
    <3>1. OpenRecord(current) /\ current.begin \in Nat
      BY <2>3 DEF RecordInv, TimelineInv
    <3>2. current.lastOff \in Int BY <3>1 DEF OpenRecord, Shaped
    <3> QED BY <2>1, <2>2, <2>3, <3>1, <3>2, WindowTime
  <2>7. current.pumpOn \in Nat /\ current.pumpOn <= current.lastOff - current.begin
    BY <2>3 DEF MeterInv
  <2>8. 2 * (now' - q.begin) < ClockRange
    <3>1. Lasts \in Nat BY TimelineBounds DEF Lasts
    <3> QED BY <2>5, <2>6, <3>1, TimelineBounds DEF HalfTurn
  <2>9. /\ published'.end \in Nat /\ published'.end < ClockRange
        /\ q.begin <= published'.end /\ q.lastOff <= published'.end
        /\ SamePumps(published'.events, q.events) /\ Len(published'.events) \in Nat
    BY <2>4, <2>8 DEF EndsAfter
  <2>10. Offset(published'.end, published') = published'.end - current.begin
    BY <2>5, <2>6, <2>9, NoWrap DEF Offset
  <2>11. published'.pumpOn <= Offset(published'.end, published')
    BY <2>5, <2>6, <2>7, <2>9, <2>10
  <2>12. ASSUME ~published'.overflowed
         PROVE  published'.pumpOn
                  = OnTime(published'.events, published'.begin)[Len(published'.events)]
    <3>1. ~current.overflowed => Measured(current.events, current.begin, current.pumpOn)
      BY <2>3 DEF MeterInv
    <3>2. Measured(q.events, current.begin, current.pumpOn)
      BY <2>3, <2>4, <2>5, <2>12, <3>1, TickMeasured
    <3>3. Measured(published'.events, current.begin, current.pumpOn)
      BY <2>9, <3>2, SameMeasured
    <3> QED BY <2>5, <2>9, <3>3, OnTimeMeasured
  <2> QED BY <2>11, <2>12 DEF PumpTimeAccounted, Offset
<1>2. CASE published' = NoRecord BY <1>2 DEF PumpTimeAccounted
<1>3. CASE Clear
  <2>1. published' = NoRecord BY <1>3 DEF Clear
  <2> QED BY <2>1 DEF PumpTimeAccounted
<1>4. CASE UNCHANGED published BY <1>4 DEF PumpTimeAccounted, Offset
<1> QED BY <1>1, <1>2, <1>3, <1>4 DEF RecorderNext, TriggerAlarm, pullVars

(* While, besides, a record is shorter than half a turn of the clock: the  *)
(* totalPumpOnMs of a record handed on is what its PUMP_ON and PUMP_OFF    *)
(* events add up to over all the intervals that joined, and no more than   *)
(* its length (transitionTo RUNNING and POST_PUMP).                        *)
THEOREM PumpTimeIsAccounted ==
  ASSUME ShortPulses = FALSE, InOneTurn, HalfTurn
  PROVE  RecorderSpec => []PumpTimeAccounted
<1> DEFINE Inv == RecordInv /\ TimelineInv /\ MeterInv /\ PumpTimeAccounted
<1>1. RecorderInit => Inv
  <2>1. NewRecord.phase = "IDLE" BY DEF NewRecord
  <2>2. RecorderInit => MeterInv /\ PumpTimeAccounted
    BY <2>1 DEF RecorderInit, MeterInv, PumpTimeAccounted
  <2> QED BY <2>2, RecordInvInit, TimelineInvInit
<1>2. Inv /\ [RecorderNext]_pullVars => Inv'
  BY RecordInvStep, TimelineInvStep, MeterInvStep, AccountedStep
<1>3. Inv => PumpTimeAccounted OBVIOUS
<1> QED BY <1>1, <1>2, <1>3, PTL DEF RecorderSpec

==============================================================================
