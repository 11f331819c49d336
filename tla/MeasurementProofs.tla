-------------------------- MODULE MeasurementProofs -------------------------
(***************************************************************************)
(* Proofs about the sources of a measurement and one that measures by      *)
(* them, which share no state: the link to the BLE scale (BleLink), for    *)
(* every set of addresses, depth of the command queue, number of           *)
(* re-subscriptions and bound on events and failures; the sessions of the  *)
(* pump's sensor (PumpSensor), for every set of screens and every          *)
(* threshold; the periods of a backflush (Backflush), for every number of  *)
(* cycles, target and pair of windows; and the tone of the pump in one     *)
(* frame (PumpSpectrum), for every band, gap and set of powers.            *)
(***************************************************************************)
EXTENDS BleLink, PumpSensor, Backflush, PumpSpectrum, FiniteSetTheorems,
        SequenceTheorems, WellFoundedInduction, TLAPS

(***************************************************************************)
(* Part 1: BleLink.                                                        *)
(***************************************************************************)
LinkRecord == [peer : Addrs \cup {"none"}, up : BOOLEAN, mute : BOOLEAN, sub : Nat]
TareRequest == [epoch : Nat, link : Nat]

LinkTypeOK ==
  /\ client \in LinkRecord
  /\ target \in Addrs /\ onAir \in Addrs
  /\ hostAt.at = "match" => hostAt.addr \in Addrs
  /\ issued \in Nat /\ epoch \in Nat
  /\ cmds \in Seq(TareRequest)

\* While a link is being made the service is in CONNECTING.
MakingLink == pc \in {"connect", "subscribe", "identify", "failed"} => state = "CONNECTING"

\* What the host is about to store was received over the link of now: a link is
\* made while no callback is halfway, and subscribed to before any is sent.
HalfOfReceiver == half # 0 => half = rxHost
StoreOfLink ==
  /\ pc = "subscribe" => Sub = 0 /\ hostAt.at # "notify"
  /\ hostAt.at = "notify" /\ Sub # 0 => hostAt.gen = Sub /\ half = Sub

\* The reading is of the link of now in whatever state the service is.
WeightOfLink == Sub # 0 /\ weight # NoWeight => weight = [first |-> Sub, last |-> Sub]

\* A queued tare of this epoch bears the link that is ready; the teardown of
\* that link leads out of READY before the queue is looked at again.
TearingDown == pc \in {"fallback", "leave"}
QueuedTares ==
  \A i \in DOMAIN cmds :
    /\ cmds[i].epoch <= epoch
    /\ cmds[i].epoch = epoch /\ state = "READY" /\ ~TearingDown => cmds[i].link = Sub

LinkInv ==
  /\ LinkTypeOK /\ MakingLink /\ HalfOfReceiver /\ StoreOfLink
  /\ WeightOfLink /\ QueuedTares /\ TareOnAskedLink

-----------------------------------------------------------------------------

LEMMA LinkInvInit == Init => LinkInv
<1> SUFFICES ASSUME Init PROVE LinkInv OBVIOUS
<1>1. onAir \in Addrs BY BleAssumption DEF Init
<1>2. LinkTypeOK BY <1>1 DEF Init, LinkTypeOK, LinkRecord, NoClient, Free
<1>3. MakingLink /\ HalfOfReceiver /\ StoreOfLink /\ WeightOfLink /\ TareOnAskedLink
  BY DEF Init, MakingLink, HalfOfReceiver, StoreOfLink, WeightOfLink, TareOnAskedLink, Free, Sub,
         NoClient
<1>4. QueuedTares BY DEF Init, QueuedTares
<1> QED BY <1>2, <1>3, <1>4 DEF LinkInv

-----------------------------------------------------------------------------
(* One lemma per conjunct; the first gives the others their types.         *)

LEMMA TypeStep == LinkInv /\ [Next]_vars => LinkTypeOK'
<1> SUFFICES ASSUME LinkInv, [Next]_vars PROVE LinkTypeOK' OBVIOUS
<1> USE DEF LinkInv, LinkTypeOK, LinkRecord, manager, demand, readings, edges, host, nimble, bounds
<1>1. CASE DrainTare
  <2>1. cmds' \in Seq(TareRequest) BY <1>1 DEF DrainTare
  <2> QED BY <1>1, <2>1 DEF DrainTare
<1>2. CASE EnterConnect BY <1>2 DEF EnterConnect
<1>3. CASE LeaveConnect BY <1>3 DEF LeaveConnect, Teardown, NoClient
<1>4. CASE LeftConnect BY <1>4 DEF LeftConnect, Transition
<1>5. CASE RunIdle BY <1>5 DEF RunIdle, vars
<1>6. CASE RunOff BY <1>6 DEF RunOff, Transition
<1>7. CASE RunFound BY <1>7 DEF RunFound, Transition
<1>8. CASE RunSearch BY <1>8 DEF RunSearch
<1>9. CASE RunConnecting BY <1>9 DEF RunConnecting
<1>10. CASE RunLost BY <1>10 DEF RunLost, Teardown, NoClient
<1>11. CASE RunReady BY <1>11 DEF RunReady
<1>12. CASE TryConnect BY <1>12 DEF TryConnect
<1>13. CASE Subscribe BY <1>13 DEF Subscribe
<1>14. CASE Identify BY <1>14 DEF Identify, Transition
<1>15. CASE Failed BY <1>15 DEF Failed, Teardown, NoClient
<1>16. CASE Fallback BY <1>16 DEF Fallback, Transition
<1>17. CASE HostAdvert BY <1>17 DEF HostAdvert
<1>18. CASE HostMatch BY <1>18 DEF HostMatch, Free
<1>19. CASE HostNotify BY <1>19 DEF HostNotify
<1>20. CASE HostWeight BY <1>20 DEF HostWeight, Free
<1>21. CASE HostBattery BY <1>21 DEF HostBattery, Free
<1>22. CASE HostGoodbye BY <1>22 DEF HostGoodbye
<1>23. CASE ScanEnds BY <1>23 DEF ScanEnds
<1>24. CASE LinkDrops BY <1>24 DEF LinkDrops
<1>25. CASE AddressChanges BY <1>25 DEF AddressChanges
<1>26. CASE Demand BY <1>26 DEF Demand
<1>27. CASE RequestTare
  <2>1. [epoch |-> epoch, link |-> IF state = "READY" THEN Sub ELSE 0] \in TareRequest
    BY DEF TareRequest, Sub
  <2>2. cmds' \in Seq(TareRequest) BY <1>27, <2>1 DEF RequestTare
  <2> QED BY <1>27, <2>2 DEF RequestTare
<1>28. CASE UNCHANGED vars BY <1>28 DEF vars
<1> QED BY <1>1, <1>2, <1>3, <1>4, <1>5, <1>6, <1>7, <1>8, <1>9, <1>10, <1>11, <1>12, <1>13, <1>14,
           <1>15, <1>16, <1>17, <1>18, <1>19, <1>20, <1>21, <1>22, <1>23, <1>24, <1>25, <1>26,
           <1>27, <1>28 DEF Next, Manager, HostStep, Environment

\* The control of the manager, and what the host has half done.
LEMMA ControlStep ==
  LinkInv /\ [Next]_vars => (MakingLink /\ HalfOfReceiver /\ StoreOfLink)'
<1> SUFFICES ASSUME LinkInv, [Next]_vars PROVE (MakingLink /\ HalfOfReceiver /\ StoreOfLink)' OBVIOUS
<1> USE DEF LinkInv, LinkTypeOK, LinkRecord, MakingLink, HalfOfReceiver, StoreOfLink, Sub,
            SearchStates, manager, demand, readings, edges, host, nimble, bounds
<1>1. CASE DrainTare BY <1>1 DEF DrainTare
<1>2. CASE EnterConnect BY <1>2 DEF EnterConnect
<1>3. CASE LeaveConnect BY <1>3 DEF LeaveConnect, Teardown, NoClient
<1>4. CASE LeftConnect BY <1>4 DEF LeftConnect, Transition
<1>5. CASE RunIdle BY <1>5 DEF RunIdle, vars
<1>6. CASE RunOff BY <1>6 DEF RunOff, Transition, Running, Choosing
<1>7. CASE RunFound BY <1>7 DEF RunFound, Transition
<1>8. CASE RunSearch BY <1>8 DEF RunSearch
<1>9. CASE RunConnecting BY <1>9 DEF RunConnecting
<1>10. CASE RunLost BY <1>10 DEF RunLost, Teardown, NoClient
<1>11. CASE RunReady BY <1>11 DEF RunReady
<1>12. CASE TryConnect BY <1>12 DEF TryConnect, Free
<1>13. CASE Subscribe BY <1>13 DEF Subscribe
<1>14. CASE Identify BY <1>14 DEF Identify, Transition
<1>15. CASE Failed BY <1>15 DEF Failed, Teardown, NoClient
<1>16. CASE Fallback BY <1>16 DEF Fallback, Transition
<1>17. CASE HostAdvert BY <1>17 DEF HostAdvert
<1>18. CASE HostMatch BY <1>18 DEF HostMatch, Free
<1>19. CASE HostNotify BY <1>19 DEF HostNotify, ReceiverOf
<1>20. CASE HostWeight BY <1>20 DEF HostWeight, Free
<1>21. CASE HostBattery BY <1>21 DEF HostBattery, Free
<1>22. CASE HostGoodbye BY <1>22 DEF HostGoodbye
<1>23. CASE ScanEnds BY <1>23 DEF ScanEnds
<1>24. CASE LinkDrops BY <1>24 DEF LinkDrops
<1>25. CASE AddressChanges BY <1>25 DEF AddressChanges
<1>26. CASE Demand BY <1>26 DEF Demand
<1>27. CASE RequestTare BY <1>27 DEF RequestTare
<1>28. CASE UNCHANGED vars BY <1>28 DEF vars
<1> QED BY <1>1, <1>2, <1>3, <1>4, <1>5, <1>6, <1>7, <1>8, <1>9, <1>10, <1>11, <1>12, <1>13, <1>14,
           <1>15, <1>16, <1>17, <1>18, <1>19, <1>20, <1>21, <1>22, <1>23, <1>24, <1>25, <1>26,
           <1>27, <1>28 DEF Next, Manager, HostStep, Environment

\* The reading and the link it is of.
LEMMA WeightStep == LinkInv /\ [Next]_vars => WeightOfLink'
<1> SUFFICES ASSUME LinkInv, [Next]_vars PROVE WeightOfLink' OBVIOUS
<1> USE DEF LinkInv, LinkTypeOK, LinkRecord, WeightOfLink, Sub, manager, demand, readings, edges,
            host, nimble, bounds
<1>1. CASE UNCHANGED <<weight, client>> BY <1>1
<1>2. CASE LeaveConnect \/ RunLost \/ Failed
  BY <1>2 DEF LeaveConnect, RunLost, Failed, Teardown, NoClient
<1>3. CASE LeftConnect \/ RunOff \/ RunFound \/ Fallback \/ Identify
  BY <1>3 DEF LeftConnect, RunOff, RunFound, Fallback, Identify, Transition
<1>4. CASE TryConnect BY <1>4 DEF TryConnect
<1>5. CASE Subscribe BY <1>5 DEF Subscribe
<1>6. CASE HostWeight BY <1>6 DEF HostWeight, StoreOfLink
<1>7. CASE LinkDrops BY <1>7 DEF LinkDrops
<1>8. CASE DrainTare \/ EnterConnect \/ RunIdle \/ RunSearch \/ RunConnecting \/ RunReady
  BY <1>1, <1>8 DEF DrainTare, EnterConnect, RunIdle, RunSearch, RunConnecting, RunReady, vars
<1>9. CASE HostAdvert \/ HostMatch \/ HostNotify \/ HostBattery \/ HostGoodbye
  BY <1>1, <1>9 DEF HostAdvert, HostMatch, HostNotify, HostBattery, HostGoodbye
<1>10. CASE ScanEnds \/ AddressChanges \/ Demand \/ RequestTare
  BY <1>1, <1>10 DEF ScanEnds, AddressChanges, Demand, RequestTare
<1>11. CASE UNCHANGED vars BY <1>1, <1>11 DEF vars
<1> QED BY <1>2, <1>3, <1>4, <1>5, <1>6, <1>7, <1>8, <1>9, <1>10, <1>11
           DEF Next, Manager, HostStep, Environment

\* A step that leaves the queue as it is, and either the link and the epoch too
\* or the service out of READY or on its way out of it.
LEMMA QueueKept ==
  ASSUME LinkInv, UNCHANGED cmds, epoch' = epoch,
         \/ UNCHANGED <<client, state>> /\ (TearingDown => TearingDown')
         \/ state' # "READY" \/ TearingDown'
  PROVE  QueuedTares'
BY DEF LinkInv, QueuedTares, Sub, TearingDown

LEMMA TareStep == LinkInv /\ [Next]_vars => (QueuedTares /\ TareOnAskedLink)'
<1> SUFFICES ASSUME LinkInv, [Next]_vars PROVE (QueuedTares /\ TareOnAskedLink)' OBVIOUS
<1> USE DEF manager, demand, readings, edges, host, nimble, bounds
<1>1. CASE DrainTare
  <2>1. cmds \in Seq(TareRequest) /\ cmds # <<>> BY <1>1 DEF DrainTare, LinkInv, LinkTypeOK
  <2>2. /\ 1 \in DOMAIN cmds /\ Head(cmds) = cmds[1]
        /\ \A i \in DOMAIN Tail(cmds) : i + 1 \in DOMAIN cmds /\ Tail(cmds)[i] = cmds[i + 1]
    BY <2>1
  <2>3. QueuedTares'
    BY <1>1, <2>2 DEF DrainTare, LinkInv, QueuedTares, TearingDown, Sub
  <2>4. TareIsCurrent(Head(cmds)) => Head(cmds).link = Sub
    BY <1>1, <2>2 DEF DrainTare, TareIsCurrent, LinkInv, QueuedTares, TearingDown
  <2>5. TareOnAskedLink' BY <1>1, <2>4 DEF DrainTare, LinkInv, TareOnAskedLink
  <2> QED BY <2>3, <2>5
<1>2. CASE RequestTare
  <2> DEFINE cmd == [epoch |-> epoch, link |-> IF state = "READY" THEN Sub ELSE 0]
  <2>1. cmds \in Seq(TareRequest) /\ cmd \in TareRequest /\ epoch \in Nat
    BY DEF LinkInv, LinkTypeOK, LinkRecord, TareRequest, Sub
  <2>2. \A i \in DOMAIN Append(cmds, cmd) :
          Append(cmds, cmd)[i] = cmd \/ (i \in DOMAIN cmds /\ Append(cmds, cmd)[i] = cmds[i])
    BY <2>1
  <2>3. cmds' = Append(cmds, cmd) /\ UNCHANGED <<epoch, state, client, pc, tared>>
    BY <1>2 DEF RequestTare
  <2>4. QueuedTares' BY <2>1, <2>2, <2>3 DEF LinkInv, QueuedTares, TearingDown, Sub
  <2> QED BY <2>3, <2>4 DEF LinkInv, TareOnAskedLink
<1>3. CASE Identify
  <2>1. UNCHANGED <<cmds, tared, client>> BY <1>3 DEF Identify
  <2>2. state = "CONNECTING" /\ epoch \in Nat
    BY <1>3 DEF Identify, LinkInv, MakingLink, LinkTypeOK
  <2>3. (state' = "READY" /\ epoch' = epoch + 1) \/ (state' = state /\ epoch' = epoch)
    BY <1>3, <2>2 DEF Identify, Transition
  <2>4. \A i \in DOMAIN cmds : cmds[i].epoch \in Nat /\ cmds[i].epoch <= epoch
    <3>1. \A i \in DOMAIN cmds : cmds[i] \in TareRequest BY DEF LinkInv, LinkTypeOK
    <3> QED BY <3>1 DEF TareRequest, LinkInv, QueuedTares
  <2>5. QueuedTares' BY <2>1, <2>2, <2>3, <2>4 DEF QueuedTares
  <2> QED BY <2>1, <2>5 DEF LinkInv, TareOnAskedLink
<1>4. CASE ~DrainTare /\ ~RequestTare /\ ~Identify
  <2>1. UNCHANGED <<cmds, tared>> /\ epoch' = epoch
    BY <1>4 DEF Next, Manager, HostStep, Environment, EnterConnect, LeaveConnect, LeftConnect,
       RunIdle, RunOff, RunFound, RunSearch, RunConnecting, RunLost, RunReady, TryConnect,
       Subscribe, Failed, Fallback, HostAdvert, HostMatch, HostNotify, HostWeight, HostBattery,
       HostGoodbye, ScanEnds, LinkDrops, AddressChanges, Demand, Transition, vars
  <2>2. CASE LeaveConnect \/ RunLost \/ LeftConnect \/ RunOff \/ RunFound \/ Fallback
    <3>1. state' # "READY" \/ TearingDown'
      BY <2>2 DEF LeaveConnect, RunLost, LeftConnect, RunOff, RunFound, Fallback, Transition,
                  TearingDown
    <3> QED BY <2>1, <3>1, QueueKept DEF LinkInv, TareOnAskedLink
  <2>3. CASE TryConnect \/ Subscribe \/ Failed
    <3>1. state' = "CONNECTING"
      BY <2>3 DEF TryConnect, Subscribe, Failed, LinkInv, MakingLink
    <3> QED BY <2>1, <3>1, QueueKept DEF LinkInv, TareOnAskedLink
  <2>4. CASE LinkDrops
    <3>1. UNCHANGED <<state, pc>> /\ Sub' = Sub
      BY <2>4 DEF LinkDrops, LinkInv, LinkTypeOK, LinkRecord, Sub
    <3> QED BY <2>1, <3>1 DEF LinkInv, TareOnAskedLink, QueuedTares, TearingDown
  <2>5. CASE EnterConnect \/ RunIdle \/ RunSearch \/ RunConnecting \/ RunReady
    <3>1. UNCHANGED <<client, state>> /\ ~TearingDown
      BY <2>5 DEF EnterConnect, RunIdle, RunSearch, RunConnecting, RunReady, TearingDown, Running,
                  Choosing, vars
    <3> QED BY <2>1, <3>1, QueueKept DEF LinkInv, TareOnAskedLink
  <2>6. CASE \/ HostStep \/ HostAdvert \/ HostNotify \/ ScanEnds \/ AddressChanges \/ Demand
             \/ UNCHANGED vars
    <3>1. UNCHANGED <<client, state, pc>>
      BY <2>6 DEF HostStep, HostAdvert, HostNotify, HostMatch, HostWeight, HostBattery,
                  HostGoodbye, ScanEnds, AddressChanges, Demand, vars
    <3> QED BY <2>1, <3>1, QueueKept DEF LinkInv, TareOnAskedLink, TearingDown
  <2> QED BY <1>4, <2>2, <2>3, <2>4, <2>5, <2>6 DEF Next, Manager, Environment
<1> QED BY <1>1, <1>2, <1>3, <1>4

LEMMA LinkInvStep == LinkInv /\ [Next]_vars => LinkInv'
BY TypeStep, ControlStep, WeightStep, TareStep DEF LinkInv

LEMMA LinkInvHolds == Spec => []LinkInv
BY LinkInvInit, LinkInvStep, PTL DEF Spec

-----------------------------------------------------------------------------

(* A weight that is shown was received whole over the link that is up,     *)
(* whatever was on its way when an earlier link was torn down: links are   *)
(* made while no callback is halfway, and subscribed to after the reading  *)
(* was cleared (doHandshake, onNotify).                                    *)
THEOREM WeightIsLive == Spec => []ReadyWeightIsLive
<1>1. LinkInv => ReadyWeightIsLive BY DEF LinkInv, WeightOfLink, ReadyWeightIsLive
<1> QED BY LinkInvHolds, <1>1, PTL

(* A tare that is carried out reaches the link it was asked for on: a link *)
(* that becomes ready raises the epoch above that of every queued request  *)
(* (requestTare, drainCommands, transition).                               *)
THEOREM TareOnItsLink == Spec => []TareOnAskedLink
<1>1. LinkInv => TareOnAskedLink BY DEF LinkInv
<1> QED BY LinkInvHolds, <1>1, PTL

(***************************************************************************)
(* Part 2: PumpSensor.                                                     *)
(***************************************************************************)
Workers == {"none", "waiting", "analyzing", "analyzed", "restoring"}
FifoStates == {"NOT_INIT", "TASK_RUNNING", "STOP_REQUESTED", "STOPPED"}
TriggerState == [active : BOOLEAN, on : Int, off : Int]
DecayState == [reference : Seq(Int), candidate : BOOLEAN, onset : Int, accepted : Seq(Int)]

SensorTypeOK ==
  /\ fifo \in FifoStates /\ worker \in Workers
  /\ {owner, listener, called} \subseteq Screens \cup {"none"}
  /\ ending \in BOOLEAN /\ event \in {"None", "Opened", "Closed"}
  /\ trigger \in TriggerState /\ decay \in DecayState
  /\ smoothed \in Seq(Int) /\ openFor \in Nat

\* The task and the state the screens see agree: there is a task between the
\* begin that created it and its STOPPED, and only end() asks it to stop.
TaskWhileRunning ==
  /\ worker = "none" <=> IsStopped
  /\ worker = "restoring" => fifo = "STOP_REQUESTED"
  /\ fifo = "STOP_REQUESTED" => ending

\* A session ends with its owner's end() and in no other way.
SessionHasOwner ==
  /\ owner = "none" <=> (IsStopped /\ ~ending)
  /\ listener \in {owner, "none"}
  /\ called # "none" /\ owner # "none" => called = owner

SessionInv == SensorTypeOK /\ TaskWhileRunning /\ SessionHasOwner /\ OnsetInsideWindow

------------------------------------------------------------------------------
LEMMA NotedKeeps ==
  ASSUME NEW d \in DecayState, NEW raw \in Seq(Int)
  PROVE  /\ Noted(d, raw) \in DecayState
         /\ Noted(d, raw).candidate = d.candidate /\ Noted(d, raw).onset = d.onset
         /\ Noted(d, raw).accepted = d.accepted
<1>1. CASE ~Usable(raw)
  BY <1>1 DEF Noted, DecayState
<1>2. CASE Usable(raw)
  <2>1. raw[1] \in Int
    BY <1>2 DEF Usable
  <2>2. AppendReference(d.reference, raw[1]) \in Seq(Int)
    <3> DEFINE r == d.reference
               q == IF Len(r) < ReferenceFrames THEN r ELSE Tail(r)
    <3>1. r \in Seq(Int)
      BY DEF DecayState
    <3>2. Len(r) < ReferenceFrames \/ r # <<>>
      BY <3>1, SensorConstants
    <3>3. q \in Seq(Int)
      BY <3>1, <3>2
    <3>4. Append(q, raw[1]) \in Seq(Int)
      BY <3>3, <2>1
    <3> QED BY <3>4 DEF AppendReference
  <2> QED BY <1>2, <2>2 DEF Noted, DecayState
<1> QED BY <1>1, <1>2

\* What a frame does to the onset of an open window: none, one that starts with
\* this frame, or one that is older by the frame's distance and not too old.
LEMMA TrackedOnset ==
  ASSUME NEW d \in DecayState, NEW raw \in Seq(Int), NEW gap \in Nat
  PROVE  LET t == Tracked(d, raw, gap)
         IN /\ t \in DecayState /\ t.accepted = d.accepted
            /\ \/ ~t.candidate
               \/ t.candidate /\ t.onset = 0
               \/ t.candidate /\ d.candidate /\ t.onset = d.onset + gap /\ t.onset <= MaxCarry
<1> DEFINE have == Len(d.reference) >= MinReferenceFrames
           reference == TwiceMedian(d.reference)
           age == d.onset + gap
           recovered == Usable(raw) /\ have /\ 2 * raw[1] >= reference - 2 * RecoveryDrop
           expired == age > MaxCarry
           dropped == ~Usable(raw) \/ 2 * raw[1] <= reference - 2 * StartDrop
           over == [d EXCEPT !.candidate = FALSE, !.onset = 0]
           empty == [over EXCEPT !.reference = <<>>]
           begun == [d EXCEPT !.candidate = TRUE, !.onset = 0]
           older == [d EXCEPT !.onset = age]
           t == Tracked(d, raw, gap)
<1>0. t = CASE d.candidate /\ expired -> Noted(empty, raw)
       [] d.candidate /\ ~expired /\ recovered -> Noted(over, raw)
       [] d.candidate /\ ~expired /\ ~recovered -> older
       [] ~d.candidate /\ have /\ dropped -> begun
       [] OTHER -> Noted(d, raw)
  BY DEF Tracked
<1>1. age \in Int /\ MaxCarry \in Int
  BY SensorConstants DEF DecayState
<1>2. PICK z \in Int : z = 0
  OBVIOUS
<1>3. over = [d EXCEPT !.candidate = FALSE, !.onset = z] /\ begun = [d EXCEPT !.candidate = TRUE, !.onset = z]
  BY <1>2
<1>4. /\ over \in DecayState /\ over.candidate = FALSE /\ over.accepted = d.accepted
      /\ begun \in DecayState /\ begun.candidate = TRUE /\ begun.accepted = d.accepted /\ begun.onset = z
  BY <1>3 DEF DecayState
<1>5. /\ older \in DecayState /\ older.candidate = d.candidate /\ older.accepted = d.accepted
      /\ older.onset = age
  BY <1>1 DEF DecayState
<1>6. empty \in DecayState /\ empty.candidate = FALSE /\ empty.accepted = d.accepted
  <2>1. <<>> \in Seq(Int)
    OBVIOUS
  <2> HIDE DEF over
  <2> QED BY <1>4, <2>1 DEF DecayState
<1>7. /\ Noted(empty, raw) \in DecayState /\ Noted(empty, raw).candidate = FALSE
      /\ Noted(empty, raw).accepted = d.accepted
  BY <1>6, NotedKeeps
<1>8. /\ Noted(over, raw) \in DecayState /\ Noted(over, raw).candidate = FALSE
      /\ Noted(over, raw).accepted = d.accepted
  BY <1>4, NotedKeeps
<1>9. /\ Noted(d, raw) \in DecayState /\ Noted(d, raw).candidate = d.candidate
      /\ Noted(d, raw).accepted = d.accepted
  BY NotedKeeps
<1>10. d.candidate \in BOOLEAN
  BY DEF DecayState
<1> HIDE DEF over, empty, begun, older, have, dropped, recovered, reference, t
<1>11. CASE d.candidate /\ expired
  <2>1. t = Noted(empty, raw) BY <1>0, <1>11
  <2> QED BY <2>1, <1>7 DEF t
<1>12. CASE d.candidate /\ ~expired /\ recovered
  <2>1. t = Noted(over, raw) BY <1>0, <1>12
  <2> QED BY <2>1, <1>8 DEF t
<1>13. CASE d.candidate /\ ~expired /\ ~recovered
  <2>1. t = older BY <1>0, <1>13
  <2>2. t.onset = age /\ age <= MaxCarry BY <2>1, <1>5, <1>1, <1>13
  <2> QED BY <2>1, <2>2, <1>5, <1>13 DEF t
<1>14. CASE ~d.candidate /\ have /\ dropped
  <2>1. t = begun BY <1>0, <1>14
  <2> QED BY <2>1, <1>4, <1>2 DEF t
<1>15. CASE ~d.candidate /\ ~(have /\ dropped)
  <2>1. t = Noted(d, raw) BY <1>0, <1>15
  <2> QED BY <2>1, <1>9, <1>15 DEF t
<1> QED BY <1>10, <1>11, <1>12, <1>13, <1>14, <1>15

LEMMA SensorInitInv == SensorInit => SessionInv
<1> SUFFICES ASSUME SensorInit PROVE SessionInv
  OBVIOUS
<1> USE DEF SensorInit
<1>1. TriggerReset \in TriggerState /\ DecayReset \in DecayState
  BY DEF TriggerReset, TriggerState, DecayReset, DecayState
<1>2. SensorTypeOK
  <2>1. trigger \in TriggerState /\ decay \in DecayState
    BY <1>1
  <2>2. smoothed \in Seq(Int) /\ openFor \in Nat
    OBVIOUS
  <2> HIDE DEF TriggerReset, DecayReset
  <2> QED BY <2>1, <2>2 DEF SensorTypeOK, FifoStates, Workers
<1>3. TaskWhileRunning /\ SessionHasOwner
  BY DEF TaskWhileRunning, SessionHasOwner, IsStopped
<1>4. OnsetInsideWindow
  BY DEF OnsetInsideWindow, DecayReset
<1> QED BY <1>2, <1>3, <1>4 DEF SessionInv

\* A step that leaves the analysis alone, and one that resets it.
LEMMA OnsetKept ==
  OnsetInsideWindow /\ UNCHANGED analysisVars => OnsetInsideWindow'
BY DEF OnsetInsideWindow, analysisVars

LEMMA OnsetReset ==
  ResetAnalysisLocked =>
    /\ OnsetInsideWindow'
    /\ trigger' \in TriggerState /\ decay' \in DecayState
    /\ smoothed' \in Seq(Int) /\ openFor' \in Nat
BY DEF OnsetInsideWindow, ResetAnalysisLocked, TriggerReset, TriggerState, DecayReset, DecayState

LEMMA StepKeepsType ==
  ASSUME NEW w \in TriggerState, NEW still \in BOOLEAN, NEW humming \in BOOLEAN, NEW s
  PROVE  StepDetailed(w, still, humming, s) \in TriggerState
<1>1. w.active \in BOOLEAN /\ w.on \in Int /\ w.off \in Int
  BY DEF TriggerState
<1>2. NOn \in Int /\ NOff \in Int
  BY SensorConstants
<1> DEFINE e == Enter(still, humming, s)
           y == Stay(still, humming, s)
<1>3. e \in BOOLEAN /\ y \in BOOLEAN
  BY DEF Enter, Stay
<1> HIDE DEF e, y
<1>4. TriggerReset \in TriggerState /\ [active |-> TRUE, on |-> NOn, off |-> 0] \in TriggerState
  BY <1>2 DEF TriggerReset, TriggerState
<1>5. /\ [w EXCEPT !.on = @ + 1] \in TriggerState /\ [w EXCEPT !.on = 0] \in TriggerState
      /\ [w EXCEPT !.off = 0] \in TriggerState /\ [w EXCEPT !.off = @ + 1] \in TriggerState
  BY <1>1 DEF TriggerState
<1>6. StepDetailed(w, still, humming, s) =
        CASE ~w.active /\ e ->
               IF w.on + 1 >= NOn THEN [active |-> TRUE, on |-> NOn, off |-> 0]
               ELSE [w EXCEPT !.on = @ + 1]
          [] ~w.active /\ ~e -> [w EXCEPT !.on = 0]
          [] w.active /\ y -> [w EXCEPT !.off = 0]
          [] w.active /\ ~y ->
               IF w.off + 1 >= NOff THEN TriggerReset ELSE [w EXCEPT !.off = @ + 1]
  BY DEF StepDetailed, e, y
<1> QED BY <1>1, <1>3, <1>4, <1>5, <1>6

\* The onset of an open window is inside it, and a closed one has left its onset.
OnsetFits(d, open, age) ==
  /\ d \in DecayState
  /\ d.candidate => open /\ d.onset < age /\ d.onset <= MaxCarry
  /\ d.accepted # <<>> => ~open /\ d.accepted[1] <= MaxCarry

OpenLater(was, is, age, gap) ==
  IF ~(was /\ is) THEN 0
  ELSE IF age + gap > MaxCarry + MaxLate THEN MaxCarry + MaxLate
  ELSE age + gap


\* The onset of the window a frame leaves open or closes.
LEMMA DecayStepOnset ==
  ASSUME NEW d, NEW was \in BOOLEAN, NEW is \in BOOLEAN, NEW raw \in Seq(Int),
         NEW gap \in 1 .. MaxLate, NEW open \in Nat, OnsetFits(d, was, open)
  PROVE  OnsetFits(DecayStep(d, was, is, raw, gap), is, OpenLater(was, is, open, gap))
<1> DEFINE n == DecayStep(d, was, is, raw, gap)
           older == OpenLater(was, is, open, gap)
           t == Tracked(d, raw, gap)
           closed == [DecayReset EXCEPT !.accepted = IF t.candidate THEN <<t.onset>> ELSE <<>>]
<1>0. /\ d \in DecayState
      /\ d.candidate => was /\ d.onset < open /\ d.onset <= MaxCarry
      /\ d.accepted # <<>> => ~was /\ d.accepted[1] <= MaxCarry
  BY DEF OnsetFits
<1>00. older = IF ~(was /\ is) THEN 0
               ELSE IF open + gap > MaxCarry + MaxLate THEN MaxCarry + MaxLate
               ELSE open + gap
  BY DEF OpenLater
<1> HIDE DEF older
<1>1. /\ gap \in Nat \ {0} /\ MaxCarry \in Nat /\ MaxLate \in Nat \ {0} /\ gap <= MaxLate
  BY SensorConstants
<1>2. /\ t \in DecayState /\ t.accepted = d.accepted
      /\ \/ ~t.candidate
         \/ t.candidate /\ t.onset = 0
         \/ t.candidate /\ d.candidate /\ t.onset = d.onset + gap /\ t.onset <= MaxCarry
  BY <1>0, <1>1, TrackedOnset
<1>3. d.candidate \in BOOLEAN /\ d.onset \in Int /\ d.accepted \in Seq(Int)
      /\ t.candidate \in BOOLEAN /\ t.onset \in Int /\ t.accepted \in Seq(Int)
  BY <1>0, <1>2 DEF DecayState
<1>4. DecayReset \in DecayState /\ DecayReset.candidate = FALSE /\ DecayReset.accepted = <<>>
  BY DEF DecayReset, DecayState
<1>5. was /\ ~is => n = closed
  BY DEF DecayStep
<1>6. ~was /\ is => n = Noted(DecayReset, raw)
  BY DEF DecayStep
<1>7. ~was /\ ~is => n = ClearWindow(d)
  BY DEF DecayStep
<1>8. was /\ is => n = t
  BY DEF DecayStep
<1> HIDE DEF n, t
<1>9. ASSUME ~was /\ is PROVE OnsetFits(n, is, older)
  <2>1. n \in DecayState /\ n.candidate = FALSE /\ n.accepted = <<>>
    BY <1>4, <1>6, <1>9, NotedKeeps
  <2> QED BY <2>1 DEF OnsetFits
<1>10. ASSUME ~was /\ ~is PROVE OnsetFits(n, is, older)
  <2>1. n = [DecayReset EXCEPT !.accepted = d.accepted]
    BY <1>7, <1>10 DEF ClearWindow
  <2>2. n \in DecayState /\ n.candidate = FALSE /\ n.accepted = d.accepted
    BY <2>1, <1>4, <1>3 DEF DecayState
  <2> QED BY <2>2, <1>0, <1>10 DEF OnsetFits
<1>11. ASSUME was /\ ~is PROVE OnsetFits(n, is, older)
  <2> DEFINE a == IF t.candidate THEN <<t.onset>> ELSE <<>>
  <2>1. a \in Seq(Int)
    BY <1>3
  <2>2. a # <<>> => a[1] <= MaxCarry
    <3>1. CASE t.candidate
      <4>1. a[1] = t.onset BY <3>1
      <4> QED BY <4>1, <1>2, <1>1, <3>1
    <3> QED BY <3>1
  <2>3. n = [DecayReset EXCEPT !.accepted = a]
    BY <1>5, <1>11
  <2> HIDE DEF a
  <2>4. n \in DecayState /\ n.candidate = FALSE /\ n.accepted = a
    BY <2>1, <2>3, <1>4 DEF DecayState
  <2> QED BY <2>2, <2>4, <1>11 DEF OnsetFits
<1>12. ASSUME was /\ is PROVE OnsetFits(n, is, older)
  <2>1. n \in DecayState /\ n.accepted = <<>>
    BY <1>0, <1>2, <1>3, <1>8, <1>12
  <2>2. ASSUME n.candidate PROVE n.onset < older /\ n.onset <= MaxCarry
    <3>1. older = (IF open + gap > MaxCarry + MaxLate THEN MaxCarry + MaxLate ELSE open + gap)
      BY <1>00, <1>12
    <3>2. older > 0
      BY <3>1, <1>1, <1>12
    <3>3. CASE n.onset = 0
      BY <3>2, <3>3, <1>1
    <3>4. CASE d.candidate /\ n.onset = d.onset + gap /\ n.onset <= MaxCarry
      BY <3>1, <3>4, <1>0, <1>1, <1>3
    <3> QED BY <2>2, <3>3, <3>4, <1>2, <1>8, <1>12
  <2> QED BY <2>1, <2>2, <1>12 DEF OnsetFits
<1> QED BY <1>9, <1>10, <1>11, <1>12 DEF n, older

LEMMA FrameKeeps ==
  ASSUME SessionInv, NEW still \in BOOLEAN, NEW raw \in {<<>>} \cup {<<x>> : x \in Snrs},
         NEW gap \in 1 .. MaxLate, FifoCallback(still, raw, gap)
  PROVE  SessionInv'
<1> USE DEF SessionInv, SensorTypeOK
<1>1. raw \in Seq(Int) /\ (raw # <<>> => raw[1] \in Snrs)
  <2>1. CASE raw = <<>>
    BY <2>1
  <2>2. ASSUME NEW x \in Snrs, raw = <<x>> PROVE raw \in Seq(Int) /\ raw[1] \in Snrs
    <3>1. x \in Int
      BY SensorConstants
    <3>2. <<x>> \in Seq(Int) /\ <<x>>[1] = x
      BY <3>1
    <3> QED BY <3>2, <2>2
  <2> QED BY <2>1, <2>2
<1>2. PICK s \in IF still /\ raw # <<>> THEN Averages(smoothed, raw[1]) ELSE {smoothed} :
        LET was == trigger.active
            t   == StepDetailed(trigger, still, raw # <<>>, s)
            usable == IF still THEN raw ELSE <<>>
        IN /\ smoothed' = s /\ trigger' = t
           /\ decay' = DecayStep(decay, was, t.active, usable, gap)
           /\ event' = IF t.active = was THEN "None" ELSE IF was THEN "Closed" ELSE "Opened"
           /\ openFor' = IF ~(was /\ t.active) THEN 0
                         ELSE IF openFor + gap > MaxCarry + MaxLate THEN MaxCarry + MaxLate
                         ELSE openFor + gap
  BY DEF FifoCallback
<1> DEFINE was == trigger.active
           is == trigger'.active
           usable == IF still THEN raw ELSE <<>>
<1>3. smoothed' \in Seq(Int)
  <2>1. ASSUME still /\ raw # <<>> PROVE smoothed' \in Seq(Int)
    <3>1. smoothed' \in Averages(smoothed, raw[1]) /\ raw[1] \in Int
      BY <1>1, <1>2, <2>1, SensorConstants
    <3>2. ASSUME NEW y \in Int PROVE <<y>> \in Seq(Int)
      OBVIOUS
    <3>3. Averages(smoothed, raw[1]) \subseteq {<<y>> : y \in Int}
      BY <3>1, SensorConstants DEF Averages
    <3> QED BY <3>1, <3>2, <3>3
  <2> QED BY <1>2, <2>1
<1>4. trigger' \in TriggerState
  BY <1>2, StepKeepsType
<1>5. was \in BOOLEAN /\ is \in BOOLEAN /\ usable \in Seq(Int)
  BY <1>1, <1>4 DEF TriggerState
<1>6. /\ decay' = DecayStep(decay, was, is, usable, gap)
      /\ openFor' = IF ~(was /\ is) THEN 0
                    ELSE IF openFor + gap > MaxCarry + MaxLate THEN MaxCarry + MaxLate
                    ELSE openFor + gap
      /\ event' \in {"None", "Opened", "Closed"}
  BY <1>2
<1>7. /\ decay.candidate => was /\ decay.onset < openFor /\ decay.onset <= MaxCarry
      /\ decay.accepted # <<>> => ~was /\ decay.accepted[1] <= MaxCarry
      /\ openFor \in Nat
  BY DEF OnsetInsideWindow
<1> HIDE DEF was, is, usable
<1>8. /\ decay' \in DecayState
      /\ decay'.candidate => is /\ decay'.onset < openFor' /\ decay'.onset <= MaxCarry
      /\ decay'.accepted # <<>> => ~is /\ decay'.accepted[1] <= MaxCarry
  <2>1. OnsetFits(decay, was, openFor)
    BY <1>7 DEF OnsetFits
  <2>2. OnsetFits(DecayStep(decay, was, is, usable, gap), is, OpenLater(was, is, openFor, gap))
    BY <1>5, <1>7, <2>1, DecayStepOnset
  <2>3. decay' = DecayStep(decay, was, is, usable, gap) /\ openFor' = OpenLater(was, is, openFor, gap)
    BY <1>6 DEF OpenLater
  <2>4. OnsetFits(decay', is, openFor')
    BY <2>2, <2>3
  <2> QED BY <2>4 DEF OnsetFits
<1>9. openFor' \in Nat
  BY <1>6, <1>7, SensorConstants
<1>10. /\ worker = "analyzing" /\ worker' = "analyzed"
       /\ UNCHANGED <<fifo, owner, ending, listener, called>>
  BY DEF FifoCallback
<1>11. SensorTypeOK'
  BY <1>3, <1>4, <1>6, <1>8, <1>9, <1>10 DEF Workers
<1>12. TaskWhileRunning' /\ SessionHasOwner'
  BY <1>10 DEF TaskWhileRunning, SessionHasOwner, IsStopped
<1>13. OnsetInsideWindow'
  BY <1>8 DEF OnsetInsideWindow, is
<1> QED BY <1>11, <1>12, <1>13

LEMMA SensorNextInv == SessionInv /\ [SensorNext]_sensorVars => SessionInv'
<1> SUFFICES ASSUME SessionInv, [SensorNext]_sensorVars PROVE SessionInv'
  OBVIOUS
<1> USE DEF SessionInv, SensorTypeOK, FifoStates, Workers, TaskWhileRunning, SessionHasOwner, IsStopped
<1>1. CASE BatchRead
  BY <1>1, OnsetKept DEF BatchRead, analysisVars
<1>2. CASE NotifyTransition
  BY <1>2, OnsetKept DEF NotifyTransition, analysisVars
<1>3. CASE TaskStops
  BY <1>3, OnsetKept DEF TaskStops, analysisVars
<1>4. CASE RestoreIMU
  BY <1>4, OnsetKept DEF RestoreIMU, analysisVars
<1>5. CASE Frame
  BY <1>5, FrameKeeps DEF Frame
<1>6. CASE End
  BY <1>6, OnsetKept DEF End, analysisVars
<1>7. CASE EndReturns
  BY <1>7, OnsetKept DEF EndReturns, analysisVars
<1>8. ASSUME NEW s \in Screens, NEW cb \in {s, "none"}, Begin(s, cb) PROVE SessionInv'
  <2>1. OnsetInsideWindow' /\ trigger' \in TriggerState /\ decay' \in DecayState
        /\ smoothed' \in Seq(Int) /\ openFor' \in Nat
    BY <1>8, OnsetReset DEF Begin
  <2>2. s # "none"
    BY SensorConstants
  <2>3. IsStopped /\ ~ending /\ ending' = ending /\ event' = event
    BY <1>8 DEF Begin
  <2>4. CASE /\ owner' = s /\ fifo' = "TASK_RUNNING" /\ worker' = "waiting"
             /\ listener' = cb /\ called' = "none"
    BY <2>1, <2>2, <2>3, <2>4
  <2>5. CASE /\ fifo' \in {fifo, "NOT_INIT"} /\ listener' = "none"
             /\ UNCHANGED <<owner, worker, called>>
    BY <2>1, <2>3, <2>5
  <2> QED BY <1>8, <2>4, <2>5 DEF Begin
<1>9. CASE UNCHANGED sensorVars
  BY <1>9, OnsetKept DEF sensorVars, analysisVars
<1> QED BY <1>1, <1>2, <1>3, <1>4, <1>5, <1>6, <1>7, <1>8, <1>9
        DEF SensorNext, SensorTask, Sessions

(* The session protocol of the vibration sensor, whatever its constants    *)
(* (VibrationSensor::begin and end, AccelFIFO::task).                      *)
THEOREM SensorSessions == SensorSpec => []SessionInv
BY SensorInitInv, SensorNextInv, PTL DEF SensorSpec

(* Only the screen whose session it is hears of a transition, and after    *)
(* its end() returned nothing analyzes or calls any more.                  *)
THEOREM CallsInSession == SensorSpec => []CallsStayInSession
<1>1. SessionInv => CallsStayInSession
  BY DEF SessionInv, SensorTypeOK, Workers, FifoStates, TaskWhileRunning, SessionHasOwner,
         CallsStayInSession, IsStopped
<1> QED BY <1>1, SensorSessions, PTL

(* A pump-off is never backdated past MAX_CARRY_MS or out of the window it *)
(* closes (PumpDecayTracker::step), for any thresholds and frame times.    *)
THEOREM OnsetBackdated == SensorSpec => []OnsetInsideWindow
<1>1. SessionInv => OnsetInsideWindow
  BY DEF SessionInv
<1> QED BY <1>1, SensorSessions, PTL

(***************************************************************************)
(* Part 3: sums (Sums).                                                    *)
(***************************************************************************)

\* m[i] is the sum of the first i elements of s, up to the n-th.
Partial(m, s, n) ==
  /\ m \in [0..n -> Nat]
  /\ m[0] = 0
  /\ \A i \in 1..n : m[i] = m[i - 1] + s[i]

HasSums(s, n) == \E m : Partial(m, s, n)

LEMMA SumsGrow ==
  ASSUME NEW s \in Seq(Nat), NEW n \in 1..Len(s), HasSums(s, n - 1)
  PROVE  HasSums(s, n)
<1> PICK m : Partial(m, s, n - 1) BY DEF HasSums
<1> DEFINE k == [i \in 0..n |-> IF i = n THEN m[n - 1] + s[n] ELSE m[i]]
<1>1. n \in Nat /\ n > 0 /\ s[n] \in Nat OBVIOUS
<1>2. m[n - 1] \in Nat /\ \A i \in 0..(n - 1) : m[i] \in Nat BY <1>1 DEF Partial
<1>3. k \in [0..n -> Nat]
  <2>1. SUFFICES ASSUME NEW i \in 0..n PROVE k[i] \in Nat OBVIOUS
  <2>2. CASE i = n BY <1>1, <1>2, <2>2
  <2>3. CASE i # n BY <1>1, <1>2, <2>3
  <2> QED BY <2>2, <2>3
<1>4. k[0] = 0 BY <1>1 DEF Partial
<1>5. ASSUME NEW i \in 1..n PROVE k[i] = k[i - 1] + s[i]
  <2>1. CASE i = n BY <1>1, <2>1
  <2>2. CASE i # n
    <3>1. m[i] = m[i - 1] + s[i] BY <1>1, <2>2 DEF Partial
    <3> QED BY <1>1, <2>2, <3>1
  <2> QED BY <2>1, <2>2
<1> HIDE DEF k
<1>6. Partial(k, s, n) BY <1>3, <1>4, <1>5 DEF Partial
<1> QED BY <1>6 DEF HasSums

LEMMA SumsExist ==
  ASSUME NEW s \in Seq(Nat)
  PROVE  HasSums(s, Len(s))
<1> DEFINE Unsummed == {n \in Nat : n <= Len(s) /\ ~HasSums(s, n)}
           Less == OpToRel(<, Nat)
<1>1. Unsummed = {}
  <2>1. SUFFICES ASSUME Unsummed # {} PROVE FALSE OBVIOUS
  <2>2. IsWellFoundedOn(Less, Nat) /\ Unsummed \subseteq Nat BY NatLessThanWellFounded
  <2>3. PICK d \in Unsummed : \A i \in Unsummed : <<i, d>> \notin Less
    <3> HIDE DEF Unsummed, Less
    <3> QED BY <2>1, <2>2, WFMin
  <2>4. d \in Nat /\ d <= Len(s) /\ ~HasSums(s, d) BY <2>3
  <2>5. d # 0
    <3>1. Partial([i \in 0..0 |-> 0], s, 0) BY DEF Partial
    <3> QED BY <2>4, <3>1 DEF HasSums
  <2>6. d - 1 \in Nat /\ d - 1 <= Len(s) /\ <<d - 1, d>> \in Less
    BY <2>4, <2>5 DEF OpToRel
  <2> HIDE DEF Less
  <2>7. HasSums(s, d - 1) BY <2>3, <2>6
  <2> QED BY <2>4, <2>5, <2>7, SumsGrow
<1>2. Len(s) \in Nat /\ Len(s) <= Len(s) OBVIOUS
<1> QED BY <1>1, <1>2

LEMMA TotalSums ==
  ASSUME NEW s \in Seq(Nat), NEW m, Partial(m, s, Len(s))
  PROVE  Total(s) = m[Len(s)]
<1> DEFINE n == Len(s)
           Recursive(f) == f = [i \in 0..n |-> IF i = 0 THEN 0 ELSE f[i - 1] + s[i]]
           sum == CHOOSE f : Recursive(f)
<1>1. n \in Nat OBVIOUS
<1>2. Recursive(m)
  <2>1. m = [i \in 0..n |-> m[i]] BY DEF Partial
  <2>2. \A i \in 0..n : m[i] = IF i = 0 THEN 0 ELSE m[i - 1] + s[i] BY DEF Partial
  <2> QED BY <2>1, <2>2
<1>3. Recursive(sum)
  <2> HIDE DEF Recursive
  <2> QED BY <1>2
<1>4. Total(s) = sum[n] BY DEF Total
<1> HIDE DEF sum
<1>5. \A i \in 0..n : sum[i] = IF i = 0 THEN 0 ELSE sum[i - 1] + s[i]
  BY <1>3, Zenon
<1> HIDE DEF Recursive
<1> DEFINE Differ == {i \in Nat : i <= n /\ sum[i] # m[i]}
           Less == OpToRel(<, Nat)
<1>6. Differ = {}
  <2>1. SUFFICES ASSUME Differ # {} PROVE FALSE OBVIOUS
  <2>2. IsWellFoundedOn(Less, Nat) /\ Differ \subseteq Nat BY NatLessThanWellFounded
  <2>3. PICK d \in Differ : \A i \in Differ : <<i, d>> \notin Less
    <3> HIDE DEF Differ, Less
    <3> QED BY <2>1, <2>2, WFMin
  <2>4. d \in Nat /\ d <= n /\ sum[d] # m[d] BY <2>3
  <2>5. d # 0 BY <1>1, <1>5, <2>4 DEF Partial
  <2>6. d - 1 \in Nat /\ d - 1 <= n /\ <<d - 1, d>> \in Less
    BY <1>1, <2>4, <2>5 DEF OpToRel
  <2> HIDE DEF Less, n
  <2>7. sum[d - 1] = m[d - 1] BY <2>3, <2>6
  <2> USE DEF n
  <2>8. m[d] = m[d - 1] + s[d] BY <1>1, <2>4, <2>5 DEF Partial
  <2>9. sum[d] = sum[d - 1] + s[d] BY <1>1, <1>5, <2>4, <2>5
  <2> QED BY <2>4, <2>7, <2>8, <2>9
<1> QED BY <1>1, <1>4, <1>6

LEMMA TotalAppend ==
  ASSUME NEW s \in Seq(Nat), NEW a \in Nat
  PROVE  Total(s) \in Nat /\ Total(Append(s, a)) = Total(s) + a
<1> DEFINE t == Append(s, a)
           n == Len(s)
<1>1. n \in Nat /\ t \in Seq(Nat) /\ Len(t) = n + 1 OBVIOUS
<1>2. t[n + 1] = a /\ \A i \in 1..n : t[i] = s[i] OBVIOUS
<1>3. PICK m : Partial(m, t, n + 1) BY <1>1, SumsExist DEF HasSums
<1> HIDE DEF t
<1> DEFINE k == [i \in 0..n |-> m[i]]
<1>4. k \in [0..n -> Nat] /\ k[0] = 0 BY <1>1, <1>3 DEF Partial
<1>5. ASSUME NEW i \in 1..n PROVE k[i] = k[i - 1] + s[i]
  <2>1. m[i] = m[i - 1] + t[i] BY <1>1, <1>3 DEF Partial
  <2> QED BY <1>1, <1>2, <2>1
<1>6. k[n] = m[n] BY <1>1
<1> HIDE DEF k
<1>7. Partial(k, s, n) BY <1>4, <1>5 DEF Partial
<1>8. Total(s) = m[n] BY <1>6, <1>7, TotalSums
<1>9. Total(t) = m[n + 1] BY <1>1, <1>3, TotalSums
<1>10. m[n + 1] = m[n] + t[n + 1] BY <1>1, <1>3 DEF Partial
<1>11. m[n] \in Nat BY <1>1, <1>3 DEF Partial
<1> QED BY <1>2, <1>8, <1>9, <1>10, <1>11 DEF t

LEMMA TotalEmpty == Total(<<>>) = 0
<1>1. <<>> \in Seq(Nat) /\ Len(<<>>) = 0 OBVIOUS
<1>2. PICK m : Partial(m, <<>>, Len(<<>>)) BY <1>1, SumsExist DEF HasSums
<1>3. Total(<<>>) = m[Len(<<>>)] BY <1>1, <1>2, TotalSums
<1> QED BY <1>1, <1>2, <1>3 DEF Partial

-----------------------------------------------------------------------------
(* Sums of sequences of one length.                                        *)

Lengths(n) == [1..n -> Nat]

LEMMA LengthOf ==
  ASSUME NEW n \in Nat, NEW s \in Lengths(n)
  PROVE  s \in Seq(Nat) /\ Len(s) = n /\ Total(s) \in Nat
<1>1. s \in Seq(Nat) /\ Len(s) = n BY DEF Lengths
<1>2. 0 \in Nat OBVIOUS
<1> QED BY <1>1, <1>2, TotalAppend

LEMMA TotalAdds ==
  ASSUME NEW n \in Nat, NEW s \in Lengths(n), NEW t \in Lengths(n), NEW u \in Lengths(n),
         \A i \in 1..n : u[i] = s[i] + t[i]
  PROVE  Total(u) = Total(s) + Total(t)
<1>1. PICK p : Partial(p, s, n) BY LengthOf, SumsExist DEF HasSums
<1>2. PICK q : Partial(q, t, n) BY LengthOf, SumsExist DEF HasSums
<1> DEFINE k == [i \in 0..n |-> p[i] + q[i]]
<1>3. Partial(k, u, n)
  <2>1. p \in [0..n -> Nat] /\ q \in [0..n -> Nat] /\ p[0] = 0 /\ q[0] = 0
    BY <1>1, <1>2 DEF Partial
  <2>2. k \in [0..n -> Nat] /\ k[0] = 0 BY <2>1
  <2>3. ASSUME NEW i \in 1..n PROVE k[i] = k[i - 1] + u[i]
    <3>1. i \in 0..n /\ i - 1 \in 0..n OBVIOUS
    <3>2. p[i] = p[i - 1] + s[i] /\ q[i] = q[i - 1] + t[i] BY <1>1, <1>2 DEF Partial
    <3>3. p[i - 1] \in Nat /\ q[i - 1] \in Nat /\ s[i] \in Nat /\ t[i] \in Nat
      BY <2>1, <3>1 DEF Lengths
    <3>4. k[i] = p[i] + q[i] /\ k[i - 1] = p[i - 1] + q[i - 1] BY <3>1
    <3> HIDE DEF k
    <3> QED BY <3>2, <3>3, <3>4
  <2> HIDE DEF k
  <2> QED BY <2>2, <2>3 DEF Partial
<1>4. k[n] = p[n] + q[n] OBVIOUS
<1> HIDE DEF k
<1>5. Total(u) = k[n] BY <1>3, LengthOf, TotalSums
<1>6. Total(s) = p[n] /\ Total(t) = q[n] BY <1>1, <1>2, LengthOf, TotalSums
<1> QED BY <1>4, <1>5, <1>6

LEMMA TotalMonotone ==
  ASSUME NEW n \in Nat, NEW s \in Lengths(n), NEW u \in Lengths(n),
         \A i \in 1..n : s[i] <= u[i]
  PROVE  Total(s) <= Total(u)
<1> DEFINE t == [i \in 1..n |-> u[i] - s[i]]
<1>1. t \in Lengths(n) /\ \A i \in 1..n : u[i] = s[i] + t[i] BY DEF Lengths
<1> HIDE DEF t
<1>2. Total(u) = Total(s) + Total(t) BY <1>1, TotalAdds
<1> QED BY <1>1, <1>2, LengthOf

\* m times the length of a product is linear in it.
LEMMA TotalScaled ==
  ASSUME NEW n \in Nat, NEW s \in Lengths(n), NEW u \in Lengths(n), NEW m \in Nat,
         \A i \in 1..n : u[i] = m * s[i]
  PROVE  Total(u) = m * Total(s)
<1>1. PICK p : Partial(p, s, n) BY LengthOf, SumsExist DEF HasSums
<1> DEFINE k == [i \in 0..n |-> m * p[i]]
<1>2. Partial(k, u, n)
  <2>1. p \in [0..n -> Nat] /\ p[0] = 0 BY <1>1 DEF Partial
  <2>2. k \in [0..n -> Nat] /\ k[0] = 0 BY <2>1
  <2>3. ASSUME NEW i \in 1..n PROVE k[i] = k[i - 1] + u[i]
    <3>1. i \in 0..n /\ i - 1 \in 0..n OBVIOUS
    <3>2. p[i] = p[i - 1] + s[i] BY <1>1 DEF Partial
    <3>3. p[i - 1] \in Nat /\ s[i] \in Nat BY <2>1, <3>1 DEF Lengths
    <3>4. k[i] = m * p[i] /\ k[i - 1] = m * p[i - 1] /\ u[i] = m * s[i] BY <3>1
    <3>5. ASSUME NEW x \in Nat, NEW y \in Nat PROVE m * (x + y) = m * x + m * y OBVIOUS
    <3> HIDE DEF k
    <3> QED BY <3>2, <3>3, <3>4, <3>5
  <2> HIDE DEF k
  <2> QED BY <2>2, <2>3 DEF Partial
<1>3. k[n] = m * p[n] OBVIOUS
<1> HIDE DEF k
<1>4. Total(u) = k[n] /\ Total(s) = p[n] BY <1>1, <1>2, LengthOf, TotalSums
<1> QED BY <1>3, <1>4

\* One element may differ from zero.
LEMMA TotalOne ==
  ASSUME NEW n \in Nat, NEW s \in Lengths(n), NEW b \in 1..n,
         \A i \in 1..n : i # b => s[i] = 0
  PROVE  Total(s) = s[b]
<1> DEFINE k == [i \in 0..n |-> IF i < b THEN 0 ELSE s[b]]
<1>1. s[b] \in Nat BY DEF Lengths
<1>2. k \in [0..n -> Nat] /\ k[0] = 0 BY <1>1
<1>3. ASSUME NEW i \in 1..n PROVE k[i] = k[i - 1] + s[i]
  <2>1. CASE i < b BY <1>1, <2>1
  <2>2. CASE i = b BY <1>1, <2>2
  <2>3. CASE i > b BY <1>1, <2>3
  <2> QED BY <2>1, <2>2, <2>3
<1>4. k[n] = s[b] OBVIOUS
<1> HIDE DEF k
<1>5. Partial(k, s, n) BY <1>2, <1>3 DEF Partial
<1> QED BY <1>4, <1>5, LengthOf, TotalSums

\* A set of numbers up to n has as many as its places sum up to.
Member(S, n) == [i \in 1..n |-> IF i \in S THEN 1 ELSE 0]

LEMMA TotalCounts ==
  ASSUME NEW n \in Nat, NEW S, S \subseteq 1..n
  PROVE  /\ Member(S, n) \in Lengths(n) /\ Total(Member(S, n)) = Cardinality(S)
         /\ IsFiniteSet(S) /\ Cardinality(S) \in Nat
<1> DEFINE s == Member(S, n)
           k == [i \in 0..n |-> Cardinality(S \cap (1..i))]
<1>1. s \in Lengths(n) BY DEF Member, Lengths
<1>2. ASSUME NEW i \in 0..n
      PROVE  IsFiniteSet(S \cap (1..i)) /\ Cardinality(S \cap (1..i)) \in Nat
  <2>1. IsFiniteSet(1..i) BY FS_Interval
  <2>2. IsFiniteSet(S \cap (1..i)) BY <2>1, FS_Subset
  <2> QED BY <2>2, FS_CardinalityType
<1>3. k \in [0..n -> Nat] BY <1>2
<1>4. k[0] = 0
  <2>1. S \cap (1..0) = {} OBVIOUS
  <2> QED BY <2>1, FS_EmptySet
<1>5. ASSUME NEW i \in 1..n PROVE k[i] = k[i - 1] + s[i]
  <2> DEFINE T == S \cap (1..(i - 1))
             U == S \cap (1..i)
  <2>1. i \in 0..n /\ i - 1 \in 0..n /\ i \notin T OBVIOUS
  <2>2. IsFiniteSet(T) /\ Cardinality(T) \in Nat BY <1>2, <2>1
  <2>3. k[i] = Cardinality(U) /\ k[i - 1] = Cardinality(T) BY <2>1
  <2>4. CASE i \in S
    <3>1. U = T \cup {i} BY <2>4
    <3> HIDE DEF T, U
    <3>2. Cardinality(U) = Cardinality(T) + 1 BY <2>1, <2>2, <3>1, FS_AddElement
    <3>3. s[i] = 1 BY <2>4 DEF Member
    <3> HIDE DEF k, s
    <3> QED BY <2>3, <3>2, <3>3
  <2>5. CASE i \notin S
    <3>1. U = T
      <4>1. ASSUME NEW j \in U PROVE j \in T BY <2>5
      <4> QED BY <4>1
    <3>2. s[i] = 0 BY <2>5 DEF Member
    <3> HIDE DEF T, U, k, s
    <3> QED BY <2>2, <2>3, <3>1, <3>2
  <2> QED BY <2>4, <2>5
<1>6. S \cap (1..n) = S OBVIOUS
<1>7. k[n] = Cardinality(S) BY <1>6
<1>8. n \in 0..n OBVIOUS
<1>9. IsFiniteSet(S) /\ Cardinality(S) \in Nat BY <1>2, <1>6, <1>8
<1> HIDE DEF k, s
<1>10. Partial(k, s, n) BY <1>3, <1>4, <1>5 DEF Partial
<1>11. Total(s) = Cardinality(S) BY <1>1, <1>7, <1>10, LengthOf, TotalSums
<1> QED BY <1>1, <1>9, <1>11 DEF s

(***************************************************************************)
(* Part 4: Backflush.                                                      *)
(***************************************************************************)

(* The measurement: a cycle on its own.                                    *)

Measuring == {"PumpOn", "PumpOff"}
Ages == {<<>>} \cup {<<a>> : a \in Nat}
Cycles == [phase : Measuring \cup {"WaitingForPump", "Complete"}, index : Nat, elapsed : Nat,
           change : Ages, on : Seq(Nat), off : Seq(Nat)]

\* Where the cycle is in its list of periods.
InPlace(c) ==
  /\ c.index < CycleCount
  /\ c.phase = "PumpOff" => c.index + 1 < CycleCount
  /\ c.phase = "Complete" => c.index + 1 = CycleCount

\* A change is younger than the period it would end.
ChangePending(c) ==
  c.change # <<>> => c.phase \in Measuring /\ c.change[1] <= c.elapsed

Recorded(c) ==
  /\ Len(c.on) = IF c.phase \in {"PumpOff", "Complete"} THEN c.index + 1 ELSE c.index
  /\ Len(c.off) = c.index
  /\ c.phase = "WaitingForPump" => c.on = <<>> /\ c.off = <<>>

CycleOK(c) == c \in Cycles /\ InPlace(c) /\ ChangePending(c) /\ Recorded(c)

\* The time the periods of a cycle account for.
Accounted(c) == Total(c.on) + Total(c.off) + c.elapsed

\* How long the pump must be in the other state to end a period of this length.
Window(length) == IF length >= PhaseTarget THEN ConfirmLate ELSE ConfirmEarly

LEMMA AgeOfChange ==
  ASSUME NEW x \in Ages
  PROVE  /\ x # <<>> => x[1] \in Nat /\ x = <<x[1]>>
         /\ \A a \in Nat : <<a>> \in Ages /\ <<a>> # <<>> /\ <<a>>[1] = a
         /\ <<>> \in Ages
BY DEF Ages

LEMMA AccountedNat ==
  ASSUME NEW c \in Cycles
  PROVE  Total(c.on) \in Nat /\ Total(c.off) \in Nat /\ Accounted(c) \in Nat
<1>1. c.on \in Seq(Nat) /\ c.off \in Seq(Nat) /\ c.elapsed \in Nat BY DEF Cycles
<1>2. 0 \in Nat OBVIOUS
<1>3. Total(c.on) \in Nat /\ Total(c.off) \in Nat BY <1>1, <1>2, TotalAppend
<1> QED BY <1>1, <1>3 DEF Accounted

LEMMA NewCycleOK ==
  CycleOK(NewCycle) /\ NewCycle.phase = "WaitingForPump" /\ NewCycle.change = <<>>
<1>1. NewCycle \in Cycles
  <2>1. <<>> \in Ages BY DEF Ages
  <2>2. <<>> \in Seq(Nat) OBVIOUS
  <2> QED BY <2>1, <2>2 DEF NewCycle, Cycles
<1>2. InPlace(NewCycle) BY BackflushConstants DEF NewCycle, InPlace
<1>3. ChangePending(NewCycle) /\ Recorded(NewCycle)
  BY DEF NewCycle, ChangePending, Recorded
<1> QED BY <1>1, <1>2, <1>3 DEF CycleOK, NewCycle

LEMMA AgedOK ==
  ASSUME NEW c, CycleOK(c), NEW gap \in Nat
  PROVE  /\ CycleOK(Aged(c, gap))
         /\ Aged(c, gap).phase = c.phase
         /\ Aged(c, gap).change = <<>> <=> c.change = <<>>
         /\ c.change # <<>> => Aged(c, gap).change[1] = c.change[1] + gap
         /\ c.phase \in Measuring => Accounted(Aged(c, gap)) = Accounted(c) + gap
<1> DEFINE d == Aged(c, gap)
<1>1. c \in Cycles /\ InPlace(c) /\ ChangePending(c) /\ Recorded(c) BY DEF CycleOK
<1>2. c.elapsed \in Nat /\ c.change \in Ages BY <1>1 DEF Cycles
<1>3. /\ d.phase = c.phase /\ d.index = c.index /\ d.on = c.on /\ d.off = c.off
      /\ d.elapsed = IF c.phase \in Measuring THEN c.elapsed + gap ELSE c.elapsed
      /\ d.change = IF c.change = <<>> THEN c.change ELSE <<c.change[1] + gap>>
  BY <1>1 DEF Aged, Measuring, Cycles
<1>4. /\ d.change \in Ages /\ (d.change = <<>> <=> c.change = <<>>)
      /\ c.change # <<>> => d.change[1] = c.change[1] + gap
  <2>1. CASE c.change = <<>> BY <1>2, <1>3, <2>1
  <2>2. CASE c.change # <<>>
    <3>1. c.change[1] \in Nat BY <1>2, <2>2, AgeOfChange
    <3>2. c.change[1] + gap \in Nat BY <3>1
    <3> QED BY <1>2, <1>3, <2>2, <3>2, AgeOfChange
  <2> QED BY <2>1, <2>2
<1>5. d.elapsed \in Nat BY <1>2, <1>3
<1>6. d \in Cycles
  <2>1. d = [c EXCEPT !.elapsed = d.elapsed, !.change = d.change]
    BY <1>1, <1>3 DEF Aged, Cycles
  <2> HIDE DEF d
  <2> QED BY <1>1, <1>4, <1>5, <2>1 DEF Cycles
<1>7. InPlace(d) /\ Recorded(d) BY <1>1, <1>3 DEF InPlace, Recorded
<1>8. ChangePending(d)
  <2>1. SUFFICES ASSUME d.change # <<>> PROVE d.phase \in Measuring /\ d.change[1] <= d.elapsed
    BY DEF ChangePending
  <2>2. c.change[1] \in Nat BY <1>2, <1>4, <2>1, AgeOfChange
  <2>3. c.phase \in Measuring /\ c.change[1] <= c.elapsed BY <1>1, <1>4, <2>1 DEF ChangePending
  <2> HIDE DEF d
  <2> QED BY <1>2, <1>3, <1>4, <2>1, <2>2, <2>3
<1>9. ASSUME c.phase \in Measuring PROVE Accounted(d) = Accounted(c) + gap
  <2>1. Total(c.on) \in Nat /\ Total(c.off) \in Nat BY <1>1, AccountedNat
  <2> HIDE DEF d
  <2> QED BY <1>2, <1>3, <1>9, <2>1 DEF Accounted
<1> HIDE DEF d
<1>10. CycleOK(d) BY <1>6, <1>7, <1>8 DEF CycleOK
<1> QED BY <1>3, <1>4, <1>9, <1>10 DEF d

\* For how long the pump has been seen in the other state.
Seen(c) == IF c.change = <<>> THEN 0 ELSE c.change[1]

\* The period that ended between c and d.
Ended(c, d) == IF c.phase = "PumpOn" THEN d.on[Len(d.on)] ELSE d.off[Len(d.off)]

LEMMA RememberedOK ==
  ASSUME NEW c, CycleOK(c), c.phase \in Measuring
  PROVE  /\ CycleOK(Remembered(c))
         /\ Remembered(c).change # <<>> /\ Remembered(c).change[1] = Seen(c) /\ Seen(c) \in Nat
         /\ Seen(c) <= c.elapsed
         /\ Remembered(c).phase = c.phase /\ Remembered(c).index = c.index
         /\ Remembered(c).elapsed = c.elapsed
         /\ Remembered(c).on = c.on /\ Remembered(c).off = c.off
<1>1. c \in Cycles /\ InPlace(c) /\ ChangePending(c) /\ Recorded(c) BY DEF CycleOK
<1>2. c.elapsed \in Nat /\ c.change \in Ages BY <1>1 DEF Cycles
<1>3. CASE c.change = <<>>
  <2> DEFINE r == [c EXCEPT !.change = <<0>>]
  <2>1. Remembered(c) = r /\ Seen(c) = 0 BY <1>3 DEF Remembered, Seen
  <2>2. <<0>> \in Ages /\ <<0>> # <<>> /\ <<0>>[1] = 0 BY <1>2, AgeOfChange
  <2>3. /\ r \in Cycles /\ r.change = <<0>> /\ r.phase = c.phase /\ r.index = c.index
        /\ r.elapsed = c.elapsed /\ r.on = c.on /\ r.off = c.off
    BY <1>1, <2>2 DEF Cycles
  <2> HIDE DEF r
  <2>4. InPlace(r) /\ Recorded(r) BY <1>1, <2>3 DEF InPlace, Recorded
  <2>5. ChangePending(r) BY <1>2, <2>2, <2>3 DEF ChangePending
  <2> QED BY <1>2, <2>1, <2>2, <2>3, <2>4, <2>5 DEF CycleOK
<1>4. CASE c.change # <<>>
  <2>1. Remembered(c) = c /\ Seen(c) = c.change[1] BY <1>4 DEF Remembered, Seen
  <2>2. c.change[1] \in Nat BY <1>2, <1>4, AgeOfChange
  <2> QED BY <1>1, <1>4, <2>1, <2>2 DEF ChangePending
<1> QED BY <1>3, <1>4

\* What a confirmed change makes of a cycle: its period is recorded, the next
\* one began when the change was first seen.
MovesOn(c, d) ==
  /\ d.change = <<>> /\ d.elapsed = Seen(c)
  /\ \/ /\ c.phase = "PumpOn" /\ c.index + 1 # CycleCount /\ d.phase = "PumpOff"
        /\ d.index = c.index /\ d.off = c.off /\ d.on = Append(c.on, c.elapsed - Seen(c))
     \/ /\ c.phase = "PumpOn" /\ c.index + 1 = CycleCount /\ d.phase = "Complete"
        /\ d.index = c.index /\ d.off = c.off /\ d.on = Append(c.on, c.elapsed - Seen(c))
     \/ /\ c.phase = "PumpOff" /\ d.phase = "PumpOn"
        /\ d.index = c.index + 1 /\ d.on = c.on /\ d.off = Append(c.off, c.elapsed - Seen(c))

LEMMA ChangedMoves ==
  ASSUME NEW c, CycleOK(c), c.phase \in Measuring
  PROVE  \/ Changed(c) = Remembered(c)
         \/ /\ MovesOn(c, Changed(c)) /\ Changed(c) \in Cycles
            /\ Seen(c) >= Window(c.elapsed - Seen(c))
<1> DEFINE r == Remembered(c)
           length == c.elapsed - Seen(c)
<1>1. /\ CycleOK(r) /\ r.change # <<>> /\ r.change[1] = Seen(c) /\ Seen(c) \in Nat
      /\ Seen(c) <= c.elapsed
      /\ r.phase = c.phase /\ r.index = c.index /\ r.elapsed = c.elapsed
      /\ r.on = c.on /\ r.off = c.off
  BY RememberedOK
<1>2. r \in Cycles /\ c \in Cycles BY <1>1 DEF CycleOK
<1>3. length \in Nat
  <2>1. c.elapsed \in Nat BY <1>2 DEF Cycles
  <2> QED BY <1>1, <2>1
<1>4. Changed(c) =
        CASE ~ShouldApplyPumpChange(r) -> r
          [] ShouldApplyPumpChange(r) /\ r.phase = "PumpOff" ->
               BeginPhase([r EXCEPT !.off = Append(@, length), !.index = @ + 1], "PumpOn",
                          Seen(c))
          [] ShouldApplyPumpChange(r) /\ r.phase = "PumpOn" ->
               BeginPhase([r EXCEPT !.on = Append(@, length)],
                          IF LastCycle(r) THEN "Complete" ELSE "PumpOff", Seen(c))
  BY <1>1 DEF Changed
<1>5. r.index \in Nat /\ r.on \in Seq(Nat) /\ r.off \in Seq(Nat) BY <1>2 DEF Cycles
<1>6. <<>> \in Ages BY DEF Ages
<1> HIDE DEF r, length
<1>7. CASE ~ShouldApplyPumpChange(r) BY <1>4, <1>7 DEF r
<1>8. ASSUME ShouldApplyPumpChange(r) PROVE Seen(c) >= Window(length)
  BY <1>1, <1>8 DEF ShouldApplyPumpChange, Window, length
<1>9. CASE ShouldApplyPumpChange(r) /\ c.phase = "PumpOff"
  <2> DEFINE d == [r EXCEPT !.off = Append(@, length), !.index = @ + 1,
                            !.phase = "PumpOn", !.elapsed = Seen(c), !.change = <<>>]
  <2>1. Changed(c) = d BY <1>1, <1>2, <1>4, <1>9 DEF BeginPhase, Cycles
  <2>2. Append(r.off, length) \in Seq(Nat) /\ r.index + 1 \in Nat BY <1>3, <1>5
  <2>3. d \in Cycles BY <1>1, <1>2, <1>6, <2>2 DEF Cycles, Measuring
  <2>4. /\ d.change = <<>> /\ d.elapsed = Seen(c) /\ d.phase = "PumpOn"
        /\ d.index = r.index + 1 /\ d.on = r.on /\ d.off = Append(r.off, length)
    BY <1>2 DEF Cycles
  <2> HIDE DEF d
  <2>5. MovesOn(c, d) BY <1>1, <1>9, <2>4 DEF MovesOn, length
  <2> QED BY <1>8, <1>9, <2>1, <2>3, <2>5 DEF length
<1>10. CASE ShouldApplyPumpChange(r) /\ c.phase = "PumpOn"
  <2> DEFINE next == IF LastCycle(r) THEN "Complete" ELSE "PumpOff"
             d == [r EXCEPT !.on = Append(@, length),
                            !.phase = next, !.elapsed = Seen(c), !.change = <<>>]
  <2>1. Changed(c) = d BY <1>1, <1>2, <1>4, <1>10 DEF BeginPhase, Cycles
  <2>2. Append(r.on, length) \in Seq(Nat) BY <1>3, <1>5
  <2>3. d \in Cycles BY <1>1, <1>2, <1>6, <2>2 DEF Cycles, Measuring
  <2>4. /\ d.change = <<>> /\ d.elapsed = Seen(c) /\ d.phase = next
        /\ d.index = r.index /\ d.off = r.off /\ d.on = Append(r.on, length)
    BY <1>2 DEF Cycles
  <2> HIDE DEF d
  <2>5. MovesOn(c, d) BY <1>1, <1>10, <2>4 DEF MovesOn, length, LastCycle
  <2> QED BY <1>8, <1>10, <2>1, <2>3, <2>5 DEF length
<1> QED BY <1>7, <1>9, <1>10 DEF Measuring

LEMMA MovedOnOK ==
  ASSUME NEW c, CycleOK(c), c.phase \in Measuring, NEW d \in Cycles, MovesOn(c, d)
  PROVE  /\ CycleOK(d) /\ Accounted(d) = Accounted(c)
         /\ d.phase # c.phase /\ d.phase # "WaitingForPump"
         /\ Ended(c, d) = c.elapsed - Seen(c) /\ Ended(c, d) \in Nat
<1> DEFINE length == c.elapsed - Seen(c)
<1>1. c \in Cycles /\ InPlace(c) /\ Recorded(c) BY DEF CycleOK
<1>2. Seen(c) \in Nat /\ Seen(c) <= c.elapsed BY RememberedOK
<1>3. c.elapsed \in Nat /\ c.index \in Nat /\ c.on \in Seq(Nat) /\ c.off \in Seq(Nat)
  BY <1>1 DEF Cycles
<1>4. length \in Nat BY <1>2, <1>3
<1>5. /\ Total(c.on) \in Nat /\ Total(Append(c.on, length)) = Total(c.on) + length
      /\ Total(c.off) \in Nat /\ Total(Append(c.off, length)) = Total(c.off) + length
  BY <1>3, <1>4, TotalAppend
<1>6. /\ Len(Append(c.on, length)) = Len(c.on) + 1 /\ Len(c.on) \in Nat
      /\ Append(c.on, length)[Len(c.on) + 1] = length
      /\ Len(Append(c.off, length)) = Len(c.off) + 1 /\ Len(c.off) \in Nat
      /\ Append(c.off, length)[Len(c.off) + 1] = length
  BY <1>3
<1>7. Accounted(d) = Accounted(c)
  <2>1. d.elapsed = Seen(c) BY DEF MovesOn
  <2>2. \/ d.on = Append(c.on, length) /\ d.off = c.off
        \/ d.off = Append(c.off, length) /\ d.on = c.on
    BY DEF MovesOn
  <2>3. Total(d.on) + Total(d.off) = Total(c.on) + Total(c.off) + length
    <3> HIDE DEF length
    <3>1. CASE d.on = Append(c.on, length) /\ d.off = c.off BY <1>4, <1>5, <3>1
    <3>2. CASE d.off = Append(c.off, length) /\ d.on = c.on BY <1>4, <1>5, <3>2
    <3> QED BY <2>2, <3>1, <3>2
  <2> QED BY <1>2, <1>3, <1>5, <2>1, <2>3 DEF Accounted
<1>8. Ended(c, d) = length BY <1>6 DEF MovesOn, Ended
<1>9. InPlace(d)
  <2>1. CycleCount \in Nat BY BackflushConstants
  <2> QED BY <1>1, <1>3, <2>1 DEF MovesOn, InPlace
<1>10. Recorded(d) BY <1>1, <1>3, <1>6 DEF MovesOn, Recorded
<1>11. ChangePending(d) BY DEF MovesOn, ChangePending
<1>12. d.phase # c.phase /\ d.phase # "WaitingForPump" BY DEF MovesOn
<1> QED BY <1>4, <1>7, <1>8, <1>9, <1>10, <1>11, <1>12 DEF CycleOK

\* Any update of the detector's state.
LEMMA UpdateOK ==
  ASSUME NEW c, CycleOK(c), NEW pump \in BOOLEAN
  PROVE  /\ CycleOK(Update(c, pump))
         /\ c.phase \in Measuring => Accounted(Update(c, pump)) = Accounted(c)
         /\ c.phase = "WaitingForPump" /\ Update(c, pump).phase \in Measuring =>
              Accounted(Update(c, pump)) = 0
         /\ c.phase \in Measuring /\ Update(c, pump).phase # c.phase =>
              /\ (c.phase = "PumpOff") = pump
              /\ Ended(c, Update(c, pump)) \in Nat
              /\ Seen(c) >= Window(Ended(c, Update(c, pump)))
         /\ Update(c, pump).change # <<>> =>
              /\ (c.phase = "PumpOff") = pump /\ Update(c, pump).phase = c.phase
              /\ Update(c, pump).change[1] = Seen(c)
<1> DEFINE d == Update(c, pump)
<1>1. c \in Cycles /\ InPlace(c) /\ ChangePending(c) /\ Recorded(c) BY DEF CycleOK
<1>2. <<>> \in Ages BY DEF Ages
<1>3. CASE c.phase = "WaitingForPump"
  <2>1. CASE pump
    <3> DEFINE b == [c EXCEPT !.phase = "PumpOn", !.elapsed = 0, !.change = <<>>]
    <3>1. d = b BY <1>1, <1>3, <2>1 DEF Update, BeginPhase, Cycles
    <3>2. PICK zero \in Nat : zero = 0 OBVIOUS
    <3>3. b = [c EXCEPT !.phase = "PumpOn", !.elapsed = zero, !.change = <<>>] BY <3>2
    <3>4. /\ b \in Cycles /\ b.phase = "PumpOn" /\ b.elapsed = zero /\ b.change = <<>>
          /\ b.index = c.index /\ b.on = c.on /\ b.off = c.off
      <4> HIDE <3>2
      <4> QED BY <1>1, <1>2, <3>3 DEF Cycles, Measuring
    <3> HIDE DEF b
    <3>5. InPlace(b) /\ ChangePending(b) /\ Recorded(b)
      BY <1>1, <1>3, <3>4 DEF InPlace, ChangePending, Recorded
    <3>6. Accounted(b) = 0
      <4>1. c.on = <<>> /\ c.off = <<>> BY <1>1, <1>3 DEF Recorded
      <4> QED BY <3>2, <3>4, <4>1, TotalEmpty DEF Accounted
    <3> HIDE DEF d
    <3>7. CycleOK(d) /\ Accounted(d) = 0 /\ d.change = <<>>
      BY <3>1, <3>4, <3>5, <3>6 DEF CycleOK
    <3> QED BY <1>3, <3>7 DEF d, Measuring
  <2>2. CASE ~pump
    <3>1. d = c BY <1>3, <2>2 DEF Update
    <3>2. c.change = <<>> BY <1>1, <1>3 DEF ChangePending, Measuring
    <3> QED BY <1>3, <3>1, <3>2 DEF Measuring
  <2> QED BY <2>1, <2>2
<1>4. CASE c.phase = "Complete"
  <2>1. d = c BY <1>4 DEF Update
  <2>2. c.change = <<>> BY <1>1, <1>4 DEF ChangePending, Measuring
  <2> QED BY <1>4, <2>1, <2>2 DEF Measuring
<1>5. CASE c.phase \in Measuring /\ pump # (c.phase = "PumpOff")
  <2>1. d = Steady(c) BY <1>5 DEF Update, Measuring
  <2> DEFINE b == [c EXCEPT !.change = <<>>]
  <2>2. /\ b \in Cycles /\ b.phase = c.phase /\ b.elapsed = c.elapsed /\ b.change = <<>>
        /\ b.index = c.index /\ b.on = c.on /\ b.off = c.off
    BY <1>1, <1>2 DEF Cycles
  <2>3. d = b BY <2>1 DEF Steady
  <2> HIDE DEF b
  <2>4. InPlace(b) /\ ChangePending(b) /\ Recorded(b)
    BY <1>1, <2>2 DEF InPlace, ChangePending, Recorded
  <2>5. Accounted(b) = Accounted(c) BY <2>2 DEF Accounted
  <2> HIDE DEF d
  <2>6. CycleOK(d) /\ Accounted(d) = Accounted(c) /\ d.change = <<>> /\ d.phase = c.phase
    BY <2>2, <2>3, <2>4, <2>5 DEF CycleOK
  <2> QED BY <1>5, <2>6 DEF d, Measuring
<1>6. CASE c.phase \in Measuring /\ pump = (c.phase = "PumpOff")
  <2>1. d = Changed(c) BY <1>6 DEF Update, Measuring
  <2> HIDE DEF d
  <2>2. CASE d = Remembered(c)
    <3>1. CycleOK(d) /\ d.phase = c.phase /\ d.change[1] = Seen(c)
          /\ d.elapsed = c.elapsed /\ d.on = c.on /\ d.off = c.off
      BY <1>6, <2>2, RememberedOK
    <3>2. Accounted(d) = Accounted(c) BY <3>1 DEF Accounted
    <3> QED BY <1>6, <3>1, <3>2 DEF d, Measuring
  <2>3. CASE MovesOn(c, d) /\ d \in Cycles /\ Seen(c) >= Window(c.elapsed - Seen(c))
    <3>1. /\ CycleOK(d) /\ Accounted(d) = Accounted(c)
          /\ Ended(c, d) = c.elapsed - Seen(c) /\ Ended(c, d) \in Nat
      BY <1>6, <2>3, MovedOnOK
    <3>2. d.change = <<>> BY <2>3 DEF MovesOn
    <3> QED BY <1>6, <2>3, <3>1, <3>2 DEF d, Measuring
  <2> QED BY <1>6, <2>1, <2>2, <2>3, ChangedMoves
<1>7. c.phase \in Measuring \cup {"WaitingForPump", "Complete"} BY <1>1 DEF Cycles
<1> QED BY <1>3, <1>4, <1>5, <1>6, <1>7

-----------------------------------------------------------------------------
(* The routine: the cycle with the time that was watched.                  *)

Watches == [since : Nat, steady : Nat, last : {<<>>} \cup (Nat \X Nat)]

\* The cycle waits until a frame came, and no session outlives it.
SessionOfCycle ==
  /\ ~framed => cycle.phase = "WaitingForPump"
  /\ running => cycle.phase # "Complete"

\* A pending change is the state the sensor reports, for at least as long.
PendingOfPump ==
  running /\ cycle.change # <<>> =>
    /\ detected = (cycle.phase = "PumpOff")
    /\ Bounded(cycle.change[1], ConfirmEarly) <= watch.steady

TimeAccounted == cycle.phase \in Measuring => Accounted(cycle) = watch.since
WindowKept == watch.last # <<>> => watch.last[2] >= Window(watch.last[1])

BackflushInv ==
  /\ CycleOK(cycle) /\ watch \in Watches
  /\ running \in BOOLEAN /\ detected \in BOOLEAN /\ framed \in BOOLEAN
  /\ SessionOfCycle /\ PendingOfPump /\ TimeAccounted /\ WindowKept

\* The cycle after a tick, with a state of the pump to update it from or not.
After(gap, has, on) ==
  IF has THEN Update(Aged(cycle, gap), on) ELSE Aged(cycle, gap)
WatchedAfter(gap, has, on) == Watched(Aged(cycle, gap), After(gap, has, on), gap, on)

LEMMA BoundedGrows ==
  ASSUME NEW a \in Nat, NEW b \in Nat, NEW gap \in Nat, Bounded(a, ConfirmEarly) <= b
  PROVE  Bounded(a + gap, ConfirmEarly) <= Bounded(b + gap, ConfirmEarly)
<1>1. ConfirmEarly \in Nat BY BackflushConstants
<1> QED BY <1>1 DEF Bounded

LEMMA WindowBounded ==
  ASSUME NEW length \in Nat, NEW a \in Nat, NEW b \in Nat,
         a >= Window(length), Bounded(a, ConfirmEarly) <= b
  PROVE  b >= Window(length)
<1>1. ConfirmEarly \in Nat /\ ConfirmLate \in Nat /\ ConfirmLate <= ConfirmEarly
  BY BackflushConstants
<1>2. Window(length) \in Nat /\ Window(length) <= ConfirmEarly BY <1>1 DEF Window
<1> HIDE DEF Window
<1> QED BY <1>1, <1>2 DEF Bounded

\* What was watched of the sensor's state is at least what the cycle has seen.
LEMMA SeenWatched ==
  ASSUME BackflushInv, running, NEW gap \in Nat, NEW on \in BOOLEAN, NEW has \in BOOLEAN,
         cycle.phase \in Measuring, on = (cycle.phase = "PumpOff")
  PROVE  Bounded(Seen(Aged(cycle, gap)), ConfirmEarly) <= WatchedAfter(gap, has, on).steady
<1> DEFINE c == Aged(cycle, gap)
           steady == IF on = detected THEN watch.steady + gap ELSE 0
<1>1. ConfirmEarly \in Nat BY BackflushConstants
<1>2. watch.steady \in Nat BY DEF BackflushInv, Watches
<1>3. WatchedAfter(gap, has, on).steady = Bounded(steady, ConfirmEarly)
  BY DEF WatchedAfter, Watched
<1>4. /\ c.change = <<>> <=> cycle.change = <<>>
      /\ cycle.change # <<>> => c.change[1] = cycle.change[1] + gap
  BY AgedOK DEF BackflushInv
<1> HIDE DEF c
<1>5. CASE cycle.change = <<>>
  <2>1. Seen(c) = 0 BY <1>4, <1>5 DEF Seen
  <2>2. steady \in Nat BY <1>2
  <2> HIDE DEF steady
  <2> QED BY <1>1, <1>3, <2>1, <2>2 DEF Bounded, c
<1>6. CASE cycle.change # <<>>
  <2>1. detected = on /\ Bounded(cycle.change[1], ConfirmEarly) <= watch.steady
    BY <1>6 DEF BackflushInv, PendingOfPump
  <2>2. cycle.change[1] \in Nat
    <3>1. cycle.change \in Ages BY DEF BackflushInv, CycleOK, Cycles
    <3> QED BY <1>6, <3>1, AgeOfChange
  <2>3. Seen(c) = cycle.change[1] + gap BY <1>4, <1>6 DEF Seen
  <2>4. steady = watch.steady + gap BY <2>1
  <2> HIDE DEF steady
  <2>5. Bounded(cycle.change[1] + gap, ConfirmEarly) <= Bounded(watch.steady + gap, ConfirmEarly)
    BY <1>2, <2>1, <2>2, BoundedGrows
  <2> QED BY <1>3, <2>3, <2>4, <2>5 DEF c
<1> QED BY <1>5, <1>6

LEMMA TickWatched ==
  ASSUME BackflushInv, running, NEW gap \in Nat, NEW on \in BOOLEAN, NEW has \in BOOLEAN
  PROVE  /\ CycleOK(After(gap, has, on)) /\ WatchedAfter(gap, has, on) \in Watches
         /\ ~has => After(gap, has, on).phase = cycle.phase
         /\ After(gap, has, on).phase \in Measuring =>
              Accounted(After(gap, has, on)) = WatchedAfter(gap, has, on).since
         /\ WatchedAfter(gap, has, on).last # <<>> =>
              WatchedAfter(gap, has, on).last[2] >= Window(WatchedAfter(gap, has, on).last[1])
         /\ has /\ After(gap, has, on).change # <<>> =>
              /\ on = (After(gap, has, on).phase = "PumpOff")
              /\ Bounded(After(gap, has, on).change[1], ConfirmEarly)
                   <= WatchedAfter(gap, has, on).steady
<1> DEFINE c == Aged(cycle, gap)
           d == After(gap, has, on)
           w == WatchedAfter(gap, has, on)
           steady == IF on = detected THEN watch.steady + gap ELSE 0
<1>1. CycleOK(cycle) /\ watch \in Watches BY DEF BackflushInv
<1>2. /\ CycleOK(c) /\ c.phase = cycle.phase /\ (c.change = <<>> <=> cycle.change = <<>>)
      /\ c.phase \in Measuring => Accounted(c) = Accounted(cycle) + gap
  BY <1>1, AgedOK
<1>3. d = IF has THEN Update(c, on) ELSE c BY DEF After
<1>4. /\ w.since = IF c.phase = "WaitingForPump" THEN 0
                   ELSE IF c.phase = "Complete" THEN watch.since ELSE watch.since + gap
      /\ w.steady = Bounded(steady, ConfirmEarly)
      /\ w.last = IF c.phase \in Measuring /\ c.phase # d.phase
                  THEN <<Ended(c, d), Bounded(steady, ConfirmEarly)>> ELSE watch.last
      /\ w = [since |-> w.since, steady |-> w.steady, last |-> w.last]
  BY DEF WatchedAfter, Watched, MovedOn, Ended, Measuring
<1>5. /\ CycleOK(d)
      /\ c.phase \in Measuring => Accounted(d) = Accounted(c)
      /\ c.phase = "WaitingForPump" /\ d.phase \in Measuring => Accounted(d) = 0
      /\ c.phase \in Measuring /\ d.phase # c.phase =>
           /\ (c.phase = "PumpOff") = on /\ Ended(c, d) \in Nat
           /\ Seen(c) >= Window(Ended(c, d))
      /\ has /\ d.change # <<>> =>
           /\ (c.phase = "PumpOff") = on /\ d.phase = c.phase /\ d.change[1] = Seen(c)
  <2>1. CASE has
    <3>1. d = Update(c, on) BY <1>3, <2>1
    <3> HIDE DEF c, d
    <3> QED BY <1>2, <2>1, <3>1, UpdateOK
  <2>2. CASE ~has
    <3>1. d = c BY <1>3, <2>2
    <3> HIDE DEF c, d
    <3> QED BY <1>2, <2>2, <3>1 DEF Measuring
  <2> QED BY <2>1, <2>2
<1>6. d.phase \in Measuring => c.phase # "Complete"
  BY <1>2 DEF BackflushInv, SessionOfCycle
<1>7. c.phase \in Measuring /\ on = (c.phase = "PumpOff") =>
        Bounded(Seen(c), ConfirmEarly) <= w.steady
  BY <1>2, SeenWatched
<1>8. ~has => d.phase = cycle.phase BY <1>2, <1>3
<1>9. c.phase \in Measuring => c.phase = cycle.phase /\ Accounted(cycle) = watch.since
  BY <1>2 DEF BackflushInv, TimeAccounted
<1>10. /\ c.phase \in Measuring \cup {"WaitingForPump", "Complete"}
       /\ d.change # <<>> => d.phase \in Measuring
       /\ c.phase \in Measuring => Seen(c) \in Nat
  BY <1>2, <1>5, RememberedOK DEF CycleOK, Cycles, ChangePending
<1>11. w \in Watches
  <2>1. watch.since \in Nat /\ watch.steady \in Nat /\ watch.last \in {<<>>} \cup (Nat \X Nat)
    BY <1>1 DEF Watches
  <2>2. Bounded(steady, ConfirmEarly) \in Nat
    <3>1. steady \in Nat /\ ConfirmEarly \in Nat BY <2>1, BackflushConstants
    <3> HIDE DEF steady
    <3> QED BY <3>1 DEF Bounded
  <2> HIDE DEF steady, w, c, d
  <2>3. w.since \in Nat /\ w.steady \in Nat BY <1>4, <2>1, <2>2
  <2>4. w.last \in {<<>>} \cup (Nat \X Nat) BY <1>4, <1>5, <2>1, <2>2
  <2> QED BY <1>4, <2>3, <2>4 DEF Watches
<1> HIDE DEF c, d, w
<1>12. ASSUME d.phase \in Measuring PROVE Accounted(d) = w.since
  <2>1. CASE c.phase = "WaitingForPump" BY <1>4, <1>5, <1>12, <2>1
  <2>2. CASE c.phase \in Measuring BY <1>2, <1>4, <1>5, <1>9, <2>2 DEF Measuring
  <2> QED BY <1>6, <1>10, <1>12, <2>1, <2>2
<1>13. ASSUME w.last # <<>> PROVE w.last[2] >= Window(w.last[1])
  <2>1. CASE c.phase \in Measuring /\ c.phase # d.phase
    <3>1. w.last[1] = Ended(c, d) /\ w.last[2] = w.steady BY <1>4, <2>1
    <3>2. w.steady \in Nat BY <1>11 DEF Watches
    <3> QED BY <1>5, <1>7, <1>10, <2>1, <3>1, <3>2, WindowBounded
  <2>2. CASE ~(c.phase \in Measuring /\ c.phase # d.phase)
    BY <1>4, <1>13, <2>2 DEF BackflushInv, WindowKept
  <2> QED BY <2>1, <2>2
<1>14. ASSUME has, d.change # <<>>
       PROVE  on = (d.phase = "PumpOff") /\ Bounded(d.change[1], ConfirmEarly) <= w.steady
  BY <1>5, <1>7, <1>10, <1>14
<1> QED BY <1>5, <1>8, <1>11, <1>12, <1>13, <1>14 DEF d, w

LEMMA NewSession ==
  ASSUME cycle' = NewCycle, watch' = NoWatch, running' \in BOOLEAN, detected' = FALSE,
         framed' = FALSE
  PROVE  BackflushInv'
<1>1. /\ CycleOK(NewCycle) /\ NewCycle.phase = "WaitingForPump" /\ NewCycle.change = <<>>
  BY NewCycleOK
<1>2. NoWatch \in Watches /\ NoWatch.last = <<>> BY DEF NoWatch, Watches
<1>3. (SessionOfCycle /\ PendingOfPump /\ TimeAccounted /\ WindowKept)'
  BY <1>1, <1>2 DEF SessionOfCycle, PendingOfPump, TimeAccounted, WindowKept, Measuring
<1> QED BY <1>1, <1>2, <1>3 DEF BackflushInv

LEMMA BackflushInvInit == BackflushInit => BackflushInv
<1> SUFFICES ASSUME BackflushInit PROVE BackflushInv OBVIOUS
<1>1. /\ CycleOK(NewCycle) /\ NewCycle.phase = "WaitingForPump" /\ NewCycle.change = <<>>
  BY NewCycleOK
<1>2. NoWatch \in Watches /\ NoWatch.last = <<>> BY DEF NoWatch, Watches
<1>3. cycle = NewCycle /\ watch = NoWatch /\ running = FALSE /\ detected = FALSE /\ framed = FALSE
  BY DEF BackflushInit
<1>4. SessionOfCycle /\ PendingOfPump /\ TimeAccounted /\ WindowKept
  BY <1>1, <1>2, <1>3 DEF SessionOfCycle, PendingOfPump, TimeAccounted, WindowKept, Measuring
<1> QED BY <1>1, <1>2, <1>3, <1>4 DEF BackflushInv

LEMMA BackflushInvTick ==
  ASSUME BackflushInv, NEW gap \in 1..MaxTickGap, NEW fresh \in BOOLEAN, NEW on \in BOOLEAN,
         Tick(gap, fresh, on)
  PROVE  BackflushInv'
<1>1. gap \in Nat /\ running BY BackflushConstants DEF Tick
<1>2. framed \in BOOLEAN /\ detected' = on BY DEF Tick, BackflushInv
<1> DEFINE has == framed \/ fresh
\* The session ends: the cycle is as old as it got, the new frame is not used.
<1>3. ASSUME cycle' = Aged(cycle, gap), running' = FALSE, framed' \in {framed, has},
             watch' = Watched(Aged(cycle, gap), Aged(cycle, gap), gap, on)
      PROVE  BackflushInv'
  <2>1. cycle' = After(gap, FALSE, on) /\ watch' = WatchedAfter(gap, FALSE, on)
    BY <1>3 DEF After, WatchedAfter
  <2>2. /\ CycleOK(cycle') /\ watch' \in Watches /\ cycle'.phase = cycle.phase
        /\ cycle'.phase \in Measuring => Accounted(cycle') = watch'.since
        /\ watch'.last # <<>> => watch'.last[2] >= Window(watch'.last[1])
    BY <1>1, <2>1, TickWatched
  <2>3. ~framed' => cycle'.phase = "WaitingForPump"
    BY <1>2, <1>3, <2>2 DEF BackflushInv, SessionOfCycle
  <2>4. (SessionOfCycle /\ PendingOfPump /\ TimeAccounted /\ WindowKept)'
    BY <1>3, <2>2, <2>3 DEF SessionOfCycle, PendingOfPump, TimeAccounted, WindowKept
  <2>5. framed' \in BOOLEAN BY <1>2, <1>3
  <2> QED BY <1>2, <1>3, <2>2, <2>4, <2>5 DEF BackflushInv
\* The session goes on, or the cycle is complete.
<1>4. ASSUME cycle' = After(gap, has, on), running' = (cycle'.phase # "Complete"),
             framed' = has, watch' = WatchedAfter(gap, has, on)
      PROVE  BackflushInv'
  <2>1. has \in BOOLEAN BY <1>2
  <2>2. /\ CycleOK(cycle') /\ watch' \in Watches
        /\ ~has => cycle'.phase = cycle.phase
        /\ cycle'.phase \in Measuring => Accounted(cycle') = watch'.since
        /\ watch'.last # <<>> => watch'.last[2] >= Window(watch'.last[1])
        /\ has /\ cycle'.change # <<>> =>
             /\ on = (cycle'.phase = "PumpOff")
             /\ Bounded(cycle'.change[1], ConfirmEarly) <= watch'.steady
    <3> HIDE DEF has
    <3> QED BY <1>1, <1>4, <2>1, TickWatched
  <2>3. ~framed' => cycle'.phase = "WaitingForPump"
    BY <1>2, <1>4, <2>2 DEF BackflushInv, SessionOfCycle
  <2>4. SessionOfCycle' BY <1>4, <2>3 DEF SessionOfCycle
  <2>5. PendingOfPump'
    <3>1. cycle'.change # <<>> => cycle'.phase \in Measuring
      BY <2>2 DEF CycleOK, ChangePending
    <3>2. cycle'.change # <<>> => has BY <1>4, <2>3, <3>1 DEF Measuring
    <3> HIDE DEF has
    <3> QED BY <1>2, <2>2, <3>2 DEF PendingOfPump
  <2>6. (TimeAccounted /\ WindowKept)' BY <2>2 DEF TimeAccounted, WindowKept
  <2> QED BY <1>2, <1>4, <2>1, <2>2, <2>4, <2>5, <2>6 DEF BackflushInv
<1> QED BY <1>3, <1>4 DEF Tick, EndSession, After, WatchedAfter

LEMMA BackflushInvStep == BackflushInv /\ [BackflushNext]_backflushVars => BackflushInv'
<1> SUFFICES ASSUME BackflushInv, [BackflushNext]_backflushVars PROVE BackflushInv' OBVIOUS
<1>1. CASE StartSession BY <1>1, NewSession DEF StartSession
<1>2. CASE SessionTick BY <1>2, BackflushInvTick DEF SessionTick
<1>3. CASE UNCHANGED <<cycle, running, detected, framed, watch>>
  BY <1>3 DEF BackflushInv, SessionOfCycle, PendingOfPump, TimeAccounted, WindowKept
<1>4. CASE SummaryTick BY <1>3, <1>4 DEF SummaryTick, TickEnded
<1>5. CASE UNCHANGED backflushVars BY <1>3, <1>5 DEF backflushVars
<1> QED BY <1>1, <1>2, <1>4, <1>5 DEF BackflushNext, HoldA, TapA, OnEnter

\* The periods the display numbers are the ones that are recorded.
LEMMA RecordedCounted ==
  ASSUME NEW c, CycleOK(c)
  PROVE  /\ Len(c.on) = Cardinality({i \in 0..CycleCount : OnRecorded(c, i)})
         /\ Len(c.off) = Cardinality({i \in 0..CycleCount : OffRecorded(c, i)})
<1>1. c.index \in Nat /\ InPlace(c) /\ Recorded(c) BY DEF CycleOK, Cycles
<1>2. CycleCount \in Nat /\ c.index < CycleCount BY <1>1, BackflushConstants DEF InPlace
<1>3. Cardinality(0..(c.index - 1)) = c.index /\ Cardinality(0..c.index) = c.index + 1
  <2>1. c.index - 1 \in Int /\ c.index \in Int /\ 0 \in Int BY <1>1
  <2>2. Cardinality(0..(c.index - 1)) = IF 0 > c.index - 1 THEN 0 ELSE c.index - 1 - 0 + 1
    BY <2>1, FS_Interval
  <2>3. Cardinality(0..c.index) = IF 0 > c.index THEN 0 ELSE c.index - 0 + 1
    BY <2>1, FS_Interval
  <2> QED BY <1>1, <2>2, <2>3
<1>4. {i \in 0..CycleCount : OffRecorded(c, i)} = 0..(c.index - 1)
  BY <1>1, <1>2 DEF OffRecorded
<1>5. CASE c.phase \in {"PumpOff", "Complete"}
  <2>1. {i \in 0..CycleCount : OnRecorded(c, i)} = 0..c.index
    BY <1>1, <1>2, <1>5 DEF OnRecorded
  <2> QED BY <1>1, <1>3, <1>4, <1>5, <2>1 DEF Recorded
<1>6. CASE c.phase \notin {"PumpOff", "Complete"}
  <2>1. {i \in 0..CycleCount : OnRecorded(c, i)} = 0..(c.index - 1)
    BY <1>1, <1>2, <1>6 DEF OnRecorded
  <2> QED BY <1>1, <1>3, <1>4, <1>6, <2>1 DEF Recorded
<1> QED BY <1>5, <1>6

(* The durations of a backflush are the operator's: with the period that   *)
(* runs they account for all the time since the pump first ran, and each   *)
(* was ended by a state of the pump that held for the window its length    *)
(* calls for, for every number of cycles, target and pair of windows       *)
(* (BackflushCycle::update).                                               *)
THEOREM PeriodsAreMeasured == BackflushSpec => []PeriodsMeasured
<1>1. BackflushInv => PeriodsMeasured
  <2> SUFFICES ASSUME BackflushInv PROVE PeriodsMeasured OBVIOUS
  <2>1. CycleOK(cycle) /\ TimeAccounted /\ WindowKept BY DEF BackflushInv
  <2> QED BY <2>1, RecordedCounted
          DEF PeriodsMeasured, TimeAccounted, WindowKept, Window, Accounted, Measuring
<1> QED BY <1>1, BackflushInvInit, BackflushInvStep, PTL DEF BackflushSpec

(***************************************************************************)
(* Part 5: PumpSpectrum.                                                   *)
(***************************************************************************)

(* The spectrum                                                            *)

SpectrumOK == spectrum \in [AnalysisBins -> Nat] /\ inside \subseteq EdgeBins

LEMMA AnalysisKept ==
  ASSUME UNCHANGED <<spectrum, inside>>
  PROVE  Analysis' = Analysis
<1>1. spectrum' = spectrum /\ inside' = inside OBVIOUS
<1>2. TopByEnergyFraction' = TopByEnergyFraction BY <1>1 DEF TopByEnergyFraction, Power, Louder
<1>3. ASSUME NEW t PROVE ClusterPeaks(t)' = ClusterPeaks(t)
  BY <1>1 DEF ClusterPeaks, Power, Louder
<1>4. ASSUME NEW t PROVE NoisePerBin(t)' = NoisePerBin(t) BY <1>1 DEF NoisePerBin, Power
<1>5. ASSUME NEW c, NEW t PROVE SelectPumpCluster(c, t)' = SelectPumpCluster(c, t)
  BY <1>1 DEF SelectPumpCluster, ClusterSnr
<1> QED BY <1>2, <1>3, <1>4, <1>5 DEF Analysis

Term(S) == [b \in 1..kMax |-> IF b \in S THEN spectrum[b] ELSE 0]

LEMMA BinsOf ==
  /\ kMin \in Nat /\ kMax \in Nat /\ kMin <= kMax /\ ClusterGap \in Nat
  /\ AnalysisBins \subseteq 1..kMax /\ AnalysisBins # {}
  /\ AnalysisBins \subseteq Nat /\ IsFiniteSet(AnalysisBins)
  /\ PumpBins \subseteq AnalysisBins /\ EdgeBins \subseteq AnalysisBins
<1>1. kMin \in Nat \ {0} /\ kMax \in Nat /\ kMin <= kMax BY SpectrumConstants
<1>2. IsFiniteSet(kMin..kMax) BY <1>1, FS_Interval
<1>3. kMin \in kMin..kMax BY <1>1
<1> QED BY <1>1, <1>2, <1>3, SpectrumConstants DEF AnalysisBins

LEMMA PowerIsTotal ==
  ASSUME SpectrumOK, NEW S, S \subseteq AnalysisBins
  PROVE  Term(S) \in Lengths(kMax) /\ Power(S) = Total(Term(S)) /\ Power(S) \in Nat
<1>1. Term(S) \in Lengths(kMax) BY DEF SpectrumOK, Term, Lengths
<1>2. Power(S) = Total(Term(S)) BY DEF Power, Term
<1> QED BY <1>1, <1>2, BinsOf, LengthOf

LEMMA PowerAdds ==
  ASSUME SpectrumOK, NEW S, S \subseteq AnalysisBins, NEW T, T \subseteq AnalysisBins,
         S \cap T = {}
  PROVE  Power(S \cup T) = Power(S) + Power(T)
<1>1. S \cup T \subseteq AnalysisBins OBVIOUS
<1>2. /\ Term(S) \in Lengths(kMax) /\ Term(T) \in Lengths(kMax)
      /\ Term(S \cup T) \in Lengths(kMax)
  BY <1>1, PowerIsTotal
<1>3. ASSUME NEW i \in 1..kMax PROVE Term(S \cup T)[i] = Term(S)[i] + Term(T)[i]
  <2>1. i \in S => spectrum[i] \in Nat BY DEF SpectrumOK
  <2>2. i \in T => spectrum[i] \in Nat BY DEF SpectrumOK
  <2> QED BY <2>1, <2>2 DEF Term
<1>4. Total(Term(S \cup T)) = Total(Term(S)) + Total(Term(T))
  <2>1. PICK n, s, t, u : n = kMax /\ s = Term(S) /\ t = Term(T) /\ u = Term(S \cup T) OBVIOUS
  <2>2. n \in Nat /\ s \in Lengths(n) /\ t \in Lengths(n) /\ u \in Lengths(n)
    BY <1>2, <2>1, BinsOf
  <2>3. \A i \in 1..n : u[i] = s[i] + t[i] BY <1>3, <2>1
  <2>4. Total(u) = Total(s) + Total(t) BY <2>2, <2>3, TotalAdds
  <2> QED BY <2>1, <2>4
<1> QED BY <1>1, <1>4, PowerIsTotal

LEMMA PowerSubset ==
  ASSUME SpectrumOK, NEW S, S \subseteq AnalysisBins, NEW T, T \subseteq S
  PROVE  Power(T) <= Power(S)
<1>1. Power(T \cup (S \ T)) = Power(T) + Power(S \ T) BY PowerAdds
<1>2. T \cup (S \ T) = S OBVIOUS
<1>3. Power(T) \in Nat /\ Power(S \ T) \in Nat BY PowerIsTotal
<1>4. Power(S) = Power(T) + Power(S \ T) BY <1>1, <1>2, Zenon
<1> QED BY <1>3, <1>4

LEMMA PowerOne ==
  ASSUME SpectrumOK, NEW b \in AnalysisBins
  PROVE  Power({b}) = spectrum[b] /\ spectrum[b] \in Nat
<1>1. Term({b}) \in Lengths(kMax) /\ Power({b}) = Total(Term({b})) BY PowerIsTotal
<1>2. b \in 1..kMax BY BinsOf
<1>3. Term({b})[b] = spectrum[b] /\ \A i \in 1..kMax : i # b => Term({b})[i] = 0
  BY <1>2 DEF Term
<1>4. Total(Term({b})) = Term({b})[b] BY <1>1, <1>2, <1>3, BinsOf, TotalOne
<1> QED BY <1>1, <1>3, <1>4 DEF SpectrumOK

LEMMA PowerNone == SpectrumOK => Power({}) = 0
<1> SUFFICES ASSUME SpectrumOK PROVE Power({}) = 0 OBVIOUS
<1>1. Power({} \cup {}) = Power({}) + Power({}) BY PowerAdds
<1>2. {} \cup {} = {} OBVIOUS
<1>3. Power({}) \in Nat BY PowerIsTotal
<1>4. Power({}) = Power({}) + Power({}) BY <1>1, <1>2, Zenon
<1>5. \A p \in Nat : p = p + p => p = 0 OBVIOUS
<1> QED BY <1>3, <1>4, <1>5, Zenon

\* As many bins of at least, or at most, one power.
LEMMA PowerOfMany ==
  ASSUME SpectrumOK, NEW S, S \subseteq AnalysisBins, NEW m \in Nat
  PROVE  /\ Cardinality(S) \in Nat
         /\ (\A b \in S : spectrum[b] >= m) => m * Cardinality(S) <= Power(S)
         /\ (\A b \in S : spectrum[b] <= m) => Power(S) <= m * Cardinality(S)
<1> DEFINE one == Member(S, kMax)
           u == [i \in 1..kMax |-> m * one[i]]
<1>1. one \in Lengths(kMax) /\ Total(one) = Cardinality(S) /\ Cardinality(S) \in Nat
  BY BinsOf, TotalCounts
<1>2. u \in Lengths(kMax) BY <1>1 DEF Lengths
<1>3. Total(u) = m * Cardinality(S)
  <2>1. \A i \in 1..kMax : u[i] = m * one[i] OBVIOUS
  <2> HIDE DEF u, one
  <2>2. Total(u) = m * Total(one) BY <1>1, <1>2, <2>1, BinsOf, TotalScaled
  <2> QED BY <1>1, <2>2
<1>4. \A i \in 1..kMax : u[i] = IF i \in S THEN m ELSE 0
  <2>1. \A i \in 1..kMax : one[i] = IF i \in S THEN 1 ELSE 0 BY DEF Member
  <2>2. m * 1 = m /\ m * 0 = 0 OBVIOUS
  <2> HIDE DEF one
  <2> QED BY <2>1, <2>2
<1> HIDE DEF u, one
<1>5. Term(S) \in Lengths(kMax) /\ Power(S) = Total(Term(S)) BY PowerIsTotal
<1>6. ASSUME \A b \in S : spectrum[b] >= m PROVE Total(u) <= Total(Term(S))
  <2>1. \A i \in 1..kMax : u[i] <= Term(S)[i] BY <1>4, <1>6 DEF Term, SpectrumOK
  <2> QED BY <1>2, <1>5, <2>1, BinsOf, TotalMonotone
<1>7. ASSUME \A b \in S : spectrum[b] <= m PROVE Total(Term(S)) <= Total(u)
  <2>1. \A i \in 1..kMax : Term(S)[i] <= u[i] BY <1>4, <1>7 DEF Term, SpectrumOK
  <2> QED BY <1>2, <1>5, <2>1, BinsOf, TotalMonotone
<1> QED BY <1>1, <1>3, <1>5, <1>6, <1>7

LEMMA LouderOrder ==
  ASSUME SpectrumOK, NEW a \in AnalysisBins, NEW b \in AnalysisBins, NEW c \in AnalysisBins
  PROVE  /\ ~(Louder(a, b) /\ Louder(b, a))
         /\ a = b \/ Louder(a, b) \/ Louder(b, a)
         /\ Louder(a, b) /\ Louder(b, c) => Louder(a, c)
         /\ spectrum[a] > spectrum[b] \/ (spectrum[a] = spectrum[b] /\ a <= b) =>
              a = b \/ Louder(a, b)
         /\ Louder(a, b) => spectrum[a] >= spectrum[b]
<1>1. spectrum[a] \in Nat /\ spectrum[b] \in Nat /\ spectrum[c] \in Nat BY DEF SpectrumOK
<1>2. a \in Nat /\ b \in Nat /\ c \in Nat BY BinsOf
<1> QED BY <1>1, <1>2 DEF Louder

\* The best of a set is the one with the most e, of equals the one with the least z.
Best(S, e, z, a) ==
  a \in S /\ \A b \in S : e[a] > e[b] \/ (e[a] = e[b] /\ z[a] <= z[b])
HasBest(S, e, z) == \E a \in S : Best(S, e, z, a)

LEMMA BestExists ==
  ASSUME NEW n \in Nat, NEW S, S \subseteq 1..n, S # {}, NEW e, NEW z,
         \A i \in S : e[i] \in Nat /\ z[i] \in Nat
  PROVE  HasBest(S, e, z)
<1> DEFINE Lacks(k) == S \cap (1..k) # {} /\ ~HasBest(S \cap (1..k), e, z)
           Lacking == {k \in Nat : Lacks(k)}
           Less == OpToRel(<, Nat)
<1>1. Lacking = {}
  <2>1. SUFFICES ASSUME Lacking # {} PROVE FALSE OBVIOUS
  <2>2. IsWellFoundedOn(Less, Nat) /\ Lacking \subseteq Nat BY NatLessThanWellFounded
  <2>3. PICK k \in Lacking : \A i \in Lacking : <<i, k>> \notin Less
    <3> HIDE DEF Lacking, Less
    <3> QED BY <2>1, <2>2, WFMin
  <2>4. k \in Nat /\ Lacks(k) BY <2>3
  <2>5. k # 0 BY <2>4
  <2>6. k - 1 \in Nat /\ <<k - 1, k>> \in Less BY <2>4, <2>5 DEF OpToRel
  <2>7. ~Lacks(k - 1)
    <3> HIDE DEF Less, Lacks
    <3> QED BY <2>3, <2>6
  <2> HIDE DEF Less
  <2> DEFINE T == S \cap (1..(k - 1))
             U == S \cap (1..k)
  <2>8. U = T \/ (k \in S /\ U = T \cup {k})
    <3>1. \A i \in U : i = k \/ i \in T BY <2>4, <2>5
    <3>2. T \subseteq U BY <2>4, <2>5
    <3>3. k \in U <=> k \in S BY <2>4, <2>5
    <3> HIDE DEF T, U
    <3> QED BY <3>1, <3>2, <3>3
  <2>9. T # {} => HasBest(T, e, z) BY <2>7
  <2>10. U # {} /\ ~HasBest(U, e, z) BY <2>4
  <2>11. T \subseteq S BY <2>4
  <2> HIDE DEF T, U
  <2>12. k \in S /\ U = T \cup {k} BY <2>8, <2>9, <2>10
  <2>13. CASE T = {}
    <3>1. U = {k} BY <2>12, <2>13
    <3>2. e[k] \in Nat /\ z[k] \in Nat BY <2>12
    <3>3. Best(U, e, z, k) BY <3>1, <3>2 DEF Best
    <3> QED BY <2>10, <3>1, <3>3 DEF HasBest
  <2>14. CASE T # {}
    <3>1. PICK a \in T : Best(T, e, z, a) BY <2>9, <2>14 DEF HasBest
    <3>2. a \in S /\ e[a] \in Nat /\ z[a] \in Nat /\ e[k] \in Nat /\ z[k] \in Nat
          /\ \A b \in T : e[b] \in Nat /\ z[b] \in Nat
      BY <2>11, <2>12, <3>1
    <3>3. CASE e[a] > e[k] \/ (e[a] = e[k] /\ z[a] <= z[k])
      <4>1. Best(U, e, z, a) BY <2>12, <3>1, <3>3 DEF Best
      <4> QED BY <2>10, <4>1 DEF HasBest, Best
    <3>4. CASE ~(e[a] > e[k] \/ (e[a] = e[k] /\ z[a] <= z[k]))
      <4>1. Best(U, e, z, k) BY <2>12, <3>1, <3>2, <3>4 DEF Best
      <4> QED BY <2>10, <4>1 DEF HasBest, Best
    <3> QED BY <3>3, <3>4
  <2> QED BY <2>13, <2>14
<1>2. S \cap (1..n) = S OBVIOUS
<1>3. ~Lacks(n)
  <2> HIDE DEF Lacks
  <2> QED BY <1>1
<1> QED BY <1>2, <1>3

LEMMA LoudestExists ==
  ASSUME SpectrumOK, NEW S, S \subseteq AnalysisBins, S # {}
  PROVE  \E b \in S : \A c \in S : b = c \/ Louder(b, c)
<1> DEFINE z == [b \in S |-> b]
<1>1. \A b \in S : spectrum[b] \in Nat /\ z[b] \in Nat BY BinsOf DEF SpectrumOK
<1>2. PICK e : e = spectrum OBVIOUS
<1>3. HasBest(S, e, z)
  <2> HIDE DEF z
  <2>1. kMax \in Nat /\ S \subseteq 1..kMax BY BinsOf
  <2>2. \A b \in S : e[b] \in Nat /\ z[b] \in Nat BY <1>1, <1>2
  <2> QED BY <2>1, <2>2, BestExists
<1>4. PICK a \in S : \A b \in S : e[a] > e[b] \/ (e[a] = e[b] /\ a <= b)
  BY <1>3 DEF HasBest, Best
<1>5. ASSUME NEW c \in S PROVE a = c \/ Louder(a, c)
  <2>1. spectrum[a] > spectrum[c] \/ (spectrum[a] = spectrum[c] /\ a <= c) BY <1>2, <1>4
  <2>2. a \in AnalysisBins /\ c \in AnalysisBins OBVIOUS
  <2> QED BY <2>1, <2>2, LouderOrder
<1> QED BY <1>5

\* A nonempty set of naturals has a least element.
LEMMA LeastExists ==
  ASSUME NEW S, S \subseteq Nat, S # {}
  PROVE  \E k \in S : \A j \in S : k <= j
<1> DEFINE Less == OpToRel(<, Nat)
<1>1. IsWellFoundedOn(Less, Nat) BY NatLessThanWellFounded
<1>2. PICK k \in S : \A j \in S : <<j, k>> \notin Less
  <2> HIDE DEF Less
  <2> QED BY <1>1, WFMin
<1>3. ASSUME NEW j \in S PROVE k <= j
  <2>1. SUFFICES ASSUME j < k PROVE FALSE OBVIOUS
  <2>2. <<j, k>> \in Less BY <2>1 DEF OpToRel
  <2> QED BY <1>2, <2>2
<1> QED BY <1>3

\* One of some places up to n is the last.
LEMMA LastExists ==
  ASSUME NEW n \in Nat, NEW S, S \subseteq 1..n, S # {}
  PROVE  \E k \in S : \A j \in S : j <= k
<1> DEFINE e == [i \in S |-> i]
           z == [i \in S |-> 0]
<1>1. \A i \in S : e[i] \in Nat /\ z[i] \in Nat OBVIOUS
<1>2. HasBest(S, e, z)
  <2> HIDE DEF e, z
  <2> QED BY <1>1, BestExists
<1>3. PICK a \in S : \A b \in S : a > b \/ (a = b /\ z[a] <= z[b]) BY <1>2 DEF HasBest, Best
<1>4. \A b \in S : b <= a BY <1>3
<1> QED BY <1>4

\* The loudest bins: as many as reach four fifths of the power.
LEMMA TopOK ==
  ASSUME SpectrumOK
  PROVE  /\ TopByEnergyFraction \subseteq AnalysisBins
         /\ 5 * Power(TopByEnergyFraction) >= 4 * Power(AnalysisBins)
         /\ \A b \in TopByEnergyFraction, c \in AnalysisBins :
              Louder(c, b) => c \in TopByEnergyFraction
<1> DEFINE Over(b) == {c \in AnalysisBins : Louder(c, b)}
           First(k) == {b \in AnalysisBins : Cardinality(Over(b)) < k}
           enough == {k \in 0..Cardinality(AnalysisBins) :
                        5 * Power(First(k)) >= 4 * Power(AnalysisBins)}
           size == CHOOSE k \in enough : \A j \in enough : k <= j
<1>1. TopByEnergyFraction = First(size) BY DEF TopByEnergyFraction
<1>2. ASSUME NEW b \in AnalysisBins
      PROVE  IsFiniteSet(Over(b)) /\ Cardinality(Over(b)) \in Nat
  <2>1. IsFiniteSet(Over(b)) BY BinsOf, FS_Subset
  <2> HIDE DEF Over
  <2> QED BY <2>1, FS_CardinalityType
<1>3. Cardinality(AnalysisBins) \in Nat BY BinsOf, FS_CardinalityType
<1>4. ASSUME NEW b \in AnalysisBins
      PROVE  Cardinality(Over(b)) < Cardinality(AnalysisBins)
  <2>1. b \notin Over(b) BY LouderOrder
  <2>2. Over(b) \subseteq AnalysisBins /\ Over(b) # AnalysisBins BY <2>1
  <2> HIDE DEF Over
  <2>3. Cardinality(Over(b)) <= Cardinality(AnalysisBins)
    /\ (Cardinality(Over(b)) = Cardinality(AnalysisBins) => Over(b) = AnalysisBins)
    BY <2>2, BinsOf, FS_Subset
  <2> QED BY <1>2, <1>3, <2>2, <2>3
<1>5. size \in enough
  <2>1. First(Cardinality(AnalysisBins)) = AnalysisBins BY <1>4
  <2>2. Power(AnalysisBins) \in Nat BY PowerIsTotal
  <2> HIDE DEF First
  <2>3. Cardinality(AnalysisBins) \in enough BY <1>3, <2>1, <2>2
  <2>4. enough \subseteq Nat BY <1>3
  <2> HIDE DEF enough
  <2>5. \E k \in enough : \A j \in enough : k <= j BY <2>3, <2>4, LeastExists
  <2> QED BY <2>5
<1>6. size \in Nat /\ 5 * Power(First(size)) >= 4 * Power(AnalysisBins) BY <1>3, <1>5
<1> HIDE DEF size
<1>7. ASSUME NEW b \in First(size), NEW c \in AnalysisBins, Louder(c, b) PROVE c \in First(size)
  <2>1. b \in AnalysisBins /\ Cardinality(Over(b)) < size OBVIOUS
  <2>2. Over(c) \subseteq Over(b) BY <1>7, <2>1, LouderOrder
  <2> HIDE DEF Over
  <2>3. Cardinality(Over(c)) <= Cardinality(Over(b)) BY <1>2, <2>1, <2>2, FS_Subset
  <2>4. Cardinality(Over(c)) < size BY <1>2, <1>6, <2>1, <2>3
  <2> QED BY <2>4
<1>8. First(size) \subseteq AnalysisBins OBVIOUS
<1> HIDE DEF First
<1> QED BY <1>1, <1>6, <1>7, <1>8

Opener(top, b) == \A c \in top : c < b => b - c > ClusterGap
ClusterOf(top, s) ==
  {b \in top : b >= s /\ \A c \in (s + 1)..b : c \in top => ~Opener(top, c)}
Openers(top) == {b \in top : Opener(top, b)}
Loudest(bins) == CHOOSE b \in bins : \A c \in bins : b = c \/ Louder(b, c)
Tone(bins) == [center |-> Loudest(bins), energy |-> Power(bins), count |-> Cardinality(bins)]

LEMMA ClustersAre ==
  ASSUME NEW top
  PROVE  ClusterPeaks(top) = {Tone(ClusterOf(top, s)) : s \in Openers(top)}
BY DEF ClusterPeaks, Tone, ClusterOf, Openers, Opener, Loudest

LEMMA LoudestOf ==
  ASSUME SpectrumOK, NEW S, S \subseteq AnalysisBins, S # {}
  PROVE  /\ Loudest(S) \in S
         /\ \A c \in S : Loudest(S) = c \/ Louder(Loudest(S), c)
         /\ \A b \in S : (\A c \in S : b = c \/ Louder(b, c)) => Loudest(S) = b
<1>1. \E b \in S : \A c \in S : b = c \/ Louder(b, c) BY LoudestExists
<1>2. Loudest(S) \in S /\ \A c \in S : Loudest(S) = c \/ Louder(Loudest(S), c)
  BY <1>1 DEF Loudest
<1>3. ASSUME NEW b \in S, \A c \in S : b = c \/ Louder(b, c) PROVE Loudest(S) = b
  <2>1. PICK a : a = Loudest(S) OBVIOUS
  <2>2. a \in S /\ (a = b \/ Louder(a, b)) /\ (b = a \/ Louder(b, a)) BY <1>2, <1>3, <2>1
  <2>3. a \in AnalysisBins /\ b \in AnalysisBins BY <2>2
  <2> QED BY <2>1, <2>2, <2>3, LouderOrder
<1> QED BY <1>2, <1>3

\* Every top bin belongs to the cluster of the last opener that is not above it.
LEMMA InSomeCluster ==
  ASSUME NEW top, top \subseteq AnalysisBins, NEW b \in top
  PROVE  \E s \in Openers(top) : b \in ClusterOf(top, s)
<1> DEFINE Below == {s \in Openers(top) : s <= b}
<1>1. top \subseteq 1..kMax /\ kMax \in Nat /\ ClusterGap \in Nat BY BinsOf
<1>2. Below # {}
  <2>1. top \subseteq Nat /\ top # {} BY <1>1
  <2>2. PICK f \in top : \A c \in top : f <= c BY <2>1, LeastExists
  <2>3. f \in Nat /\ \A c \in top : c \in Nat BY <2>1
  <2>4. Opener(top, f) BY <2>2, <2>3 DEF Opener
  <2> QED BY <2>2, <2>4 DEF Openers
<1>3. Below \subseteq 1..kMax BY <1>1 DEF Openers
<1>4. PICK s \in Below : \A j \in Below : j <= s
  <2> HIDE DEF Below
  <2> QED BY <1>1, <1>2, <1>3, LastExists
<1>5. s \in Openers(top) /\ s \in top /\ s <= b BY <1>4 DEF Openers
<1>6. s \in Nat /\ b \in Nat BY <1>1, <1>5
<1>7. ASSUME NEW c \in (s + 1)..b, c \in top PROVE ~Opener(top, c)
  <2>1. SUFFICES ASSUME Opener(top, c) PROVE FALSE OBVIOUS
  <2>2. c \in Below BY <1>6, <1>7, <2>1 DEF Openers
  <2>3. c <= s BY <1>4, <2>2
  <2> QED BY <1>6, <1>7, <2>3
<1> QED BY <1>5, <1>6, <1>7 DEF ClusterOf

\* Two bins of one cluster are not apart.
LEMMA OneTone ==
  ASSUME NEW top, top \subseteq AnalysisBins, NEW s \in Openers(top),
         NEW b \in ClusterOf(top, s), NEW c \in ClusterOf(top, s)
  PROVE  ~Apart(b, c, top)
<1>1. top \subseteq Nat /\ ClusterGap \in Nat BY BinsOf
<1>2. s \in Nat /\ b \in Nat /\ c \in Nat /\ b \in top /\ c \in top /\ b >= s /\ c >= s
  BY <1>1 DEF Openers, ClusterOf
<1>3. SUFFICES ASSUME NEW x \in top, NEW y \in top, y - x > ClusterGap,
                      \A z \in top : z <= x \/ z >= y,
                      (b <= x /\ y <= c) \/ (c <= x /\ y <= b)
               PROVE  FALSE
  BY DEF Apart
<1>4. x \in Nat /\ y \in Nat BY <1>1
<1>5. Opener(top, y)
  <2>1. ASSUME NEW d \in top, d < y PROVE y - d > ClusterGap
    <3>1. d \in Nat /\ d <= x BY <1>1, <1>3, <1>4, <2>1
    <3> QED BY <1>1, <1>3, <1>4, <3>1
  <2> QED BY <2>1 DEF Opener
<1>6. CASE b <= x /\ y <= c
  <2>1. y \in (s + 1)..c BY <1>1, <1>2, <1>3, <1>4, <1>6
  <2> QED BY <1>3, <1>5, <2>1 DEF ClusterOf
<1>7. CASE c <= x /\ y <= b
  <2>1. y \in (s + 1)..b BY <1>1, <1>2, <1>3, <1>4, <1>7
  <2> QED BY <1>3, <1>5, <2>1 DEF ClusterOf
<1> QED BY <1>3, <1>6, <1>7

LEMMA ClusterIn ==
  ASSUME NEW top, top \subseteq AnalysisBins, NEW s \in Openers(top)
  PROVE  /\ ClusterOf(top, s) \subseteq top /\ ClusterOf(top, s) \subseteq AnalysisBins
         /\ s \in ClusterOf(top, s) /\ s \in 1..kMax
<1>1. s \in top /\ s \in 1..kMax BY BinsOf DEF Openers
<1>2. s >= s /\ \A c \in (s + 1)..s : FALSE BY <1>1
<1>3. s \in ClusterOf(top, s) BY <1>1, <1>2 DEF ClusterOf
<1> QED BY <1>1, <1>3 DEF ClusterOf

-----------------------------------------------------------------------------
(* What is made of the spectrum                                            *)

InBand(top) ==
  {s \in Openers(top) : Loudest(ClusterOf(top, s)) \in PumpBins \cup inside}

\* What the analysis finds, in terms of openers.
LEMMA AnalysisIs ==
  ASSUME SpectrumOK, NEW top, top = TopByEnergyFraction
  PROVE  \/ (top = {} \/ top = AnalysisBins \/ InBand(top) = {}) /\ Analysis = NoTone
         \/ /\ top # {} /\ top # AnalysisBins
            /\ \E s \in InBand(top) :
                 /\ Analysis = [hasCluster |-> TRUE, at |-> Loudest(ClusterOf(top, s)),
                                energy |-> Power(ClusterOf(top, s)),
                                snr |-> ClusterSnr(Tone(ClusterOf(top, s)), NoisePerBin(top))]
                 /\ \A r \in InBand(top) :
                      Power(ClusterOf(top, s)) >= Power(ClusterOf(top, r))
<1> DEFINE clusters == ClusterPeaks(top)
           noise == NoisePerBin(top)
           inBand == {c \in clusters : c.center \in PumpBins \cup inside}
           Better(c, d) == c.energy > d.energy \/ (c.energy = d.energy /\ c.center <= d.center)
           best == CHOOSE c \in inBand : \A d \in inBand : Better(c, d)
<1>1. Analysis = IF noise = <<>> \/ inBand = {} THEN NoTone
                 ELSE [hasCluster |-> TRUE, at |-> best.center, energy |-> best.energy,
                       snr |-> ClusterSnr(best, noise)]
  BY DEF Analysis, SelectPumpCluster
<1>2. top \subseteq AnalysisBins BY TopOK
<1>3. noise = <<>> <=> top = {} \/ top = AnalysisBins BY <1>2 DEF NoisePerBin
<1>4. inBand = {Tone(ClusterOf(top, s)) : s \in InBand(top)}
  <2>1. clusters = {Tone(ClusterOf(top, s)) : s \in Openers(top)} BY ClustersAre
  <2>2. \A s : Tone(ClusterOf(top, s)).center = Loudest(ClusterOf(top, s)) BY DEF Tone
  <2> HIDE DEF clusters
  <2> QED BY <2>1, <2>2 DEF InBand
<1>5. CASE noise = <<>> \/ inBand = {}
  <2>1. inBand = {} => InBand(top) = {} BY <1>4
  <2> HIDE DEF inBand, noise, best
  <2> QED BY <1>1, <1>3, <1>5, <2>1
<1>6. CASE noise # <<>> /\ inBand # {}
  <2> DEFINE e == [s \in InBand(top) |-> Power(ClusterOf(top, s))]
             z == [s \in InBand(top) |-> Loudest(ClusterOf(top, s))]
  <2>1. InBand(top) # {} BY <1>4, <1>6
  <2>2. InBand(top) \subseteq 1..kMax /\ kMax \in Nat BY <1>2, ClusterIn, BinsOf DEF InBand
  <2>3. ASSUME NEW s \in InBand(top) PROVE e[s] \in Nat /\ z[s] \in Nat
    <3>1. s \in Openers(top) BY DEF InBand
    <3>2. ClusterOf(top, s) \subseteq AnalysisBins /\ ClusterOf(top, s) # {}
      BY <1>2, <3>1, ClusterIn
    <3>3. Power(ClusterOf(top, s)) \in Nat BY <3>2, PowerIsTotal
    <3>4. Loudest(ClusterOf(top, s)) \in Nat BY <3>2, LoudestOf, BinsOf
    <3> QED BY <3>3, <3>4
  <2>4. HasBest(InBand(top), e, z)
    <3> HIDE DEF e, z
    <3>1. PICK n, S, f, g : n = kMax /\ S = InBand(top) /\ f = e /\ g = z OBVIOUS
    <3>2. n \in Nat /\ S \subseteq 1..n /\ S # {} /\ \A i \in S : f[i] \in Nat /\ g[i] \in Nat
      BY <2>1, <2>2, <2>3, <3>1
    <3>3. HasBest(S, f, g) BY <3>2, BestExists
    <3> QED BY <3>1, <3>3
  <2>5. PICK t \in InBand(top) : Best(InBand(top), e, z, t) BY <2>4 DEF HasBest
  <2>6. \A r \in InBand(top) : Better(Tone(ClusterOf(top, t)), Tone(ClusterOf(top, r)))
    BY <2>5 DEF Best, Tone
  <2> HIDE DEF Better
  <2>7. Tone(ClusterOf(top, t)) \in inBand /\ \A d \in inBand : Better(Tone(ClusterOf(top, t)), d)
    <3> HIDE DEF inBand
    <3> QED BY <1>4, <2>5, <2>6
  <2>8. best \in inBand /\ \A d \in inBand : Better(best, d)
    <3> HIDE DEF inBand
    <3> QED BY <2>7
  <2> HIDE DEF inBand, best, noise
  <2>9. PICK s \in InBand(top) : best = Tone(ClusterOf(top, s)) BY <1>4, <2>8
  <2>10. ASSUME NEW r \in InBand(top)
         PROVE  Power(ClusterOf(top, s)) >= Power(ClusterOf(top, r))
    <3>1. Better(Tone(ClusterOf(top, s)), Tone(ClusterOf(top, r)))
      BY <1>4, <2>8, <2>9
    <3>2. e[s] \in Nat /\ e[r] \in Nat BY <2>3
    <3>3. Power(ClusterOf(top, s)) \in Nat /\ Power(ClusterOf(top, r)) \in Nat BY <3>2
    <3> QED BY <3>1, <3>3 DEF Better, Tone
  <2>11. best.center = Loudest(ClusterOf(top, s)) /\ best.energy = Power(ClusterOf(top, s))
    BY <2>9 DEF Tone
  <2>12. Analysis = [hasCluster |-> TRUE, at |-> best.center, energy |-> best.energy,
                     snr |-> ClusterSnr(best, noise)]
    BY <1>1, <1>6
  <2>13. Analysis = [hasCluster |-> TRUE, at |-> Loudest(ClusterOf(top, s)),
                     energy |-> Power(ClusterOf(top, s)),
                     snr |-> ClusterSnr(Tone(ClusterOf(top, s)), NoisePerBin(top))]
    BY <2>9, <2>11, <2>12 DEF noise
  <2> QED BY <1>3, <1>6, <2>10, <2>13
<1> QED BY <1>5, <1>6

\* Products of bounds: more per bin than the noise is more than as much noise.
LEMMA OverNoise ==
  ASSUME NEW m \in Nat, NEW energy \in Nat, NEW count \in Nat, NEW noise \in Nat, NEW bins \in Nat,
         m * count <= energy, noise <= m * bins
  PROVE  energy * bins >= noise * count
<1>1. ASSUME NEW x \in Nat, NEW y \in Nat, NEW k \in Nat, x <= y PROVE x * k <= y * k BY <1>1
<1>2. m * count \in Nat /\ m * bins \in Nat OBVIOUS
<1>3. (m * count) * bins <= energy * bins BY <1>1, <1>2
<1>4. noise * count <= (m * bins) * count BY <1>1, <1>2
<1>5. (m * count) * bins = (m * bins) * count OBVIOUS
<1>6. energy * bins \in Nat /\ noise * count \in Nat /\ (m * bins) * count \in Nat BY <1>2
<1> QED BY <1>3, <1>4, <1>5, <1>6

LEMMA PumpToneOfAnalysis ==
  ASSUME SpectrumOK, tone = Analysis
  PROVE  PumpToneFound
<1> DEFINE top == TopByEnergyFraction
           loudest == Loudest(AnalysisBins)
<1>1. /\ top \subseteq AnalysisBins /\ 5 * Power(top) >= 4 * Power(AnalysisBins)
      /\ \A b \in top, c \in AnalysisBins : Louder(c, b) => c \in top
  BY TopOK
<1>2. PICK t : t = top OBVIOUS
<1>3. /\ t \subseteq AnalysisBins /\ 5 * Power(t) >= 4 * Power(AnalysisBins)
      /\ \A b \in t, c \in AnalysisBins : Louder(c, b) => c \in t
  BY <1>1, <1>2, Zenon
<1>4. PumpBins \subseteq AnalysisBins BY BinsOf
<1>5. Power(AnalysisBins) \in Nat /\ Power(t) \in Nat BY <1>3, PowerIsTotal
\* The loudest tone, in the pump band.
<1>6. ASSUME loudest \in PumpBins, spectrum[loudest] > 0, t # AnalysisBins
      PROVE  t # {} /\ InBand(t) # {}
  <2>1. /\ loudest \in AnalysisBins
        /\ \A c \in AnalysisBins : loudest = c \/ Louder(loudest, c)
    BY LoudestOf, BinsOf
  <2> HIDE DEF loudest
  <2>2. Power({loudest}) = spectrum[loudest] /\ spectrum[loudest] \in Nat BY <2>1, PowerOne
  <2>3. Power({loudest}) <= Power(AnalysisBins) BY <2>1, PowerSubset
  <2>4. t # {}
    <3>1. SUFFICES ASSUME t = {} PROVE FALSE OBVIOUS
    <3>2. Power(t) = 0 BY <3>1, PowerNone, Zenon
    <3> QED BY <1>3, <1>5, <1>6, <2>2, <2>3, <3>2
  <2>5. loudest \in t BY <1>3, <2>1, <2>4
  <2>6. PICK s \in Openers(t) : loudest \in ClusterOf(t, s) BY <1>3, <2>5, InSomeCluster
  <2>7. ClusterOf(t, s) \subseteq AnalysisBins BY <1>3, <2>6, ClusterIn
  <2>8. Loudest(ClusterOf(t, s)) = loudest BY <2>1, <2>6, <2>7, LoudestOf
  <2> QED BY <1>6, <2>4, <2>6, <2>8 DEF InBand
\* A large bin is among the top ones, and its cluster in the band.
<1>7. ASSUME NEW b \in PumpBins, 5 * spectrum[b] > Power(AnalysisBins),
             \A c \in t \ PumpBins : Louder(b, c) \/ Apart(b, c, t)
      PROVE  \E s \in InBand(t) : spectrum[b] <= Power(ClusterOf(t, s))
  <2>1. b \in AnalysisBins BY <1>4
  <2>2. Power({b}) = spectrum[b] /\ spectrum[b] \in Nat BY <2>1, PowerOne
  <2>3. b \in t
    <3>1. SUFFICES ASSUME b \notin t PROVE FALSE OBVIOUS
    <3>2. Power(t \cup {b}) = Power(t) + Power({b})
      <4>1. {b} \subseteq AnalysisBins /\ t \cap {b} = {} BY <2>1, <3>1
      <4> QED BY <1>3, <4>1, PowerAdds
    <3>3. Power(t \cup {b}) <= Power(AnalysisBins)
      <4>1. t \cup {b} \subseteq AnalysisBins BY <1>3, <2>1
      <4> QED BY <4>1, PowerSubset
    <3> QED BY <1>3, <1>5, <1>7, <2>2, <3>2, <3>3
  <2>4. PICK s \in Openers(t) : b \in ClusterOf(t, s) BY <1>3, <2>3, InSomeCluster
  <2>5. ClusterOf(t, s) \subseteq AnalysisBins /\ ClusterOf(t, s) \subseteq t
    BY <1>3, <2>4, ClusterIn
  <2>6. PICK c : c = Loudest(ClusterOf(t, s)) OBVIOUS
  <2>7. c \in ClusterOf(t, s) /\ (c = b \/ Louder(c, b)) BY <2>4, <2>5, <2>6, LoudestOf
  <2>8. c \in PumpBins
    <3>1. SUFFICES ASSUME c \notin PumpBins PROVE FALSE OBVIOUS
    <3>2. c \in t \ PumpBins /\ c # b BY <2>5, <2>7, <3>1
    <3>3. ~Apart(b, c, t) BY <1>3, <2>4, <2>7, OneTone
    <3>4. Louder(b, c) /\ Louder(c, b) BY <1>7, <2>7, <3>2, <3>3
    <3>5. c \in AnalysisBins BY <2>5, <2>7
    <3> QED BY <2>1, <3>4, <3>5, LouderOrder
  <2>9. s \in InBand(t) BY <2>4, <2>6, <2>8 DEF InBand
  <2>10. Power({b}) <= Power(ClusterOf(t, s))
    <3>1. {b} \subseteq ClusterOf(t, s) BY <2>4
    <3> QED BY <2>5, <3>1, PowerSubset
  <2> QED BY <2>2, <2>9, <2>10
\* Every top bin is at least as loud as every other one.
<1>8. ASSUME NEW s \in Openers(t), t # {}, t # AnalysisBins
      PROVE  LET snr == ClusterSnr(Tone(ClusterOf(t, s)), NoisePerBin(t)) IN snr.over >= snr.under
  <2> DEFINE rest == AnalysisBins \ t
             bins == ClusterOf(t, s)
  <2>1. rest \subseteq AnalysisBins /\ rest # {} BY <1>3, <1>8
  <2>2. bins \subseteq AnalysisBins /\ bins \subseteq t BY <1>3, ClusterIn
  <2>3. PICK r : r = Loudest(rest) OBVIOUS
  <2>4. r \in rest /\ \A c \in rest : r = c \/ Louder(r, c)
    <3> HIDE DEF rest
    <3> QED BY <2>1, <2>3, LoudestOf
  <2>5. PICK m : m = spectrum[r] OBVIOUS
  <2>6. m \in Nat BY <2>4, <2>5 DEF SpectrumOK
  <2>7. ASSUME NEW c \in rest PROVE spectrum[c] <= m
    <3>1. c \in AnalysisBins /\ r \in AnalysisBins /\ spectrum[c] \in Nat /\ (r = c \/ Louder(r, c))
      BY <2>4 DEF SpectrumOK
    <3>2. Louder(r, c) => spectrum[r] >= spectrum[c] BY <3>1, LouderOrder
    <3> QED BY <2>5, <2>6, <3>1, <3>2
  <2>8. ASSUME NEW c \in bins PROVE spectrum[c] >= m
    <3>1. c \in t /\ c \in AnalysisBins /\ r \in AnalysisBins /\ r \notin t BY <2>2, <2>4
    <3>2. ~Louder(r, c) BY <1>3, <3>1
    <3>3. c = r \/ Louder(c, r) BY <3>1, <3>2, LouderOrder
    <3>4. Louder(c, r) => spectrum[c] >= spectrum[r] BY <3>1, LouderOrder
    <3> QED BY <2>5, <3>1, <3>3, <3>4
  <2> HIDE DEF rest, bins
  <2>9. /\ Cardinality(rest) \in Nat /\ Power(rest) <= m * Cardinality(rest)
        /\ Cardinality(bins) \in Nat /\ m * Cardinality(bins) <= Power(bins)
    BY <2>1, <2>2, <2>6, <2>7, <2>8, PowerOfMany
  <2>10. Power(rest) \in Nat /\ Power(bins) \in Nat BY <2>1, <2>2, PowerIsTotal
  <2>11. Power(bins) * Cardinality(rest) >= Power(rest) * Cardinality(bins)
    <3>1. PICK energy, count, noise, n :
            /\ energy = Power(bins) /\ count = Cardinality(bins)
            /\ noise = Power(rest) /\ n = Cardinality(rest)
      OBVIOUS
    <3>2. /\ energy \in Nat /\ count \in Nat /\ noise \in Nat /\ n \in Nat
          /\ m * count <= energy /\ noise <= m * n
      BY <2>9, <2>10, <3>1, Zenon
    <3>3. energy * n >= noise * count BY <2>6, <3>2, OverNoise
    <3> QED BY <3>1, <3>3, Zenon
  <2>12. NoisePerBin(t) = <<Power(rest), Cardinality(rest)>> BY <1>8, <2>1 DEF NoisePerBin, rest
  <2>13. ClusterSnr(Tone(bins), NoisePerBin(t)) =
           [over |-> Power(bins) * Cardinality(rest), under |-> Power(rest) * Cardinality(bins)]
    BY <2>12 DEF ClusterSnr, Tone
  <2> QED BY <2>11, <2>13 DEF bins
<1>9. \/ (t = {} \/ t = AnalysisBins \/ InBand(t) = {}) /\ tone = NoTone
      \/ /\ t # {} /\ t # AnalysisBins
         /\ \E s \in InBand(t) :
              /\ tone.hasCluster /\ tone.energy = Power(ClusterOf(t, s))
              /\ tone.snr = ClusterSnr(Tone(ClusterOf(t, s)), NoisePerBin(t))
              /\ \A r \in InBand(t) : Power(ClusterOf(t, s)) >= Power(ClusterOf(t, r))
  BY <1>2, AnalysisIs
<1>10. loudest \in PumpBins /\ spectrum[loudest] > 0 /\ t # AnalysisBins => tone.hasCluster
  <2> HIDE DEF loudest, top
  <2> QED BY <1>6, <1>9
<1>11. ASSUME tone.hasCluster
       PROVE  /\ \A b \in PumpBins :
                   /\ 5 * spectrum[b] > Power(AnalysisBins)
                   /\ \A c \in t \ PumpBins : Louder(b, c) \/ Apart(b, c, t)
                   => tone.energy >= spectrum[b]
              /\ tone.snr.over >= tone.snr.under
  <2> HIDE DEF loudest, top
  <2>1. tone # NoTone BY <1>11 DEF NoTone
  <2>2. PICK s \in InBand(t) :
          /\ t # {} /\ t # AnalysisBins /\ tone.energy = Power(ClusterOf(t, s))
          /\ tone.snr = ClusterSnr(Tone(ClusterOf(t, s)), NoisePerBin(t))
          /\ \A r \in InBand(t) : Power(ClusterOf(t, s)) >= Power(ClusterOf(t, r))
    BY <1>9, <2>1
  <2>3. tone.snr.over >= tone.snr.under BY <1>8, <2>2 DEF InBand
  <2>4. ASSUME NEW b \in PumpBins, 5 * spectrum[b] > Power(AnalysisBins),
               \A c \in t \ PumpBins : Louder(b, c) \/ Apart(b, c, t)
        PROVE  tone.energy >= spectrum[b]
    <3>1. PICK r \in InBand(t) : spectrum[b] <= Power(ClusterOf(t, r)) BY <1>7, <2>4
    <3>2. Power(ClusterOf(t, s)) >= Power(ClusterOf(t, r)) BY <2>2
    <3>3. ClusterOf(t, s) \subseteq AnalysisBins /\ ClusterOf(t, r) \subseteq AnalysisBins
      BY <1>3, ClusterIn DEF InBand
    <3>4. Power(ClusterOf(t, s)) \in Nat /\ Power(ClusterOf(t, r)) \in Nat BY <3>3, PowerIsTotal
    <3>5. spectrum[b] \in Nat BY <1>4 DEF SpectrumOK
    <3> QED BY <2>2, <3>1, <3>2, <3>4, <3>5
  <2> QED BY <2>3, <2>4
<1>12. loudest = CHOOSE b \in AnalysisBins : \A c \in AnalysisBins : b = c \/ Louder(b, c)
  BY DEF Loudest
<1> HIDE DEF loudest
<1>13. PumpToneFound <=>
         (tone # NotAnalyzed =>
            /\ loudest \in PumpBins /\ spectrum[loudest] > 0 /\ t # AnalysisBins
                 => tone.hasCluster
            /\ tone.hasCluster =>
                 /\ \A b \in {b \in PumpBins :
                                /\ 5 * spectrum[b] > Power(AnalysisBins)
                                /\ \A c \in t \ PumpBins : Louder(b, c) \/ Apart(b, c, t)} :
                      tone.energy >= spectrum[b]
                 /\ tone.snr.over >= tone.snr.under)
  BY <1>2, <1>12 DEF PumpToneFound
<1> QED BY <1>10, <1>11, <1>13

SpectrumInv == SpectrumOK /\ (tone = NotAnalyzed \/ tone = Analysis)

(* The tone of the pump is found in every spectrum, for every analysis     *)
(* band and pump band in it, every gap and every set of powers: its        *)
(* loudest bin when that is the pump's, no large bin of the pump given up  *)
(* for a weaker tone unless the top bins join it to a louder one outside,  *)
(* and no tone weaker than the noise (analyze, topByEnergyFraction,        *)
(* clusterPeaks, selectPumpCluster).                                       *)
THEOREM PumpToneIsFound == SpectrumSpec => []PumpToneFound
<1>1. SpectrumInit => SpectrumInv
  BY SpectrumConstants DEF SpectrumInit, SpectrumInv, SpectrumOK
<1>2. SpectrumInv /\ [Analyze]_spectrumVars => SpectrumInv'
  <2> SUFFICES ASSUME SpectrumInv, [Analyze]_spectrumVars PROVE SpectrumInv' OBVIOUS
  <2>1. UNCHANGED <<spectrum, inside>> BY DEF Analyze, spectrumVars
  <2>2. SpectrumOK' BY <2>1 DEF SpectrumInv, SpectrumOK
  <2>3. Analysis' = Analysis BY <2>1, AnalysisKept
  <2>4. tone' = tone \/ tone' = Analysis BY DEF Analyze, spectrumVars
  <2> QED BY <2>2, <2>3, <2>4 DEF SpectrumInv
<1>3. SpectrumInv => PumpToneFound
  <2>1. tone = NotAnalyzed => PumpToneFound BY DEF PumpToneFound
  <2> QED BY <2>1, PumpToneOfAnalysis DEF SpectrumInv
<1> QED BY <1>1, <1>2, <1>3, PTL DEF SpectrumSpec
=============================================================================
