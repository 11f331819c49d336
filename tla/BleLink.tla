------------------------------ MODULE BleLink ------------------------------
(***************************************************************************)
(* The scale link: Connect mode of BleScaleService, on three tasks.        *)
(*                                                                         *)
(* The manager task runs a tick: drain the commands, choose a mode, run    *)
(* it.  A connection attempt blocks it in NimBLE calls, during which the   *)
(* BLE host task keeps delivering adverts, notifications and disconnects,  *)
(* one callback at a time; a callback that has passed its check can still  *)
(* be on its way to its store when the manager tears the link down.  The   *)
(* application enables, disables and tares from its own task.              *)
(*                                                                         *)
(* The controller stays up here, and a demand is to connect or not to:      *)
(* ScaleRadio models the stop and start, the suspension and the lease of   *)
(* the diagnostic scan, ScaleDiagnostics its table and the message log.  A   *)
(* frame arrives in two notifications, which is enough for one to be left  *)
(* half received; the bytes are AcaiaV2Codec's.                             *)
(***************************************************************************)
EXTENDS Naturals, Sequences, Faults

CONSTANTS
  Addrs,              \* addresses under which a supported scale may advertise
  QueueDepth,         \* CMD_QUEUE_DEPTH
  MaxAttempts,        \* MAX_RESUBSCRIBE_ATTEMPTS
  MaxEvents           \* bound: requests of the application

ASSUME BleAssumption == Addrs # {}

NoClient  == [peer |-> "none", up |-> FALSE, mute |-> FALSE, sub |-> 0]
NoWeight  == [first |-> 0, last |-> 0]
NoBattery == [of |-> "none", addr |-> "none"]
NoTare    == [asked |-> 0, sent |-> 0]
Free      == [at |-> "free", addr |-> "none", gen |-> 0]
SearchStates == {"SCANNING", "RECONNECTING"}

VARIABLES
  connectWanted,                            \* demand, written by other tasks
  cmds,                                     \* _cmdQueue
  pc,                                       \* the manager's place in its tick
  mode, state, epoch, hadReady,
  attempts, heard,                          \* re-subscriptions; weights since the arm
  found, target, disconnectFlag,            \* edges between host and manager
  issued, accepted,                         \* generations of the subscription
  weight, battery,                          \* the snapshot
  scan, client, goodbyes,                   \* NimBLE: scan, client, disconnect callbacks to come
  hostAt, rxHost, half,                     \* the host's callback, its receiver
  onAir,                                    \* the address the scale uses now
  tared,                                    \* observation: link a tare was asked for, link it reached
  events                                    \* bound

manager == <<pc, mode, hadReady, attempts>>
demand == <<connectWanted, cmds, events>>
readings == <<state, epoch, weight, battery>>
edges == <<found, disconnectFlag, accepted>>
host == <<hostAt, rxHost, half, heard, target>>
nimble == <<scan, client, goodbyes, issued>>
bounds == <<onAir, faults>>
vars == <<manager, demand, readings, edges, host, nimble, bounds, tared>>

LinkUp == client.up
Sub == client.sub

Init ==
  /\ onAir = CHOOSE a \in Addrs : TRUE   \* the addresses are interchangeable
  /\ connectWanted = FALSE /\ cmds = <<>> /\ events = 0
  /\ pc = "drain" /\ mode = "Idle" /\ hadReady = FALSE
  /\ attempts = 0
  /\ state = "OFF" /\ epoch = 0 /\ weight = NoWeight /\ battery = NoBattery
  /\ found = FALSE /\ disconnectFlag = FALSE /\ accepted = 0
  /\ hostAt = Free /\ rxHost = 0 /\ half = 0 /\ heard = FALSE /\ target = onAir
  /\ scan = "off" /\ client = NoClient /\ goodbyes = 0 /\ issued = 0
  /\ faults = 0 /\ tared = NoTare

----------------------------------------------------------------------------
(* Pieces of the manager's work. *)

\* A battery reading of another scale is dropped when the link becomes ready.
BatteryOnReady == IF battery # NoBattery /\ battery.addr # target THEN NoBattery ELSE battery

\* transition(): the snapshot fields change together, under _mutex.
Transition(next) ==
  /\ state' = next
  /\ epoch' = IF next = "READY" /\ state # "READY" THEN epoch + 1 ELSE epoch
  /\ weight' = IF next = "OFF" \/ (state = "READY" /\ next # "READY") THEN NoWeight ELSE weight
  /\ battery' = IF next = "OFF" THEN NoBattery
                ELSE IF next = "READY" /\ state # "READY" THEN BatteryOnReady ELSE battery

\* teardownClient(): deleteClient() of a live client disconnects it, and the
\* callback comes later.
X_KeepsFound ==
  /\ accepted' = 0 /\ client' = NoClient /\ found' = found
  /\ goodbyes' = IF LinkUp THEN goodbyes + 1 ELSE goodbyes
Teardown ==
  /\ accepted' = 0 /\ client' = NoClient /\ found' = FALSE
  /\ goodbyes' = IF LinkUp THEN goodbyes + 1 ELSE goodbyes

\* startScan(): NimBLE may refuse.
StartScan ==
  \E ok \in BOOLEAN : Ok(ok) /\ Count({ok}) /\ scan' = IF ok THEN "on" ELSE "off"

\* selectMode(), reduced to the demand to connect.
SelectMode == IF connectWanted THEN "Connect" ELSE "Idle"

\* The command queue is empty when the mode is chosen; a mode that stays is run
\* in the same breath, a new one after it was entered.
Choosing == pc = "drain" /\ cmds = <<>>
Running(m) == mode = m /\ (pc = "run" \/ (Choosing /\ SelectMode = m))

----------------------------------------------------------------------------
(* The manager: commands and modes. *)

X_AnyEpoch(cmd) == mode = "Connect" /\ state = "READY"
TareIsCurrent(cmd) == mode = "Connect" /\ state = "READY" /\ cmd.epoch = epoch

DrainTare ==
  /\ pc = "drain" /\ cmds # <<>>
  /\ cmds' = Tail(cmds)
  /\ tared' = IF TareIsCurrent(Head(cmds)) THEN [asked |-> Head(cmds).link, sent |-> Sub] ELSE tared
  /\ UNCHANGED <<manager, connectWanted, events, readings, edges, host, nimble, bounds>>

\* enterMode(Connect), from Idle.
EnterConnect ==
  /\ Choosing /\ mode = "Idle" /\ SelectMode = "Connect"
  /\ mode' = "Connect" /\ pc' = "run"
  /\ found' = FALSE /\ hadReady' = FALSE
  /\ UNCHANGED <<attempts, demand, readings, disconnectFlag, accepted, host, nimble,
                 bounds, tared>>

\* exitMode(Connect) in two steps: the teardown, then the rest.
LeaveConnect ==
  /\ Choosing /\ mode = "Connect" /\ SelectMode = "Idle"
  /\ Teardown
  /\ pc' = "leave"
  /\ UNCHANGED <<mode, hadReady, attempts, demand, readings, disconnectFlag,
                 host, scan, issued, bounds, tared>>
LeftConnect ==
  /\ pc = "leave"
  /\ mode' = "Idle" /\ pc' = "drain"
  /\ scan' = "off" /\ found' = FALSE
  /\ Transition("OFF")
  /\ UNCHANGED <<hadReady, attempts, demand, disconnectFlag, accepted, host,
                 client, goodbyes, issued, bounds, tared>>

RunIdle == Running("Idle") /\ UNCHANGED vars

----------------------------------------------------------------------------
(* The manager: runStateMachine(). *)

RunOff ==
  /\ Running("Connect") /\ state = "OFF"
  /\ found' = FALSE /\ hadReady' = FALSE
  /\ StartScan
  /\ IF scan' = "off" THEN UNCHANGED readings ELSE Transition("SCANNING")
  /\ pc' = "drain"
  /\ UNCHANGED <<mode, attempts, demand, disconnectFlag, accepted, host,
                 client, goodbyes, issued, onAir, tared>>

RunFound ==
  /\ Running("Connect") /\ state \in SearchStates /\ found
  /\ scan' = "off"
  /\ Transition("CONNECTING")
  /\ pc' = "drain"
  /\ UNCHANGED <<mode, hadReady, attempts, demand, edges, host,
                 client, goodbyes, issued, bounds, tared>>

\* A scan that is over is started again: the policy in use has no pause.
RunSearch ==
  /\ Running("Connect") /\ state \in SearchStates /\ ~found
  /\ IF scan = "on" THEN UNCHANGED <<scan, faults>> ELSE StartScan
  /\ pc' = "drain"
  /\ UNCHANGED <<mode, hadReady, attempts, demand, readings, edges, host,
                 client, goodbyes, issued, onAir, tared>>

\* CONNECTING, first part: the disconnect edge is cleared and the call begins.
\* The callback of an earlier client that is not in by now counts as a
\* failure: it will drop the new link, whose own callback may be late again.
RunConnecting ==
  /\ Running("Connect") /\ state = "CONNECTING"
  /\ disconnectFlag' = FALSE
  /\ Ok(goodbyes = 0) /\ Count({goodbyes = 0})
  /\ pc' = "connect"
  /\ UNCHANGED <<mode, hadReady, attempts, demand, readings, found, accepted,
                 host, nimble, onAir, tared>>

\* tryConnect(): the host task has to carry it out, so no callback is halfway.
\* A scale may accept the link and send everything but weights.
TryConnect ==
  /\ pc = "connect" /\ hostAt = Free
  /\ \E ok, mute \in BOOLEAN :
       /\ (ok => target = onAir) /\ (mute => ok)
       /\ LET fine == (ok \/ target # onAir) /\ ~mute IN Ok(fine) /\ Count({fine})
       /\ client' = IF ok THEN [peer |-> target, up |-> TRUE, mute |-> mute, sub |-> 0] ELSE client
       /\ pc' = IF ok THEN "subscribe" ELSE "failed"
  /\ UNCHANGED <<mode, hadReady, attempts, demand, readings, edges, host,
                 scan, goodbyes, issued, onAir, tared>>

\* An acknowledged GATT exchange: it fails on a dead link, and may on a live one.
Acked(ok) == (ok => LinkUp) /\ Ok(ok \/ ~LinkUp) /\ Count({ok \/ ~LinkUp})

\* doHandshake(): the reading is cleared and a new generation accepted before
\* the subscription that will bear it.
Subscribe ==
  /\ pc = "subscribe"
  /\ weight' = NoWeight
  /\ \E ok \in BOOLEAN :
       /\ Acked(ok)
       /\ issued' = issued + 1
       /\ accepted' = IF ok THEN issued' ELSE 0
       /\ client' = IF ok THEN [client EXCEPT !.sub = issued'] ELSE client
       /\ pc' = IF ok THEN "identify" ELSE "failed"
  /\ UNCHANGED <<mode, hadReady, attempts, demand, state, epoch, battery, found,
                 disconnectFlag, host, scan, goodbyes, onAir, tared>>

\* identify and event-subscribe, both acknowledged, and the link is ready.
Identify ==
  /\ pc = "identify"
  /\ \E ok \in BOOLEAN :
       /\ Acked(ok)
       /\ accepted' = IF ok THEN accepted ELSE 0
       /\ pc' = IF ok THEN "drain" ELSE "failed"
       /\ IF ok
          THEN Transition("READY") /\ hadReady' = TRUE /\ attempts' = 0 /\ heard' = FALSE
          ELSE UNCHANGED <<readings, hadReady, attempts, heard>>
  /\ UNCHANGED <<mode, demand, found, disconnectFlag, hostAt, rxHost, half, target, nimble, onAir,
                 tared>>

Failed ==
  /\ pc = "failed"
  /\ Teardown
  /\ pc' = "fallback"
  /\ UNCHANGED <<mode, hadReady, attempts, demand, readings, disconnectFlag,
                 host, scan, issued, bounds, tared>>
Fallback ==
  /\ pc = "fallback"
  /\ Transition(IF hadReady THEN "RECONNECTING" ELSE "SCANNING")
  /\ pc' = "drain"
  /\ UNCHANGED <<mode, hadReady, attempts, demand, edges, host, nimble, bounds,
                 tared>>

\* READY: a disconnect, or a silent stream whose retries are used up.
Lost == disconnectFlag \/ (~heard /\ attempts = MaxAttempts)
RunLost ==
  /\ Running("Connect") /\ state = "READY"
  /\ Lost
  /\ disconnectFlag' = FALSE
  /\ Teardown
  /\ pc' = "fallback"
  /\ UNCHANGED <<mode, hadReady, attempts, demand, readings,
                 host, scan, issued, bounds, tared>>
\* READY otherwise.  RESUBSCRIBE_PERIOD_MS passes without a weight on a dead
\* link, and on a live one when the scale sends none.
RunReady ==
  /\ Running("Connect") /\ state = "READY" /\ ~Lost
  /\ attempts' = IF heard \/ (LinkUp /\ ~client.mute) THEN attempts ELSE attempts + 1
  /\ pc' = "drain"
  /\ UNCHANGED <<mode, hadReady, demand, readings, edges, host, nimble, bounds,
                 tared>>

Manager ==
  \/ DrainTare \/ EnterConnect \/ LeaveConnect \/ LeftConnect \/ RunIdle
  \/ RunOff \/ RunFound \/ RunSearch \/ RunConnecting \/ RunLost \/ RunReady
  \/ TryConnect \/ Subscribe \/ Identify \/ Failed \/ Fallback

----------------------------------------------------------------------------
(* The BLE host task: one callback at a time, each a check and then a store. *)

\* onResult(): a match is published by writing the address, then the edge.
HostAdvert ==
  /\ hostAt = Free /\ scan # "off"
  /\ ~found
  /\ hostAt' = [at |-> "match", addr |-> onAir, gen |-> 0]
  /\ UNCHANGED <<manager, demand, readings, edges, rxHost, half, heard, target, nimble, bounds,
                 tared>>
HostMatch ==
  /\ hostAt.at = "match"
  /\ hostAt' = Free /\ target' = hostAt.addr /\ found' = TRUE
  /\ UNCHANGED <<manager, demand, readings, disconnectFlag, accepted, rxHost, half, heard, nimble,
                 bounds, tared>>

\* onNotify(): the generation of the subscription is checked, the receiver
\* starts over on the first notification of a new one, and keeps the first
\* half of a frame.  What the second half brings is stored later.
X_KeepsReceiver(gen) == half
ReceiverOf(gen) == IF rxHost = gen THEN half ELSE 0
HostNotify ==
  /\ hostAt = Free /\ LinkUp /\ Sub # 0 /\ Sub = accepted
  /\ rxHost' = Sub
  /\ IF ReceiverOf(Sub) = 0
     THEN half' = Sub /\ UNCHANGED hostAt
     ELSE half' = ReceiverOf(Sub) /\ hostAt' = [at |-> "notify", addr |-> client.peer, gen |-> Sub]
  /\ UNCHANGED <<manager, demand, readings, edges, heard, target, nimble, bounds, tared>>

\* onEvent(): a scale that sends no weights still sends its battery.
HostWeight ==
  /\ hostAt.at = "notify"
  /\ LinkUp => ~client.mute
  /\ weight' = [first |-> half, last |-> hostAt.gen]
  /\ heard' = TRUE
  /\ half' = 0 /\ hostAt' = Free
  /\ UNCHANGED <<manager, demand, state, epoch, battery, edges, rxHost, target, nimble, bounds,
                 tared>>
HostBattery ==
  /\ hostAt.at = "notify"
  /\ battery' = [of |-> hostAt.addr, addr |-> target]
  /\ half' = 0 /\ hostAt' = Free
  /\ UNCHANGED <<manager, demand, state, epoch, weight, edges, rxHost, heard, target, nimble, bounds,
                 tared>>

\* onDisconnect(), of whichever client.
HostGoodbye ==
  /\ hostAt = Free /\ goodbyes > 0
  /\ goodbyes' = goodbyes - 1 /\ disconnectFlag' = TRUE
  /\ UNCHANGED <<manager, demand, readings, found, accepted, host, scan, client, issued, bounds,
                 tared>>

----------------------------------------------------------------------------
(* The radio and the scale. *)

ScanEnds ==
  /\ scan # "off"
  /\ scan' = "off"
  /\ UNCHANGED <<manager, demand, readings, edges, host, client, goodbyes, issued, bounds, tared>>
LinkDrops ==
  /\ LinkUp /\ Fails
  /\ client' = [client EXCEPT !.up = FALSE] /\ goodbyes' = goodbyes + 1
  /\ UNCHANGED <<manager, demand, readings, edges, host, scan, issued, onAir, tared>>
\* The scale comes back under another address, or another scale takes its place.
AddressChanges ==
  /\ ~LinkUp /\ Fails
  /\ \E a \in Addrs \ {onAir} : onAir' = a
  /\ UNCHANGED <<manager, demand, readings, edges, host, nimble, tared>>

----------------------------------------------------------------------------
(* The application, the power policy and the web diagnostics. *)

Event == events < MaxEvents /\ events' = events + 1
Demand ==
  /\ Event
  /\ connectWanted' = ~connectWanted
  /\ UNCHANGED <<cmds, manager, readings, edges, host, nimble, bounds, tared>>
RequestTare ==
  /\ Event
  /\ Len(cmds) < QueueDepth
  /\ cmds' = Append(cmds, [epoch |-> epoch, link |-> IF state = "READY" THEN Sub ELSE 0])
  /\ UNCHANGED <<connectWanted, manager, readings, edges, host, nimble, bounds, tared>>

Environment == ScanEnds \/ LinkDrops \/ AddressChanges \/ Demand \/ RequestTare
HostStep == HostMatch \/ HostWeight \/ HostBattery \/ HostGoodbye
Next == Manager \/ HostStep \/ HostAdvert \/ HostNotify \/ Environment
Spec == Init /\ [][Next]_vars

\* The two tasks run; NimBLE delivers the notifications of a live link, the
\* weights among them; an advert is heard in some of the scans.
FairSpec ==
  /\ Spec /\ WF_vars(Manager) /\ WF_vars(HostStep) /\ WF_vars(HostNotify)
  /\ SF_vars(HostWeight) /\ SF_vars(HostAdvert) /\ SF_vars(HostGoodbye)

----------------------------------------------------------------------------
(* The weight shown while the link is ready was received whole, over this
   link: a store that was on its way when an earlier link was torn down is
   cleared before the next can become ready (doHandshake, onNotify). *)
ReadyWeightIsLive ==
  state = "READY" /\ weight # NoWeight /\ Sub # 0 => weight = [first |-> Sub, last |-> Sub]

(* The battery level shown while the link is ready is of the scale it leads
   to, and every level is filed under the scale it came from
   (transition, onEvent). *)
BatteryIsOfScale ==
  /\ battery # NoBattery => battery.of = battery.addr
  /\ state = "READY" /\ battery # NoBattery /\ client # NoClient => battery.of = client.peer

(* A tare reaches the link it was asked for on, never a later one
   (requestTare, drainCommands). *)
TareOnAskedLink == tared # NoTare => tared.asked = tared.sent

(* While the application keeps wanting the scale, and failures end, the
   service ends up ready on a live link that sends weights: it leaves a dead
   or silent one, and does not keep dialling an address the scale has left
   (runStateMachine, teardownClient). *)
Streaming == state = "READY" /\ LinkUp /\ heard
ScaleIsReached == <>[]connectWanted => <>[]Streaming
=============================================================================
