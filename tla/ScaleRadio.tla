----------------------------- MODULE ScaleRadio -----------------------------
(***************************************************************************)
(* The Bluetooth radio of the device: PowerManager (main loop task), which *)
(* runs ScaleRadioStateMachine, and BleScaleService's manager task, which  *)
(* owns the NimBLE stack.  They share atomics (the controller state, the   *)
(* request flag, the suspension, the demand) and the command queue.        *)
(*                                                                         *)
(* The main loop is split where it reads or writes shared state: the       *)
(* demand and service snapshot (PmObserve), the controller state (PmUpdate *)
(* and PmResolve), the request (PmRequest), the suspension (PmApply).  The *)
(* manager is split at every atomic it touches.  The connect-mode link is  *)
(* reduced to what serviceState() tells apart: SCANNING and RECONNECTING   *)
(* are one value, SEARCHING.                                               *)
(***************************************************************************)
EXTENDS ScaleRadioStateMachine, Sequences

CONSTANTS
  Policies,       \* the policies the application may select
  MaxEvents,      \* bound on what the user, the display and the scale do
  PromptDrain     \* TRUE: a posted controller command is taken off the queue
                  \* before the 5000 ms timeout (the manager ticks every 100 ms)

ASSUME ScaleRadioAssumption ==
  /\ Policies \subseteq Policy
  /\ MaxEvents \in Nat
  /\ PromptDrain \in BOOLEAN

VARIABLES
  \* PowerManager, main loop task
  machine,          \* _scaleRadio
  pmPc,             \* where update() is
  seen,             \* the part of radioInputs() already read
  request,          \* the action being performed, and whether it was accepted
  screenDimmed,     \* _savingPolicy.isScreenDimmed()
  status,           \* _radioStatus: settled and shouldRun
  \* shared with the manager task
  controller,       \* _controllerState
  requestPending,   \* _controllerRequestPending
  cmdQueue,         \* the controller commands in _cmdQueue
  powerSuspended,   \* _powerSuspended (and _appliedServiceSuspended)
  connectWanted,    \* _connectWanted
  lease,            \* _diagScanDeadlineMs: "None" (0), "Live" or "Lapsed"
  \* BleScaleService, manager task
  mgrPc, desired, mode,
  link,             \* _state
  scanning,         \* the NimBLE scan runs
  client,           \* a NimBLE client exists
  events            \* events left

pmVars   == <<machine, pmPc, seen, request, screenDimmed, status>>
mgrVars  == <<mgrPc, desired, mode, link, scanning, client>>
ctlVars  == <<controller, requestPending, cmdQueue>>
wantVars == <<connectWanted, lease>>
vars     == <<pmVars, mgrVars, ctlVars, wantVars, powerSuspended, events>>

Mode == {"Idle", "Connect", "DiagScan"}
Link == {"OFF", "SEARCHING", "CONNECTING", "READY"}
Lease == {"None", "Live", "Lapsed"}
PmPc  == {"idle", "update", "request", "resolve", "apply"}
MgrPc == {"unstarted", "drain", "clear", "expire", "unlease", "control", "deinit",
          "select", "mode", "run"}

TypeOK ==
  /\ machine \in Machine
  /\ pmPc \in PmPc
  /\ seen \in [service : ServiceState, connectWanted : BOOLEAN,
               diagnosticScanWanted : BOOLEAN]
  /\ request \in [action : Action, accepted : BOOLEAN]
  /\ screenDimmed \in BOOLEAN
  /\ status \in [settled : BOOLEAN, shouldRun : BOOLEAN]
  /\ controller \in ControllerState
  /\ requestPending \in BOOLEAN
  /\ cmdQueue \in Seq({"StopController", "StartController"})
  /\ powerSuspended \in BOOLEAN
  /\ connectWanted \in BOOLEAN
  /\ lease \in Lease
  /\ mgrPc \in MgrPc
  /\ desired \in Mode
  /\ mode \in Mode
  /\ link \in Link
  /\ scanning \in BOOLEAN
  /\ client \in BOOLEAN
  /\ events \in 0..MaxEvents

Init ==
  /\ machine = InitialMachine
  /\ pmPc = "idle"
  /\ seen = [service |-> "Off", connectWanted |-> FALSE,
             diagnosticScanWanted |-> FALSE]
  /\ request = [action |-> "None", accepted |-> FALSE]
  /\ screenDimmed = FALSE
  /\ status = [settled |-> FALSE, shouldRun |-> FALSE]
  /\ controller = "Stopped"
  /\ requestPending = FALSE
  /\ cmdQueue = <<>>
  /\ powerSuspended = FALSE
  /\ connectWanted = FALSE
  /\ lease = "None"
  /\ mgrPc = "unstarted"
  /\ desired = "Idle"
  /\ mode = "Idle"
  /\ link = "OFF"
  /\ scanning = FALSE
  /\ client = FALSE
  /\ events = MaxEvents

IsStarted == mgrPc # "unstarted"

-----------------------------------------------------------------------------
(* Observations. *)

\* Mutant: the link state is passed on without being mapped.
ServiceOf_Raw(l) == l

\* serviceState()
ServiceOf(l) ==
  CASE l = "OFF"        -> "Off"
    [] l = "SEARCHING"  -> "Disconnected"
    [] l = "CONNECTING" -> "Connecting"
    [] l = "READY"      -> "Ready"

DemandAndService == [service |-> ServiceOf(link), connectWanted |-> connectWanted,
                     diagnosticScanWanted |-> lease = "Live"]

RadioInputs(s) == [service |-> s.service, controller |-> controller,
                   screenDimmed |-> screenDimmed,
                   connectWanted |-> s.connectWanted,
                   diagnosticScanWanted |-> s.diagnosticScanWanted]

\* Mutant: a status is settled whenever the controller is at the target.
StatusOf_IgnoresTransition(m) ==
  LET shouldRun == RadioTarget(m.policy, RadioInputs(DemandAndService))
  IN [shouldRun |-> shouldRun,
      settled |-> controller = IF shouldRun THEN "Running" ELSE "Stopped"]

\* refreshRadioStatus()
StatusOf(m) ==
  LET in == RadioInputs(DemandAndService)
      shouldRun == RadioTarget(m.policy, in)
  IN [shouldRun |-> shouldRun,
      settled |-> /\ m.state # "Failed"
                  /\ ~InTransition(m)
                  /\ controller = IF shouldRun THEN "Running" ELSE "Stopped"]

-----------------------------------------------------------------------------
(* PowerManager, on the main loop task. *)

\* BleScaleService::updateStartup() -> begin(): the controller may come up and
\* the task creation still fail, in which case the next attempt starts over.
UpdateStartup ==
  /\ pmPc = "idle" /\ ~IsStarted
  /\ \/ UNCHANGED <<controller, mgrPc>>
     \/ controller' = "Running" /\ UNCHANGED mgrPc
     \/ controller' = "Running" /\ mgrPc' = "drain"
  /\ UNCHANGED <<pmVars, desired, mode, link, scanning, client, requestPending,
                 cmdQueue, wantVars, powerSuspended, events>>

PmObserve ==
  /\ pmPc = "idle" /\ IsStarted
  /\ seen' = DemandAndService
  /\ pmPc' = "update"
  /\ UNCHANGED <<machine, request, screenDimmed, status, mgrVars, ctlVars,
                 wantVars, powerSuspended, events>>

\* applyRadioDecision(): perform the action, or stop when there is none.
Perform(decision) ==
  /\ machine' = decision.machine
  /\ request' = [request EXCEPT !.action = decision.action]
  /\ pmPc' = IF decision.action = "None" THEN "apply" ELSE "request"

PmUpdate ==
  /\ pmPc = "update"
  /\ Perform(Update(machine, RadioInputs(seen)))
  /\ UNCHANGED <<seen, screenDimmed, status, mgrVars, ctlVars, wantVars,
                 powerSuspended, events>>

\* Mutant: the request is posted without taking the request flag.
PostCommand_NoFlag(action) ==
  /\ controller = IF action = "StopController" THEN "Running" ELSE "Stopped"
  /\ cmdQueue' = Append(cmdQueue, action)
  /\ UNCHANGED requestPending

\* requestControllerStop() / requestControllerStart(): refused unless the
\* controller is where the request starts from, no other request is pending and
\* the queue (shared with other commands) has room.
PostCommand(action) ==
  /\ controller = IF action = "StopController" THEN "Running" ELSE "Stopped"
  /\ ~requestPending
  /\ requestPending' = TRUE
  /\ cmdQueue' = Append(cmdQueue, action)

RequestController(action) ==
  \/ PostCommand(action) /\ request' = [action |-> action, accepted |-> TRUE]
  \/ /\ request' = [action |-> action, accepted |-> FALSE]
     /\ UNCHANGED <<requestPending, cmdQueue>>

PmRequest ==
  /\ pmPc = "request"
  /\ RequestController(request.action)
  /\ pmPc' = "resolve"
  /\ UNCHANGED <<machine, seen, screenDimmed, status, controller, mgrVars,
                 wantVars, powerSuspended, events>>

PmResolve ==
  /\ pmPc = "resolve"
  /\ Perform(Resolve(machine, request.action, request.accepted, RadioInputs(seen)))
  /\ UNCHANGED <<seen, screenDimmed, status, mgrVars, ctlVars, wantVars,
                 powerSuspended, events>>

\* applyRadioSuspension() and refreshRadioStatus()
PmApply ==
  /\ pmPc = "apply"
  /\ powerSuspended' = WantsServiceSuspended(machine)
  /\ status' = StatusOf(machine)
  /\ pmPc' = "idle"
  /\ UNCHANGED <<machine, seen, request, screenDimmed, mgrVars, ctlVars,
                 wantVars, events>>

PmNext == PmObserve \/ PmUpdate \/ PmRequest \/ PmResolve \/ PmApply

\* setScaleRadioPolicy(): an ExternalControl handover needs a running controller.
SetScaleRadioPolicy(policy) ==
  /\ pmPc = "idle"
  /\ events > 0
  /\ events' = events - 1
  /\ policy = "ExternalControl" /\ machine.policy # "ExternalControl"
       => controller = "Running"
  /\ PolicyAccepted(machine, policy)
  /\ LET m == SetPolicy(machine, policy)
     IN /\ machine' = m
        /\ powerSuspended' = WantsServiceSuspended(m)
        /\ status' = StatusOf(m)
  /\ UNCHANGED <<pmPc, seen, request, screenDimmed, mgrVars, ctlVars, wantVars>>

\* PowerManager::notifyActivity(): registerActivity() also restores the display.
NotifyUserActivity ==
  /\ pmPc = "idle"
  /\ events > 0
  /\ events' = events - 1
  /\ machine' = NotifyActivity(machine)
  /\ screenDimmed' = FALSE
  /\ UNCHANGED <<pmPc, seen, request, status, mgrVars, ctlVars, wantVars,
                 powerSuspended>>

\* _savingPolicy.update() dims the display after its timeout.
DimScreen ==
  /\ pmPc = "idle" /\ ~screenDimmed
  /\ events > 0
  /\ events' = events - 1
  /\ screenDimmed' = TRUE
  /\ UNCHANGED <<machine, pmPc, seen, request, status, mgrVars, ctlVars,
                 wantVars, powerSuspended>>

\* Under ExternalControl the application drives the controller itself.
AppRequest(action) ==
  /\ pmPc = "idle" /\ IsStarted
  /\ machine.policy = "ExternalControl"
  /\ events > 0
  /\ events' = events - 1
  /\ PostCommand(action)
  /\ UNCHANGED <<pmVars, controller, mgrVars, wantVars, powerSuspended>>

\* nowMs moves on.  Only the machine compares it, at the start of an update().
Tick ==
  /\ pmPc = "idle"
  /\ machine.waited < StageTimeout
  /\ PromptDrain /\ cmdQueue # <<>> => machine.waited < StageTimeout - 1
  /\ machine' = [machine EXCEPT !.waited = @ + 1]
  /\ UNCHANGED <<pmPc, seen, request, screenDimmed, status, mgrVars, ctlVars,
                 wantVars, powerSuspended, events>>

-----------------------------------------------------------------------------
(* Demand, from any task. *)

Want(c, l) ==
  /\ events > 0
  /\ events' = events - 1
  /\ connectWanted' = c /\ lease' = l
  /\ UNCHANGED <<pmVars, mgrVars, ctlVars, powerSuspended>>

Enable        == ~connectWanted /\ Want(TRUE, lease)
Disable       == connectWanted /\ Want(FALSE, lease)
StartDiagScan == lease # "Live" /\ Want(connectWanted, "Live")
StopDiagScan  == lease # "None" /\ Want(connectWanted, "None")
LeaseLapses   == lease = "Live" /\ Want(connectWanted, "Lapsed")

-----------------------------------------------------------------------------
(* BleScaleService::managerLoop(). *)

MgrKeeps == UNCHANGED <<pmVars, wantVars, powerSuspended>>

\* drainCommands(): take a command and act on the controller state ...
MgrDrain ==
  /\ mgrPc = "drain"
  /\ IF cmdQueue = <<>>
     THEN mgrPc' = "expire" /\ UNCHANGED <<controller, cmdQueue>>
     ELSE /\ cmdQueue' = Tail(cmdQueue)
          /\ controller' = CASE Head(cmdQueue) = "StopController" /\ controller = "Running"
                                  -> "Stopping"
                             [] Head(cmdQueue) = "StartController" /\ controller = "Stopped"
                                  -> "Starting"
                             [] OTHER -> controller
          /\ mgrPc' = "clear"
  /\ MgrKeeps
  /\ UNCHANGED <<requestPending, desired, mode, link, scanning, client, events>>

\* ... and only then release the request flag.
MgrClearRequest ==
  /\ mgrPc = "clear"
  /\ requestPending' = FALSE
  /\ mgrPc' = "drain"
  /\ MgrKeeps
  /\ UNCHANGED <<controller, cmdQueue, desired, mode, link, scanning, client, events>>

\* Mutant: lease cleanup sits behind the early return for a stopped controller.
MgrExpireLease_OnlyRunning ==
  /\ mgrPc = "expire"
  /\ mgrPc' = IF lease = "Lapsed" /\ controller = "Running" THEN "unlease" ELSE "control"
  /\ MgrKeeps
  /\ UNCHANGED <<ctlVars, desired, mode, link, scanning, client, events>>

\* expireDiagScanLease(): read the deadline ...
MgrExpireLease ==
  /\ mgrPc = "expire"
  /\ mgrPc' = IF lease = "Lapsed" THEN "unlease" ELSE "control"
  /\ MgrKeeps
  /\ UNCHANGED <<ctlVars, desired, mode, link, scanning, client, events>>

\* Mutant: the deadline is cleared whether or not it was renewed meanwhile.
MgrClearLease_Stores ==
  /\ mgrPc = "unlease"
  /\ lease' = "None"
  /\ mgrPc' = "control"
  /\ UNCHANGED <<pmVars, ctlVars, connectWanted, powerSuspended, desired, mode,
                 link, scanning, client, events>>

\* ... and exchange it for 0 unless a renewal came in between.
MgrClearLease ==
  /\ mgrPc = "unlease"
  /\ lease' = IF lease = "Lapsed" THEN "None" ELSE lease
  /\ mgrPc' = "control"
  /\ UNCHANGED <<pmVars, ctlVars, connectWanted, powerSuspended, desired, mode,
                 link, scanning, client, events>>

\* Mutant: leaving a diagnostic scan does not stop the scan.
ExitMode_LeavesScan(m) ==
  /\ scanning' = IF m = "Connect" THEN FALSE ELSE scanning
  /\ client' = IF m = "Connect" THEN FALSE ELSE client
  /\ link' = IF m = "Connect" THEN "OFF" ELSE link

\* exitMode(): tear the mode's radio use down; Connect also parks the link.
ExitMode(m) ==
  /\ scanning' = IF m = "Idle" THEN scanning ELSE FALSE
  /\ client' = IF m = "Connect" THEN FALSE ELSE client
  /\ link' = IF m = "Connect" THEN "OFF" ELSE link

\* processControllerTransition(), up to the controller being touched: a stopping
\* controller first leaves the mode, even when the service was never suspended.
MgrControl ==
  /\ mgrPc = "control"
  /\ \/ /\ controller = "Running"
        /\ mgrPc' = "select"
        /\ UNCHANGED <<mode, link, scanning, client, controller>>
     \/ /\ controller = "Stopping"
        /\ ExitMode(mode)
        /\ mode' = "Idle"
        /\ mgrPc' = "deinit"
        /\ UNCHANGED controller
     \/ /\ controller = "Starting"
        /\ controller' \in {"Running", "Failed"}
        /\ mgrPc' = "drain"
        /\ UNCHANGED <<mode, link, scanning, client>>
     \/ /\ controller \in {"Stopped", "Failed"}
        /\ mgrPc' = "drain"
        /\ UNCHANGED <<mode, link, scanning, client, controller>>
  /\ MgrKeeps
  /\ UNCHANGED <<requestPending, cmdQueue, desired, events>>

\* NimBLEDevice::deinit() blocks, then the outcome is published.
MgrDeinit ==
  /\ mgrPc = "deinit"
  /\ controller' \in {"Stopped", "Failed"}
  /\ mgrPc' = "drain"
  /\ MgrKeeps
  /\ UNCHANGED <<requestPending, cmdQueue, desired, mode, link, scanning, client,
                 events>>

SelectMode ==
  IF powerSuspended THEN "Idle"
  ELSE IF connectWanted THEN "Connect"
  ELSE IF lease # "None" THEN "DiagScan" ELSE "Idle"

MgrSelect ==
  /\ mgrPc = "select"
  /\ desired' = SelectMode
  /\ mgrPc' = "mode"
  /\ MgrKeeps
  /\ UNCHANGED <<ctlVars, mode, link, scanning, client, events>>

\* The mode change: exitMode(_mode), then enterMode(desired), which for DiagScan
\* tries to start the scan.
MgrSwitchMode ==
  /\ mgrPc = "mode"
  /\ mgrPc' = "run"
  /\ mode' = desired
  /\ IF desired = mode
     THEN UNCHANGED <<link, scanning, client>>
     ELSE IF desired = "DiagScan"
     THEN /\ scanning' \in BOOLEAN
          /\ client' = FALSE
          /\ link' = "OFF"
     ELSE ExitMode(mode)
  /\ MgrKeeps
  /\ UNCHANGED <<ctlVars, desired, events>>

\* runStateMachine(): one advance of the connect-mode link.
LinkOff ==
  /\ link = "OFF"
  /\ \/ link' = "SEARCHING" /\ scanning' = TRUE
     \/ UNCHANGED link /\ scanning' = FALSE
  /\ UNCHANGED <<client, events>>

LinkSearching ==
  /\ link = "SEARCHING"
  /\ \/ /\ events > 0                       \* _foundDevice
        /\ events' = events - 1
        /\ link' = "CONNECTING" /\ scanning' = FALSE
     \/ /\ scanning' \in IF scanning THEN {TRUE} ELSE BOOLEAN
        /\ UNCHANGED <<link, events>>
  /\ UNCHANGED client

LinkConnecting ==
  /\ link = "CONNECTING"
  /\ \/ link' = "READY" /\ client' = TRUE
     \/ link' = "SEARCHING" /\ client' = FALSE
  /\ UNCHANGED <<scanning, events>>

LinkReady ==
  /\ link = "READY"
  /\ \/ UNCHANGED <<link, client, events>>
     \/ /\ events > 0                       \* a disconnect, or a silent stream
        /\ events' = events - 1
        /\ link' = "SEARCHING" /\ client' = FALSE
  /\ UNCHANGED scanning

MgrRun ==
  /\ mgrPc = "run"
  /\ mgrPc' = "drain"
  /\ \/ mode = "Idle" /\ UNCHANGED <<link, scanning, client, events>>
     \/ /\ mode = "DiagScan"
        /\ scanning' \in IF scanning THEN {TRUE} ELSE BOOLEAN
        /\ UNCHANGED <<link, client, events>>
     \/ mode = "Connect" /\ (LinkOff \/ LinkSearching \/ LinkConnecting \/ LinkReady)
  /\ MgrKeeps
  /\ UNCHANGED <<ctlVars, desired, mode>>

\* A scan window or a diagnostic slice ends by itself.
ScanElapses ==
  /\ scanning
  /\ scanning' = FALSE
  /\ UNCHANGED <<pmVars, mgrPc, desired, mode, link, client, ctlVars, wantVars,
                 powerSuspended, events>>

MgrNext ==
  \/ MgrDrain \/ MgrClearRequest \/ MgrExpireLease \/ MgrClearLease
  \/ MgrControl \/ MgrDeinit \/ MgrSelect \/ MgrSwitchMode \/ MgrRun

-----------------------------------------------------------------------------

Next ==
  \/ UpdateStartup \/ PmNext
  \/ \E p \in Policies : SetScaleRadioPolicy(p)
  \/ NotifyUserActivity \/ DimScreen \/ Tick
  \/ \E a \in {"StopController", "StartController"} : AppRequest(a)
  \/ Enable \/ Disable \/ StartDiagScan \/ StopDiagScan \/ LeaseLapses
  \/ MgrNext \/ ScanElapses

Spec == Init /\ [][Next]_vars

\* loop() keeps calling update(); the manager task keeps being scheduled.
Fairness == WF_vars(PmNext) /\ WF_vars(MgrNext)

FairSpec == Spec /\ Fairness

-----------------------------------------------------------------------------
(* Safety. *)

\* NimBLE is shut down (deinit() in processControllerTransition) only after the
\* active mode has been left: no scan, no client, the link parked in OFF and the
\* mode Idle from the moment deinit() may run until the controller runs again.
\* The machine asks for a stop on a snapshot that may be stale, so this cannot
\* rest on the suspension alone.
RadioReleasedBeforeDeinit ==
  (mgrPc = "deinit" \/ controller \in {"Stopped", "Starting", "Failed"}) =>
    /\ mode = "Idle"
    /\ link = "OFF"
    /\ ~scanning
    /\ ~client

\* Between two calls of update() the machine is in Stopping or Starting exactly
\* when it waits for that transition to land: it can neither hang in a state
\* whose update() does nothing nor find ControllerTransition::begin() refusing
\* a new wait because an old one was left behind.
WaitMatchesState ==
  pmPc \in {"idle", "apply"} =>
    machine.wait = CASE machine.state = "Stopping" -> "Stopped"
                     [] machine.state = "Starting" -> "Running"
                     [] OTHER -> "Inactive"

\* _controllerRequestPending admits one controller command at a time, so the
\* queue never holds a start behind a stop; the flag outlives the command only
\* while the manager is acting on it.
RequestFlagGuardsQueue ==
  /\ Len(cmdQueue) <= 1
  /\ requestPending <=> (cmdQueue # <<>> \/ mgrPc = "clear")

\* "Nothing else moves the controller" (updateMonitoring): when the manager takes
\* a posted command off the queue within the timeout, a command is queued only
\* while the machine is waiting for it.  No stop is left over to hit a radio the
\* machine believes to be running.
NoStrayRequest ==
  (PromptDrain /\ cmdQueue # <<>> /\ machine.policy # "ExternalControl") =>
    /\ machine.state = IF Head(cmdQueue) = "StopController" THEN "Stopping"
                                                            ELSE "Starting"
    /\ pmPc # "resolve" => machine.wait # "Inactive"

\* The ExternalControl handover strands nothing the machine was asserting: the
\* service is not suspended and no transition is being waited for, now or later.
HandoverStrandsNothing ==
  machine.policy = "ExternalControl" =>
    /\ ~powerSuspended
    /\ machine.state = "Monitoring"
    /\ machine.wait = "Inactive"

\* A settled status cannot go stale: once _radioStatus says settled, the
\* controller stays where the status says until the machine acts again.
SettledStatusHolds ==
  ( /\ PromptDrain
    /\ pmPc = "idle"
    /\ machine.policy # "ExternalControl"
    /\ status.settled
    /\ status.shouldRun \/ machine.state = "ControllerStopped" ) =>
      controller = IF status.shouldRun THEN "Running" ELSE "Stopped"

\* The manager never ends a lease that is live: a renewal that arrives between
\* reading an expired deadline and clearing it keeps the diagnostic scan.
RenewedLeaseSurvives ==
  [][lease = "Live" /\ lease' = "None" => mgrPc' = mgrPc]_vars

-----------------------------------------------------------------------------
(* Liveness, when the user, the display and the scale leave the inputs alone
   (events run out). *)

ShouldRunNow == RadioTarget(machine.policy, RadioInputs(DemandAndService))

Settled ==
  IF ShouldRunNow
  THEN controller = "Running" /\ machine.state = "Monitoring" /\ ~powerSuspended
  ELSE controller = "Stopped" /\ machine.state = "ControllerStopped" /\ powerSuspended

\* A machine may rest in Failed only when a retry is what it would take: the
\* controller has failed for good, or is not where the policy wants it.
FailedForAReason ==
  /\ machine.state = "Failed"
  /\ controller = IF ShouldRunNow THEN "Stopped" ELSE "Running"
  /\ ~machine.activityPending

\* With the inputs held still the radio settles where radioTarget() asks, with
\* the suspension to match, and does not cycle; or it rests in Failed for a
\* reason.  (test_scale_radio_convergence.cpp checks this for an atomic
\* controller; here the manager task interleaves.)
Convergence ==
  <>[](IsStarted /\ machine.policy # "ExternalControl" =>
         Settled \/ FailedForAReason \/ controller = "Failed")

\* An expired diagnostic lease is always cleared, also while the controller is
\* stopped or failed ("Otherwise an expired deadline can appear live again after
\* the signed millis() half-wrap").
LapsedLeaseIsCleared == (lease = "Lapsed" /\ IsStarted) ~> (lease # "Lapsed")

=============================================================================
