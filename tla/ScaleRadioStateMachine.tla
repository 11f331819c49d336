----------------------- MODULE ScaleRadioStateMachine -----------------------
(***************************************************************************)
(* power/ScaleRadioStateMachine.{h,cpp} and ble/ControllerTransition.h:    *)
(* the pure decision function that keeps the Bluetooth controller in the   *)
(* state the selected policy asks for.  The class holds no hardware; it    *)
(* maps one set of observations (Inputs) to a new machine and at most one  *)
(* Action, and that is how it is written here.                             *)
(*                                                                         *)
(* Time is abstracted to the machine's field `waited`: the number of ticks *)
(* (of 5000 / StageTimeout ms) since _stageStartedMs or, once a transition *)
(* is awaited, since ControllerTransition::_startedMs.  The two timestamps *)
(* are never needed at the same time.  Events (log lines) are left out.    *)
(***************************************************************************)
EXTENDS Naturals

CONSTANT StageTimeout   \* kServiceStopTimeoutMs and kDefaultTimeoutMs, in ticks

ASSUME StageTimeoutAssumption == StageTimeout \in Nat \ {0}

ServiceState    == {"Off", "Disconnected", "Connecting", "Ready"}
ControllerState == {"Stopped", "Starting", "Running", "Stopping", "Failed"}
Policy          == {"Demand", "ForceRunning", "ForceStopped", "ExternalControl"}
State           == {"Monitoring", "Suspending", "Stopping", "ControllerStopped",
                    "Starting", "Failed"}
Action          == {"None", "StopController", "StartController"}

\* The target of a pending ControllerTransition, or Inactive.  Succeeded, Failed
\* and TimedOut are consumed (reset) in the call that produces them.
Wait == {"Inactive", "Running", "Stopped"}

Inputs == [service : ServiceState, controller : ControllerState,
           screenDimmed : BOOLEAN, connectWanted : BOOLEAN,
           diagnosticScanWanted : BOOLEAN]

Machine == [state : State, policy : Policy, activityPending : BOOLEAN,
            wait : Wait, waited : 0..StageTimeout]

InitialMachine == [state |-> "Monitoring", policy |-> "Demand",
                   activityPending |-> FALSE, wait |-> "Inactive", waited |-> 0]

-----------------------------------------------------------------------------
(* What the policy asks for. *)

ControllerShouldRun(in) ==
  \/ in.diagnosticScanWanted
  \/ /\ in.connectWanted
     /\ ~in.screenDimmed \/ in.service \in {"Ready", "Connecting"}

RadioTarget(policy, in) ==
  \/ policy = "ForceRunning"
  \/ policy = "Demand" /\ ControllerShouldRun(in)

WantsServiceSuspended(m) ==
  m.state \in {"Suspending", "Stopping", "ControllerStopped", "Starting"}

InTransition(m) == m.state \in {"Suspending", "Stopping", "Starting"}

-----------------------------------------------------------------------------
(* Decisions: a new machine and the action the caller has to perform.       *)

Decision(m, action) == [machine |-> m, action |-> action]
Stay(m)             == Decision(m, "None")
Goto(m, state)      == Decision([m EXCEPT !.state = state], "None")

\* fail(): abandon the wait, forget activity, stay put until a trigger.
Fail(m) ==
  Decision([m EXCEPT !.state = "Failed", !.wait = "Inactive",
                     !.activityPending = FALSE], "None")

\* Mutant: the request is resolved without starting to wait for its landing.
Await_NoBegin(m, target, state) ==
  Decision([m EXCEPT !.state = state, !.waited = 0], "None")

\* ControllerTransition::begin() refuses while a wait is pending, and the caller
\* turns the refusal into a failure.
Await(m, target, state) ==
  IF m.wait # "Inactive"
  THEN Fail(m)
  ELSE Decision([m EXCEPT !.state = state, !.wait = target, !.waited = 0], "None")

BeginControllerStop(m, in) ==
  CASE in.controller = "Stopped"              -> Goto(m, "ControllerStopped")
    [] in.controller \in {"Failed", "Starting"} -> Fail(m)
    [] in.controller = "Running"  ->
         Decision([m EXCEPT !.state = "Stopping"], "StopController")
    [] in.controller = "Stopping" -> Await(m, "Stopped", "Stopping")

BeginControllerStart(m, in) ==
  LET n == [m EXCEPT !.activityPending = FALSE]
  IN CASE in.controller = "Failed"   -> Fail(n)
       [] in.controller = "Starting" -> Await(n, "Running", "Starting")
       [] OTHER -> Decision([n EXCEPT !.state = "Starting"], "StartController")

\* ControllerTransition::update() and what the machine does with its result.
AdvanceTransition(m, in) ==
  LET landed == in.controller = m.wait
      done   == [m EXCEPT !.wait = "Inactive"]
  IN CASE in.controller = "Failed" -> Fail(m)
       [] landed /\ m.state = "Starting" ->
            Decision([done EXCEPT !.state = "Monitoring",
                                  !.activityPending = FALSE], "None")
       [] landed /\ m.state # "Starting" -> Goto(done, "ControllerStopped")
       [] in.controller # "Failed" /\ ~landed /\ m.waited >= StageTimeout -> Fail(m)
       [] OTHER -> Stay(m)

UpdateMonitoring(m, in, shouldRun) ==
  CASE in.controller = "Stopped" -> Goto(m, "ControllerStopped")
    [] in.controller = "Failed"  -> Fail(m)
    [] in.controller = "Running" /\ ~shouldRun ->
         Decision([m EXCEPT !.state = "Suspending", !.waited = 0], "None")
    [] OTHER -> Stay(m)

UpdateSuspending(m, in, shouldRun) ==
  CASE shouldRun -> Goto(m, "Monitoring")
    [] ~shouldRun /\ in.service = "Off" -> BeginControllerStop(m, in)
    [] ~shouldRun /\ in.service # "Off" /\ m.waited >= StageTimeout -> Fail(m)
    [] OTHER -> Stay(m)

UpdateControllerStopped(m, in, shouldRun) ==
  CASE in.controller = "Running" -> Goto(m, "Monitoring")
    [] in.controller # "Running" /\ shouldRun -> BeginControllerStart(m, in)
    [] OTHER -> Stay(m)

\* Mutant: leaving Failed is possible only for a retry, so a machine whose
\* observation already satisfies the policy stays failed.
UpdateFailed_RetryOnly(m, in, shouldRun) ==
  IF in.controller \in {"Running", "Stopped"} /\ m.activityPending
  THEN Goto(m, IF in.controller = "Running" THEN "Monitoring" ELSE "ControllerStopped")
  ELSE Stay(m)

\* Failed is left when there is nothing to retry, or for one retry per event.
UpdateFailed(m, in, shouldRun) ==
  LET running == in.controller = "Running"
      stopped == in.controller = "Stopped"
  IN IF (running \/ stopped) /\ (running = shouldRun \/ m.activityPending)
     THEN Goto(m, IF running THEN "Monitoring" ELSE "ControllerStopped")
     ELSE Stay(m)

\* Mutant: a stop is abandoned as soon as the radio is wanted again.
Update_AbandonsStop(m, in) ==
  LET shouldRun == RadioTarget(m.policy, in)
  IN CASE m.state = "Stopping" /\ shouldRun ->
            Decision([m EXCEPT !.state = "Monitoring", !.wait = "Inactive"], "None")
       [] m.state \in {"Stopping", "Starting"} /\ ~(m.state = "Stopping" /\ shouldRun) ->
            AdvanceTransition(m, in)
       [] m.state = "Monitoring" -> UpdateMonitoring(m, in, shouldRun)
       [] m.state = "Suspending" -> UpdateSuspending(m, in, shouldRun)
       [] m.state = "ControllerStopped" -> UpdateControllerStopped(m, in, shouldRun)
       [] m.state = "Failed" -> UpdateFailed(m, in, shouldRun)

Update(m, in) ==
  LET shouldRun == RadioTarget(m.policy, in)
  IN CASE m.policy = "ExternalControl" -> Stay(m)
       [] m.policy # "ExternalControl" /\ m.state \in {"Stopping", "Starting"} ->
            IF m.wait # "Inactive" THEN AdvanceTransition(m, in) ELSE Stay(m)
       [] m.policy # "ExternalControl" /\ m.state = "Monitoring" ->
            UpdateMonitoring(m, in, shouldRun)
       [] m.policy # "ExternalControl" /\ m.state = "Suspending" ->
            UpdateSuspending(m, in, shouldRun)
       [] m.policy # "ExternalControl" /\ m.state = "ControllerStopped" ->
            UpdateControllerStopped(m, in, shouldRun)
       [] m.policy # "ExternalControl" /\ m.state = "Failed" ->
            UpdateFailed(m, in, shouldRun)

\* The immediate result of a request, judged on fresh observations.
ResolveStop(m, accepted, in) ==
  CASE in.controller = "Stopped" -> Goto(m, "ControllerStopped")
    [] in.controller = "Failed"  -> Fail(m)
    [] in.controller = "Stopping" -> Await(m, "Stopped", "Stopping")
    [] in.controller \in {"Running", "Starting"} ->
         IF accepted THEN Await(m, "Stopped", "Stopping") ELSE Fail(m)

ResolveStart(m, accepted, in) ==
  CASE in.controller = "Running" -> Goto(m, "Monitoring")
    [] in.controller = "Failed"  -> Fail(m)
    [] in.controller = "Starting" -> Await(m, "Running", "Starting")
    [] in.controller \in {"Stopped", "Stopping"} ->
         IF accepted THEN Await(m, "Running", "Starting") ELSE Fail(m)

Resolve(m, action, accepted, in) ==
  IF action = "StopController" THEN ResolveStop(m, accepted, in)
                               ELSE ResolveStart(m, accepted, in)

-----------------------------------------------------------------------------
(* Requests from the application. *)

NotifyActivity(m) == [m EXCEPT !.activityPending = TRUE]

\* Mutant: the handover is granted whatever the machine is asserting.
PolicyAccepted_Unchecked(m, policy) ==
  \/ policy = m.policy
  \/ m.policy # "ExternalControl"

\* setPolicy() answers false and changes nothing when ExternalControl would be
\* left, or entered while the machine is still asserting something.
PolicyAccepted(m, policy) ==
  \/ policy = m.policy
  \/ /\ m.policy # "ExternalControl"
     /\ policy = "ExternalControl" =>
          ~(InTransition(m) \/ m.state = "Failed" \/ WantsServiceSuspended(m))

SetPolicy(m, policy) ==
  IF policy = m.policy THEN m
  ELSE [m EXCEPT !.policy = policy, !.activityPending = TRUE]

=============================================================================
