--------------------------- MODULE ScaleRadioProofs ---------------------------
(***************************************************************************)
(* Proofs about ScaleRadio, for every StageTimeout, every set of policies, *)
(* any number of events and both values of PromptDrain.                    *)
(***************************************************************************)
EXTENDS ScaleRadio, TLAPS

-----------------------------------------------------------------------------
(* The decision function. *)

\* A machine waits for a transition exactly while it is in Stopping or Starting.
WaitOK(m) ==
  m.wait = CASE m.state = "Stopping" -> "Stopped"
             [] m.state = "Starting" -> "Running"
             [] OTHER -> "Inactive"

\* The machine that has asked for `action` and has not resolved it yet.
Requesting(m, action) ==
  /\ m.wait = "Inactive"
  /\ m.policy # "ExternalControl"
  /\ \/ action = "StopController" /\ m.state = "Stopping"
     \/ action = "StartController" /\ m.state = "Starting"

\* What every decision d taken by machine m keeps.
DecisionOK(m, d) ==
  /\ d.machine \in Machine
  /\ d.action \in Action
  /\ d.machine.policy = m.policy
  /\ d.action = "None" => WaitOK(d.machine)
  /\ d.action # "None" => Requesting(d.machine, d.action)

\* Beginning a wait that is not yet pending gives the transition state its wait.
LEMMA AwaitFacts ==
  ASSUME NEW m \in Machine, m.wait = "Inactive",
         NEW target \in Wait, NEW state \in State,
         \/ state = "Stopping" /\ target = "Stopped"
         \/ state = "Starting" /\ target = "Running"
  PROVE  /\ DecisionOK(m, Await(m, target, state))
         /\ Await(m, target, state).action = "None"
         /\ Await(m, target, state).machine.state = state
         /\ Await(m, target, state).machine.wait = target
         /\ Await(m, target, state).machine.waited = 0
<1> DEFINE n == [m EXCEPT !.state = state, !.wait = target, !.waited = 0]
<1>1. Await(m, target, state) = Decision(n, "None")
  BY DEF Await
<1>2. 0 \in 0..StageTimeout
  BY StageTimeoutAssumption
<1>3. n \in Machine
  BY <1>2 DEF Machine
<1>4. n.state = state /\ n.wait = target /\ n.waited = 0 /\ n.policy = m.policy
  BY DEF Machine
<1>5. WaitOK(n)
  BY <1>4 DEF WaitOK
<1> HIDE DEF n
<1> QED  BY <1>1, <1>3, <1>4, <1>5 DEF Decision, DecisionOK, Action

\* Moving to a settled state without a wait.
LEMMA GotoFacts ==
  ASSUME NEW m \in Machine, m.wait = "Inactive",
         NEW state \in {"Monitoring", "Suspending", "ControllerStopped", "Failed"}
  PROVE  DecisionOK(m, Goto(m, state)) /\ Goto(m, state).action = "None"
  BY DEF Machine, State, WaitOK, Goto, Decision, DecisionOK, Action

\* Failing drops whatever wait there was.
LEMMA FailFacts ==
  ASSUME NEW m \in Machine
  PROVE  DecisionOK(m, Fail(m)) /\ Fail(m).action = "None"
  BY DEF Machine, State, Wait, WaitOK, Fail, Decision, DecisionOK, Action

LEMMA StayFacts ==
  ASSUME NEW m \in Machine, WaitOK(m)
  PROVE  DecisionOK(m, Stay(m)) /\ Stay(m).action = "None"
  BY DEF Stay, Decision, DecisionOK, Action

LEMMA StopFacts ==
  ASSUME NEW m \in Machine, NEW in \in Inputs,
         m.wait = "Inactive", m.policy # "ExternalControl"
  PROVE  DecisionOK(m, BeginControllerStop(m, in))
<1>1. in.controller \in ControllerState  BY DEF Inputs
<1>2. CASE in.controller = "Stopped"
  BY <1>2, GotoFacts DEF BeginControllerStop
<1>3. CASE in.controller \in {"Failed", "Starting"}
  BY <1>3, FailFacts DEF BeginControllerStop
<1>4. CASE in.controller = "Running"
  <2>1. BeginControllerStop(m, in)
          = Decision([m EXCEPT !.state = "Stopping"], "StopController")
    BY <1>4 DEF BeginControllerStop
  <2> QED  BY <2>1 DEF Decision, DecisionOK, Machine, State, Action, Requesting
<1>5. CASE in.controller = "Stopping"
  BY <1>5, AwaitFacts DEF BeginControllerStop, Wait, State
<1> QED  BY <1>1, <1>2, <1>3, <1>4, <1>5 DEF ControllerState

LEMMA StartFacts ==
  ASSUME NEW m \in Machine, NEW in \in Inputs,
         m.wait = "Inactive", m.policy # "ExternalControl"
  PROVE  DecisionOK(m, BeginControllerStart(m, in))
<1> DEFINE n == [m EXCEPT !.activityPending = FALSE]
           d == BeginControllerStart(m, in)
<1>1. n \in Machine /\ n.wait = "Inactive" /\ n.policy = m.policy  BY DEF Machine
<1>2. d \in {Fail(n), Await(n, "Running", "Starting"),
             Decision([n EXCEPT !.state = "Starting"], "StartController")}
  BY DEF BeginControllerStart
<1> SUFFICES DecisionOK(m, d)  OBVIOUS
<1> HIDE DEF n, d
<1>3. CASE d = Fail(n)
  BY <1>1, <1>3, FailFacts DEF DecisionOK
<1>4. CASE d = Await(n, "Running", "Starting")
  BY <1>1, <1>4, AwaitFacts DEF DecisionOK, Wait, State
<1>5. CASE d = Decision([n EXCEPT !.state = "Starting"], "StartController")
  BY <1>1, <1>5 DEF Decision, DecisionOK, Machine, State, Action, Requesting
<1> QED  BY <1>2, <1>3, <1>4, <1>5

\* While the controller neither failed nor arrived and the timeout has not
\* elapsed, a pending transition stays exactly as it is.
LEMMA WaitStays ==
  ASSUME NEW m \in Machine, NEW in \in Inputs,
         m.wait # "Inactive", m.state \in {"Stopping", "Starting"},
         m.waited < StageTimeout, in.controller \notin {"Failed", m.wait}
  PROVE  Update(m, in) = Stay(m)
<1>1. ~(m.waited >= StageTimeout)
  BY StageTimeoutAssumption DEF Machine
<1>2. AdvanceTransition(m, in) = Stay(m)
  BY <1>1 DEF AdvanceTransition
<1> QED  BY <1>2 DEF Update

LEMMA AdvanceFacts ==
  ASSUME NEW m \in Machine, NEW in \in Inputs, WaitOK(m),
         m.state \in {"Stopping", "Starting"}
  PROVE  DecisionOK(m, AdvanceTransition(m, in))
<1> DEFINE done == [m EXCEPT !.wait = "Inactive"]
           run  == [done EXCEPT !.state = "Monitoring", !.activityPending = FALSE]
           d    == AdvanceTransition(m, in)
<1>1. /\ done \in Machine /\ done.wait = "Inactive" /\ done.policy = m.policy
      /\ run \in Machine /\ run.policy = m.policy /\ WaitOK(run)
  BY DEF Machine, Wait, State, WaitOK
<1>2. d \in {Fail(m), Decision(run, "None"), Goto(done, "ControllerStopped"), Stay(m)}
  BY DEF AdvanceTransition
<1> SUFFICES DecisionOK(m, d)  OBVIOUS
<1> HIDE DEF done, run, d
<1>3. CASE d = Fail(m)  BY <1>3, FailFacts
<1>4. CASE d = Decision(run, "None")
  BY <1>1, <1>4 DEF Decision, DecisionOK, Action
<1>5. CASE d = Goto(done, "ControllerStopped")
  BY <1>1, <1>5, GotoFacts DEF DecisionOK
<1>6. CASE d = Stay(m)  BY <1>6, StayFacts
<1> QED  BY <1>2, <1>3, <1>4, <1>5, <1>6


\* No wait is pending outside Stopping and Starting.
LEMMA SettledWait ==
  ASSUME NEW m, WaitOK(m), m.state \notin {"Stopping", "Starting"}
  PROVE  m.wait = "Inactive"
  BY DEF WaitOK

LEMMA UpdateFacts ==
  ASSUME NEW m \in Machine, NEW in \in Inputs, WaitOK(m)
  PROVE  /\ DecisionOK(m, Update(m, in))
         /\ m.policy = "ExternalControl" => Update(m, in) = Stay(m)
<1> DEFINE r == RadioTarget(m.policy, in)
<1>1. CASE m.policy = "ExternalControl"
  BY <1>1, StayFacts DEF Update
<1>2. CASE m.policy # "ExternalControl" /\ m.state \in {"Stopping", "Starting"}
  <2>1. Update(m, in) \in {AdvanceTransition(m, in), Stay(m)}
    BY <1>2 DEF Update
  <2> QED  BY <1>2, <2>1, AdvanceFacts, StayFacts
<1>3. CASE m.policy # "ExternalControl" /\ m.state = "Monitoring"
  <2>1. m.wait = "Inactive"  BY <1>3, SettledWait
  <2>2. Update(m, in) = UpdateMonitoring(m, in, r)
    BY <1>3 DEF Update
  <2> DEFINE s == [m EXCEPT !.state = "Suspending", !.waited = 0]
  <2>3. Update(m, in) \in {Goto(m, "ControllerStopped"), Fail(m), Stay(m),
                           Decision(s, "None")}
    BY <2>2 DEF UpdateMonitoring
  <2>4. DecisionOK(m, Decision(s, "None"))
    <3>1. 0 \in 0..StageTimeout  BY StageTimeoutAssumption
    <3> QED  BY <2>1, <3>1 DEF Decision, DecisionOK, Machine, State, Action, WaitOK
  <2> HIDE DEF s
  <2> QED  BY <1>3, <2>1, <2>3, <2>4, GotoFacts, FailFacts, StayFacts
<1>4. CASE m.policy # "ExternalControl" /\ m.state = "Suspending"
  <2>1. m.wait = "Inactive"  BY <1>4, SettledWait
  <2>2. Update(m, in) = UpdateSuspending(m, in, r)
    BY <1>4 DEF Update
  <2>3. Update(m, in) \in {Goto(m, "Monitoring"), BeginControllerStop(m, in),
                           Fail(m), Stay(m)}
    BY <2>2 DEF UpdateSuspending
  <2> QED  BY <1>4, <2>1, <2>3, GotoFacts, StopFacts, FailFacts, StayFacts
<1>5. CASE m.policy # "ExternalControl" /\ m.state = "ControllerStopped"
  <2>1. m.wait = "Inactive"  BY <1>5, SettledWait
  <2>2. Update(m, in) = UpdateControllerStopped(m, in, r)
    BY <1>5 DEF Update
  <2>3. Update(m, in) \in {Goto(m, "Monitoring"), BeginControllerStart(m, in), Stay(m)}
    BY <2>2 DEF UpdateControllerStopped
  <2> QED  BY <1>5, <2>1, <2>3, GotoFacts, StartFacts, StayFacts
<1>6. CASE m.policy # "ExternalControl" /\ m.state = "Failed"
  <2>1. m.wait = "Inactive"  BY <1>6, SettledWait
  <2>2. Update(m, in) = UpdateFailed(m, in, r)
    BY <1>6 DEF Update
  <2>3. Update(m, in) \in {Goto(m, "Monitoring"), Goto(m, "ControllerStopped"), Stay(m)}
    BY <2>2 DEF UpdateFailed
  <2> QED  BY <1>6, <2>1, <2>3, GotoFacts, StayFacts
<1> QED  BY <1>1, <1>2, <1>3, <1>4, <1>5, <1>6 DEF Machine, State

\* Resolving a request leaves nothing to perform, and an accepted request whose
\* controller has not moved yet becomes a wait that has just begun.
LEMMA ResolveFacts ==
  ASSUME NEW m \in Machine, NEW in \in Inputs, NEW accepted \in BOOLEAN,
         NEW action \in Action, Requesting(m, action)
  PROVE  LET d == Resolve(m, action, accepted, in)
         IN /\ DecisionOK(m, d)
            /\ d.action = "None"
            /\ accepted /\ in.controller =
                 (IF action = "StopController" THEN "Running" ELSE "Stopped")
               => /\ d.machine.state = m.state
                  /\ d.machine.wait # "Inactive"
                  /\ d.machine.waited = 0
<1>1. in.controller \in ControllerState  BY DEF Inputs
<1>2. m.wait = "Inactive"  BY DEF Requesting
<1>3. CASE action = "StopController"
  <2>1. m.state = "Stopping"  BY <1>3 DEF Requesting
  <2>2. Resolve(m, action, accepted, in) = ResolveStop(m, accepted, in)
    BY <1>3 DEF Resolve
  <2>3. /\ ResolveStop(m, accepted, in) \in {Goto(m, "ControllerStopped"), Fail(m),
                                            Await(m, "Stopped", "Stopping")}
        /\ accepted /\ in.controller = "Running" =>
             ResolveStop(m, accepted, in) = Await(m, "Stopped", "Stopping")
    BY <1>1 DEF ResolveStop, ControllerState
  <2> QED  BY <1>2, <1>3, <2>1, <2>2, <2>3, GotoFacts, FailFacts, AwaitFacts
           DEF Wait, State
<1>4. CASE action # "StopController"
  <2>1. m.state = "Starting" /\ action = "StartController"  BY <1>4 DEF Requesting
  <2>2. Resolve(m, action, accepted, in) = ResolveStart(m, accepted, in)
    BY <1>4 DEF Resolve
  <2>3. /\ ResolveStart(m, accepted, in) \in {Goto(m, "Monitoring"), Fail(m),
                                             Await(m, "Running", "Starting")}
        /\ accepted /\ in.controller = "Stopped" =>
             ResolveStart(m, accepted, in) = Await(m, "Running", "Starting")
    BY <1>1 DEF ResolveStart, ControllerState
  <2> QED  BY <1>2, <1>4, <2>1, <2>2, <2>3, GotoFacts, FailFacts, AwaitFacts
           DEF Wait, State
<1> QED  BY <1>3, <1>4


-----------------------------------------------------------------------------
(* The inductive invariant. *)

\* The machine between, and inside, calls of update().
PowerOK ==
  /\ pmPc \in {"idle", "update", "apply"} => WaitOK(machine)
  /\ pmPc \in {"request", "resolve"} =>
       request.action # "None" /\ Requesting(machine, request.action)
  /\ machine.policy = "ExternalControl" =>
       /\ machine.state = "Monitoring"
       /\ ~powerSuspended
       /\ pmPc \notin {"request", "resolve"}

\* The command queue holds at most one command, posted when the controller was
\* where that command starts from, and the controller has not moved since.
QueueOK ==
  /\ cmdQueue \in {<<>>, <<"StopController">>, <<"StartController">>}
  /\ requestPending <=> (cmdQueue # <<>> \/ mgrPc = "clear")
  /\ mgrPc = "clear" => cmdQueue = <<>>
  /\ cmdQueue = <<"StopController">> => controller = "Running"
  /\ cmdQueue = <<"StartController">> => controller = "Stopped"
  /\ mgrPc = "unstarted" =>
       cmdQueue = <<>> /\ pmPc = "idle" /\ machine.state = "Monitoring"

\* What the manager's mode says of the link, the scan and the client.
ManagerOK ==
  /\ mode = "Idle" => link = "OFF" /\ ~scanning /\ ~client
  /\ mode = "DiagScan" => link = "OFF" /\ ~client
  /\ mgrPc \in {"select", "mode", "run"} => controller = "Running"
  /\ mgrPc = "deinit" => controller = "Stopping" /\ mode = "Idle"
  /\ mgrPc = "unstarted" => mode = "Idle"
  /\ controller \in {"Stopped", "Starting", "Failed"} => mode = "Idle"

\* Strengthens NoStrayRequest by the time left to the wait.
StrayOK ==
  (PromptDrain /\ cmdQueue # <<>> /\ machine.policy # "ExternalControl") =>
    /\ machine.state = IF cmdQueue = <<"StopController">> THEN "Stopping"
                                                          ELSE "Starting"
    /\ pmPc # "resolve" => machine.wait # "Inactive" /\ machine.waited < StageTimeout
    /\ pmPc = "resolve" => request.accepted

SettledOK ==
  ( /\ PromptDrain
    /\ pmPc = "idle"
    /\ machine.policy # "ExternalControl"
    /\ status.settled ) => machine.state \in {"Monitoring", "ControllerStopped"}

IInv == /\ TypeOK
        /\ PowerOK
        /\ QueueOK
        /\ ManagerOK
        /\ StrayOK
        /\ SettledOK
        /\ SettledStatusHolds

LEMMA InitIInv == Init => IInv
<1> SUFFICES ASSUME Init PROVE IInv  OBVIOUS
<1>1. TypeOK
  <2>1. 0 \in 0..StageTimeout /\ MaxEvents \in 0..MaxEvents
    BY StageTimeoutAssumption, ScaleRadioAssumption
  <2>2. InitialMachine \in Machine
    BY <2>1 DEF InitialMachine, Machine, State, Policy, Wait
  <2>3. cmdQueue \in Seq({"StopController", "StartController"})
    BY DEF Init
  <2>4. /\ seen \in [service : ServiceState, connectWanted : BOOLEAN,
                      diagnosticScanWanted : BOOLEAN]
        /\ request \in [action : Action, accepted : BOOLEAN]
        /\ status \in [settled : BOOLEAN, shouldRun : BOOLEAN]
    BY DEF Init, ServiceState, Action
  <2>5. machine \in Machine /\ events \in 0..MaxEvents
    BY <2>1, <2>2 DEF Init
  <2> QED
    BY <2>3, <2>4, <2>5 DEF Init, TypeOK, PmPc, ControllerState, MgrPc, Mode, Link,
                            Lease
<1>2. PowerOK /\ QueueOK /\ ManagerOK /\ StrayOK /\ SettledOK /\ SettledStatusHolds
  BY DEF Init, InitialMachine, PowerOK, QueueOK, ManagerOK, StrayOK, SettledOK,
         SettledStatusHolds, WaitOK
<1> QED  BY <1>1, <1>2 DEF IInv

\* radioInputs() is always a legal input.
LEMMA InputsFacts ==
  ASSUME TypeOK
  PROVE  /\ DemandAndService \in [service : ServiceState, connectWanted : BOOLEAN,
                                  diagnosticScanWanted : BOOLEAN]
         /\ RadioInputs(seen) \in Inputs
         /\ RadioInputs(seen).controller = controller
BY DEF TypeOK, DemandAndService, ServiceOf, ServiceState, Link, RadioInputs, Inputs

LEMMA StatusFacts ==
  ASSUME TypeOK, NEW m \in Machine
  PROVE  /\ StatusOf(m) \in [settled : BOOLEAN, shouldRun : BOOLEAN]
         /\ StatusOf(m).settled =>
              /\ m.state \in {"Monitoring", "ControllerStopped"}
              /\ controller = IF StatusOf(m).shouldRun THEN "Running" ELSE "Stopped"
<1>1. RadioTarget(m.policy, RadioInputs(DemandAndService)) \in BOOLEAN
  BY DEF RadioTarget, ControllerShouldRun, RadioInputs, DemandAndService, TypeOK
<1> QED  BY <1>1 DEF StatusOf, InTransition, Machine, State


LEMMA PmStep == IInv /\ PmNext => IInv'
<1> SUFFICES ASSUME IInv, PmNext PROVE IInv'  OBVIOUS
<1> USE DEF IInv
<1>1. CASE PmObserve
  <2>1. TypeOK'  BY <1>1, InputsFacts DEF PmObserve, TypeOK, PmPc, mgrVars, ctlVars, wantVars
  <2> QED  BY <2>1, <1>1
    DEF PmObserve, PowerOK, QueueOK, ManagerOK, StrayOK, SettledOK, SettledStatusHolds,
        mgrVars, ctlVars, wantVars, WaitOK, Requesting, IsStarted
<1>2. CASE PmUpdate
  <2> DEFINE d == Update(machine, RadioInputs(seen))
  <2>1. DecisionOK(machine, d) /\ (machine.policy = "ExternalControl" => d = Stay(machine))
    BY <1>2, UpdateFacts, InputsFacts DEF PmUpdate, PowerOK, TypeOK
  <2>2. /\ machine' = d.machine
        /\ request' = [request EXCEPT !.action = d.action]
        /\ pmPc' = IF d.action = "None" THEN "apply" ELSE "request"
        /\ pmPc = "update"
        /\ UNCHANGED <<seen, screenDimmed, status, mgrVars, ctlVars, wantVars,
                       powerSuspended, events>>
    BY <1>2 DEF PmUpdate, Perform
  <2>3. StrayOK'
    <3> SUFFICES ASSUME PromptDrain, cmdQueue # <<>>, machine.policy # "ExternalControl"
                 PROVE  d = Stay(machine) /\ pmPc' # "resolve"
      BY <2>1, <2>2 DEF StrayOK, ctlVars, DecisionOK, Stay, Decision
    <3>1. /\ machine.state \in {"Stopping", "Starting"}
          /\ machine.wait # "Inactive" /\ machine.waited < StageTimeout
          /\ WaitOK(machine)
      BY <2>2 DEF StrayOK, PowerOK
    <3>2. controller \notin {"Failed", machine.wait}
      BY <3>1, <2>2 DEF QueueOK, StrayOK, WaitOK
    <3> QED  BY <3>1, <3>2, <2>2, WaitStays, InputsFacts DEF TypeOK
  <2> HIDE DEF d
  <2>4. TypeOK'
    BY <2>1, <2>2 DEF TypeOK, DecisionOK, PmPc, mgrVars, ctlVars, wantVars
  <2>5. PowerOK'
    BY <2>1, <2>2 DEF PowerOK, DecisionOK, TypeOK, Stay, Decision, mgrVars
  <2> QED  BY <2>2, <2>3, <2>4, <2>5
    DEF QueueOK, ManagerOK, SettledOK, SettledStatusHolds, mgrVars, ctlVars, wantVars
<1>3. CASE PmRequest
  <2>1. /\ pmPc = "request" /\ pmPc' = "resolve"
        /\ Requesting(machine, request.action)
        /\ request.action \in {"StopController", "StartController"}
        /\ UNCHANGED <<machine, seen, screenDimmed, status, controller, mgrVars,
                       wantVars, powerSuspended, events>>
    BY <1>3 DEF PmRequest, PowerOK, Requesting
  <2>2. cmdQueue = <<>> \/ ~PromptDrain
    BY <2>1 DEF StrayOK, Requesting
  <2>3. CASE PostCommand(request.action)
             /\ request' = [action |-> request.action, accepted |-> TRUE]
    <3>1. /\ cmdQueue = <<>> /\ mgrPc # "clear"
          /\ cmdQueue' = <<request.action>> /\ requestPending'
      <4>1. cmdQueue = <<>> /\ mgrPc # "clear"  BY <2>3 DEF PostCommand, QueueOK
      <4>2. Append(<<>>, request.action) = <<request.action>>  OBVIOUS
      <4> QED  BY <2>3, <4>1, <4>2 DEF PostCommand
    <3>2. TypeOK'
      BY <2>1, <2>3, <3>1 DEF PostCommand, TypeOK, PmPc, Action, mgrVars, wantVars
    <3> QED  BY <2>1, <2>3, <3>1, <3>2
      DEF PostCommand, PowerOK, QueueOK, ManagerOK, StrayOK, SettledOK,
          SettledStatusHolds, Requesting, WaitOK, mgrVars, wantVars
  <2>4. CASE /\ request' = [action |-> request.action, accepted |-> FALSE]
             /\ UNCHANGED <<requestPending, cmdQueue>>
    <3>1. TypeOK'
      BY <2>1, <2>4 DEF TypeOK, PmPc, Action, mgrVars, wantVars
    <3> QED  BY <2>1, <2>2, <2>4, <3>1
      DEF PowerOK, QueueOK, ManagerOK, StrayOK, SettledOK,
          SettledStatusHolds, Requesting, WaitOK, mgrVars, wantVars
  <2> QED  BY <1>3, <2>3, <2>4 DEF PmRequest, RequestController
<1>4. CASE PmResolve
  <2> DEFINE d == Resolve(machine, request.action, request.accepted, RadioInputs(seen))
  <2>1. /\ machine' = d.machine
        /\ request' = [request EXCEPT !.action = d.action]
        /\ pmPc' = IF d.action = "None" THEN "apply" ELSE "request"
        /\ pmPc = "resolve"
        /\ UNCHANGED <<seen, screenDimmed, status, mgrVars, ctlVars, wantVars,
                       powerSuspended, events>>
    BY <1>4 DEF PmResolve, Perform
  <2>2. /\ machine \in Machine /\ Requesting(machine, request.action)
        /\ request.accepted \in BOOLEAN /\ request.action \in Action
        /\ machine.policy # "ExternalControl"
    BY <2>1 DEF TypeOK, PowerOK, Requesting
  <2>3. /\ DecisionOK(machine, d) /\ d.action = "None"
        /\ request.accepted /\ controller =
             (IF request.action = "StopController" THEN "Running" ELSE "Stopped")
           => /\ d.machine.state = machine.state
              /\ d.machine.wait # "Inactive"
              /\ d.machine.waited = 0
    BY <2>2, ResolveFacts, InputsFacts
  <2> HIDE DEF d
  <2>4. StrayOK'
    <3> SUFFICES ASSUME PromptDrain, cmdQueue # <<>>
                 PROVE  /\ d.machine.state = machine.state
                        /\ d.machine.wait # "Inactive"
                        /\ d.machine.waited = 0
      BY <2>1, <2>2, <2>3, StageTimeoutAssumption DEF StrayOK, ctlVars
    <3>1. /\ request.accepted
          /\ machine.state = IF cmdQueue = <<"StopController">> THEN "Stopping"
                                                                ELSE "Starting"
      BY <2>1, <2>2 DEF StrayOK
    <3>2. controller = IF request.action = "StopController" THEN "Running" ELSE "Stopped"
      BY <3>1, <2>2 DEF QueueOK, Requesting
    <3> QED  BY <3>1, <3>2, <2>3
  <2>5. TypeOK'
    BY <2>1, <2>3 DEF TypeOK, DecisionOK, PmPc, Action, mgrVars, ctlVars, wantVars
  <2>6. PowerOK'
    BY <2>1, <2>2, <2>3 DEF PowerOK, DecisionOK
  <2> QED  BY <2>1, <2>4, <2>5, <2>6
    DEF QueueOK, ManagerOK, SettledOK, SettledStatusHolds, mgrVars, ctlVars, wantVars
<1>5. CASE PmApply
  <2>1. /\ pmPc = "apply" /\ pmPc' = "idle"
        /\ powerSuspended' = WantsServiceSuspended(machine)
        /\ status' = StatusOf(machine)
        /\ UNCHANGED <<machine, seen, request, screenDimmed, mgrVars, ctlVars,
                       wantVars, events>>
    BY <1>5 DEF PmApply
  <2>2. /\ status' \in [settled : BOOLEAN, shouldRun : BOOLEAN]
        /\ status'.settled =>
             /\ machine.state \in {"Monitoring", "ControllerStopped"}
             /\ controller = IF status'.shouldRun THEN "Running" ELSE "Stopped"
    BY <2>1, StatusFacts DEF TypeOK
  <2>3. powerSuspended' \in BOOLEAN /\ (machine.state = "Monitoring" => ~powerSuspended')
    <3>1. /\ WantsServiceSuspended(machine) \in BOOLEAN
          /\ machine.state = "Monitoring" => ~WantsServiceSuspended(machine)
      BY DEF WantsServiceSuspended
    <3> QED  BY <2>1, <3>1
  <2>4. TypeOK'
    BY <2>1, <2>2, <2>3 DEF TypeOK, PmPc, mgrVars, ctlVars, wantVars
  <2> QED  BY <2>1, <2>2, <2>3, <2>4
    DEF PowerOK, QueueOK, ManagerOK, StrayOK, SettledOK, SettledStatusHolds,
        mgrVars, ctlVars, wantVars
<1> QED  BY <1>1, <1>2, <1>3, <1>4, <1>5 DEF PmNext

\* setPolicy() keeps the machine well formed, and grants a handover only to a
\* machine that asserts nothing.
LEMMA SetPolicyFacts ==
  ASSUME NEW m \in Machine, WaitOK(m), NEW policy \in Policy,
         PolicyAccepted(m, policy)
  PROVE  /\ SetPolicy(m, policy) \in Machine
         /\ WaitOK(SetPolicy(m, policy))
         /\ SetPolicy(m, policy).state = m.state
         /\ SetPolicy(m, policy).wait = m.wait
         /\ SetPolicy(m, policy).waited = m.waited
         /\ SetPolicy(m, policy).policy = policy
         /\ m.policy = "ExternalControl" => policy = "ExternalControl"
         /\ policy = "ExternalControl" /\ m.policy # "ExternalControl" =>
              m.state = "Monitoring"
<1>1. CASE policy = m.policy
  BY <1>1 DEF SetPolicy
<1>2. CASE policy # m.policy
  <2> DEFINE n == [m EXCEPT !.policy = policy, !.activityPending = TRUE]
  <2>1. SetPolicy(m, policy) = n  BY <1>2 DEF SetPolicy
  <2>2. /\ n \in Machine /\ n.state = m.state /\ n.wait = m.wait
        /\ n.waited = m.waited /\ n.policy = policy
    BY DEF Machine
  <2>3. policy = "ExternalControl" => m.state = "Monitoring"
    BY <1>2 DEF PolicyAccepted, InTransition, WantsServiceSuspended, Machine, State
  <2> HIDE DEF n
  <2> QED  BY <1>2, <2>1, <2>2, <2>3 DEF WaitOK, PolicyAccepted
<1> QED  BY <1>1, <1>2

LEMMA UserStep ==
  ASSUME IInv,
         \/ UpdateStartup \/ NotifyUserActivity \/ DimScreen \/ Tick
         \/ \E p \in Policies : SetScaleRadioPolicy(p)
         \/ \E a \in {"StopController", "StartController"} : AppRequest(a)
  PROVE  IInv'
<1> USE DEF IInv
<1>1. CASE UpdateStartup
  <2>1. TypeOK'
    BY <1>1 DEF UpdateStartup, TypeOK, MgrPc, ControllerState, pmVars, wantVars
  <2> QED  BY <1>1, <2>1
    DEF UpdateStartup, IsStarted, PowerOK, QueueOK, ManagerOK, StrayOK, SettledOK,
        SettledStatusHolds, WaitOK, pmVars, wantVars
<1>2. CASE NotifyUserActivity
  <2>1. /\ machine' \in Machine /\ machine'.state = machine.state
        /\ machine'.wait = machine.wait /\ machine'.waited = machine.waited
        /\ machine'.policy = machine.policy
    BY <1>2 DEF NotifyUserActivity, NotifyActivity, TypeOK, Machine
  <2>2. events' \in 0..MaxEvents
    BY <1>2, ScaleRadioAssumption DEF NotifyUserActivity, TypeOK
  <2>3. TypeOK'
    BY <1>2, <2>1, <2>2 DEF NotifyUserActivity, TypeOK, mgrVars, ctlVars, wantVars
  <2> QED  BY <1>2, <2>1, <2>3
    DEF NotifyUserActivity, PowerOK, QueueOK, ManagerOK, StrayOK, SettledOK,
        SettledStatusHolds, WaitOK, mgrVars, ctlVars, wantVars
<1>3. CASE DimScreen
  <2>1. events' \in 0..MaxEvents
    BY <1>3, ScaleRadioAssumption DEF DimScreen, TypeOK
  <2>2. TypeOK'
    BY <1>3, <2>1 DEF DimScreen, TypeOK, mgrVars, ctlVars, wantVars
  <2> QED  BY <1>3, <2>2
    DEF DimScreen, PowerOK, QueueOK, ManagerOK, StrayOK, SettledOK,
        SettledStatusHolds, WaitOK, mgrVars, ctlVars, wantVars
<1>4. CASE Tick
  <2>1. machine.waited \in Nat /\ machine.waited + 1 \in 0..StageTimeout
    BY <1>4, StageTimeoutAssumption DEF Tick, TypeOK, Machine
  <2>2. /\ machine' \in Machine /\ machine'.state = machine.state
        /\ machine'.wait = machine.wait /\ machine'.waited = machine.waited + 1
        /\ machine'.policy = machine.policy
    BY <1>4, <2>1 DEF Tick, TypeOK, Machine
  <2>3. TypeOK'
    BY <1>4, <2>2 DEF Tick, TypeOK, mgrVars, ctlVars, wantVars
  <2>4. StrayOK'
    BY <1>4, <2>1, <2>2, StageTimeoutAssumption DEF Tick, StrayOK, ctlVars
  <2> QED  BY <1>4, <2>2, <2>3, <2>4
    DEF Tick, PowerOK, QueueOK, ManagerOK, SettledOK,
        SettledStatusHolds, WaitOK, mgrVars, ctlVars, wantVars
<1>5. ASSUME NEW p \in Policies, SetScaleRadioPolicy(p)  PROVE IInv'
  <2> DEFINE m == SetPolicy(machine, p)
  <2>1. /\ pmPc = "idle" /\ machine' = m
        /\ powerSuspended' = WantsServiceSuspended(m)
        /\ status' = StatusOf(m)
        /\ UNCHANGED <<pmPc, seen, request, screenDimmed, mgrVars, ctlVars, wantVars>>
    BY <1>5 DEF SetScaleRadioPolicy
  <2>2. /\ m \in Machine /\ WaitOK(m)
        /\ m.state = machine.state /\ m.wait = machine.wait
        /\ m.waited = machine.waited /\ m.policy = p
        /\ machine.policy = "ExternalControl" => p = "ExternalControl"
        /\ p = "ExternalControl" /\ machine.policy # "ExternalControl" =>
             machine.state = "Monitoring"
    BY <1>5, <2>1, SetPolicyFacts, ScaleRadioAssumption
      DEF SetScaleRadioPolicy, TypeOK, PowerOK
  <2>3. /\ status' \in [settled : BOOLEAN, shouldRun : BOOLEAN]
        /\ status'.settled =>
             /\ m.state \in {"Monitoring", "ControllerStopped"}
             /\ controller = IF status'.shouldRun THEN "Running" ELSE "Stopped"
    BY <2>1, <2>2, StatusFacts DEF TypeOK
  <2>4. WantsServiceSuspended(m) \in BOOLEAN
        /\ (m.state = "Monitoring" => ~WantsServiceSuspended(m))
    BY DEF WantsServiceSuspended
  <2>5. events' \in 0..MaxEvents
    BY <1>5, ScaleRadioAssumption DEF SetScaleRadioPolicy, TypeOK
  <2> HIDE DEF m
  <2>6. TypeOK'
    BY <2>1, <2>2, <2>3, <2>4, <2>5 DEF TypeOK, mgrVars, ctlVars, wantVars
  <2>7. PowerOK'
    BY <2>1, <2>2, <2>4 DEF PowerOK
  <2>8. StrayOK'
    BY <2>1, <2>2 DEF StrayOK, ctlVars
  <2> QED  BY <2>1, <2>2, <2>3, <2>6, <2>7, <2>8
    DEF QueueOK, ManagerOK, SettledOK, SettledStatusHolds, mgrVars, ctlVars, wantVars
<1>6. ASSUME NEW a \in {"StopController", "StartController"}, AppRequest(a)  PROVE IInv'
  <2>1. /\ cmdQueue = <<>> /\ mgrPc # "clear" /\ mgrPc # "unstarted"
        /\ cmdQueue' = <<a>> /\ requestPending'
        /\ controller = IF a = "StopController" THEN "Running" ELSE "Stopped"
    <3>1. cmdQueue = <<>> /\ mgrPc # "clear"
      BY <1>6 DEF AppRequest, PostCommand, QueueOK
    <3>2. Append(<<>>, a) = <<a>>  OBVIOUS
    <3> QED  BY <1>6, <3>1, <3>2 DEF AppRequest, PostCommand, IsStarted
  <2>2. events' \in 0..MaxEvents
    BY <1>6, ScaleRadioAssumption DEF AppRequest, TypeOK
  <2>3. TypeOK'
    BY <1>6, <2>1, <2>2 DEF AppRequest, PostCommand, TypeOK, pmVars, mgrVars, wantVars
  <2> QED  BY <1>6, <2>1, <2>3
    DEF AppRequest, PostCommand, PowerOK, QueueOK, ManagerOK, StrayOK, SettledOK,
        SettledStatusHolds, WaitOK, pmVars, mgrVars, wantVars
<1> QED  BY <1>1, <1>2, <1>3, <1>4, <1>5, <1>6

LEMMA DemandStep ==
  ASSUME IInv, NEW c \in BOOLEAN, NEW l \in Lease, Want(c, l)
  PROVE  IInv'
<1> USE DEF IInv
<1>1. events' \in 0..MaxEvents
  BY ScaleRadioAssumption DEF Want, TypeOK
<1>2. TypeOK'
  BY <1>1 DEF Want, TypeOK, pmVars, mgrVars, ctlVars
<1> QED  BY <1>2
  DEF Want, PowerOK, QueueOK, ManagerOK, StrayOK, SettledOK, SettledStatusHolds,
      WaitOK, Requesting, pmVars, mgrVars, ctlVars

\* What every manager step that leaves the controller commands alone keeps.
MgrQuiet ==
  UNCHANGED <<pmVars, connectWanted, powerSuspended, controller, requestPending,
              cmdQueue>>

LEMMA QuietStep ==
  ASSUME IInv, MgrQuiet, TypeOK', ManagerOK',
         mgrPc # "clear", mgrPc' # "clear", mgrPc' # "unstarted"
  PROVE  IInv'
BY DEF IInv, MgrQuiet, PowerOK, QueueOK, StrayOK, SettledOK, SettledStatusHolds,
       WaitOK, Requesting, pmVars

\* A manager step that moves the controller does so when no command is queued, or
\* takes the command off the queue.
LEMMA ControllerMoves ==
  ASSUME IInv, TypeOK', ManagerOK',
         UNCHANGED <<pmVars, wantVars, powerSuspended, requestPending>>,
         mgrPc # "clear", mgrPc' # "unstarted",
         \/ /\ cmdQueue = <<>> /\ UNCHANGED cmdQueue
            /\ mgrPc' # "clear"
            /\ controller \in {"Starting", "Stopping"}
         \/ /\ cmdQueue # <<>> /\ cmdQueue' = <<>>
            /\ mgrPc' = "clear"
  PROVE  IInv'
BY DEF IInv, PowerOK, QueueOK, StrayOK, SettledOK, SettledStatusHolds,
       WaitOK, Requesting, pmVars, wantVars

\* exitMode() leaves nothing of a mode behind.
LEMMA ExitModeFacts ==
  ASSUME TypeOK, ManagerOK, ExitMode(mode)
  PROVE  /\ scanning' \in BOOLEAN /\ client' \in BOOLEAN /\ link' \in Link
         /\ ~scanning' /\ ~client' /\ link' = "OFF"
<1>1. CASE mode = "Idle"     BY <1>1 DEF TypeOK, ManagerOK, ExitMode, Link
<1>2. CASE mode = "Connect"  BY <1>2 DEF TypeOK, ManagerOK, ExitMode, Link
<1>3. CASE mode = "DiagScan"  BY <1>3 DEF TypeOK, ManagerOK, ExitMode, Link
<1> QED  BY <1>1, <1>2, <1>3 DEF TypeOK, Mode

\* One advance of a mode keeps what the mode says of the link.
LEMMA RunFacts ==
  ASSUME TypeOK, ManagerOK, MgrRun
  PROVE  /\ scanning' \in BOOLEAN /\ client' \in BOOLEAN /\ link' \in Link
         /\ events' \in 0..MaxEvents
         /\ ManagerOK'
<1>1. /\ mgrPc = "run" /\ mgrPc' = "drain" /\ mode' = mode /\ controller' = controller
      /\ controller = "Running"
  BY DEF MgrRun, ctlVars, ManagerOK
<1>2. events \in 0..MaxEvents /\ (events > 0 => events - 1 \in 0..MaxEvents)
  BY ScaleRadioAssumption DEF TypeOK
<1>3. CASE mode = "Idle" /\ UNCHANGED <<link, scanning, client, events>>
  BY <1>1, <1>3 DEF TypeOK, ManagerOK
<1>4. CASE /\ mode = "DiagScan"
           /\ scanning' \in IF scanning THEN {TRUE} ELSE BOOLEAN
           /\ UNCHANGED <<link, client, events>>
  BY <1>1, <1>4 DEF TypeOK, ManagerOK
<1>5. CASE mode = "Connect" /\ LinkOff
  BY <1>1, <1>5 DEF TypeOK, ManagerOK, LinkOff, Link
<1>6. CASE mode = "Connect" /\ LinkSearching
  <2>1. scanning' \in BOOLEAN  BY <1>6 DEF LinkSearching
  <2> QED  BY <1>1, <1>2, <1>6, <2>1 DEF TypeOK, ManagerOK, LinkSearching, Link
<1>7. CASE mode = "Connect" /\ LinkConnecting
  BY <1>1, <1>7 DEF TypeOK, ManagerOK, LinkConnecting, Link
<1>8. CASE mode = "Connect" /\ LinkReady
  BY <1>1, <1>2, <1>8 DEF TypeOK, ManagerOK, LinkReady, Link
<1> QED  BY <1>3, <1>4, <1>5, <1>6, <1>7, <1>8 DEF MgrRun

LEMMA MgrStep ==
  ASSUME IInv, MgrNext \/ ScanElapses
  PROVE  IInv'
<1> USE DEF IInv
<1>1. CASE MgrDrain
  <2>1. CASE cmdQueue = <<>>
    <3>1. TypeOK'
      BY <1>1, <2>1 DEF MgrDrain, MgrKeeps, TypeOK, MgrPc, pmVars, wantVars
    <3>2. ManagerOK'
      BY <1>1, <2>1 DEF MgrDrain, MgrKeeps, ManagerOK
    <3> QED  BY <1>1, <2>1, <3>1, <3>2, QuietStep DEF MgrDrain, MgrKeeps, MgrQuiet, wantVars
  <2>2. CASE cmdQueue # <<>>
    <3>1. /\ cmdQueue' = <<>> /\ mgrPc' = "clear" /\ mgrPc = "drain"
          /\ controller \in {"Running", "Stopped"}
          /\ cmdQueue = <<"StopController">> \/ cmdQueue = <<"StartController">>
      BY <1>1, <2>2 DEF MgrDrain, QueueOK
    <3>2. controller' = IF controller = "Running" THEN "Stopping" ELSE "Starting"
      BY <1>1, <2>2, <3>1 DEF MgrDrain, QueueOK
    <3>3. UNCHANGED <<pmVars, wantVars, powerSuspended, requestPending, desired, mode,
                      link, scanning, client, events>>
      BY <1>1 DEF MgrDrain, MgrKeeps
    <3>4. TypeOK'
      BY <3>1, <3>2, <3>3 DEF TypeOK, MgrPc, ControllerState, pmVars, wantVars
    <3>5. ManagerOK'
      BY <3>1, <3>2, <3>3 DEF ManagerOK
    <3> QED  BY <2>2, <3>1, <3>3, <3>4, <3>5, ControllerMoves
  <2> QED  BY <2>1, <2>2
<1>2. CASE MgrClearRequest
  <2>1. TypeOK'
    BY <1>2 DEF MgrClearRequest, MgrKeeps, TypeOK, MgrPc, pmVars, wantVars
  <2> QED  BY <1>2, <2>1
    DEF MgrClearRequest, MgrKeeps, PowerOK, QueueOK, ManagerOK, StrayOK, SettledOK,
        SettledStatusHolds, WaitOK, Requesting, pmVars, wantVars
<1>3. CASE MgrExpireLease
  <2>1. TypeOK'
    BY <1>3 DEF MgrExpireLease, MgrKeeps, TypeOK, MgrPc, pmVars, wantVars, ctlVars
  <2>2. ManagerOK'
    BY <1>3 DEF MgrExpireLease, ManagerOK, ctlVars
  <2> QED  BY <1>3, <2>1, <2>2, QuietStep
    DEF MgrExpireLease, MgrKeeps, MgrQuiet, wantVars, ctlVars
<1>4. CASE MgrControl
  <2>1. /\ mgrPc = "control"
        /\ UNCHANGED <<pmVars, wantVars, powerSuspended, requestPending, cmdQueue,
                       desired, events>>
    BY <1>4 DEF MgrControl, MgrKeeps
  <2>2. CASE /\ controller = "Running" /\ mgrPc' = "select"
             /\ UNCHANGED <<mode, link, scanning, client, controller>>
    <3>1. TypeOK'  BY <2>1, <2>2 DEF TypeOK, MgrPc, pmVars, wantVars
    <3>2. ManagerOK'  BY <2>1, <2>2 DEF ManagerOK
    <3> QED  BY <2>1, <2>2, <3>1, <3>2, QuietStep DEF MgrQuiet, wantVars
  <2>3. CASE /\ controller = "Stopping" /\ ExitMode(mode) /\ mode' = "Idle"
             /\ mgrPc' = "deinit" /\ UNCHANGED controller
    <3>1. TypeOK'
      BY <2>1, <2>3, ExitModeFacts DEF TypeOK, MgrPc, Mode, pmVars, wantVars
    <3>2. ManagerOK'
      BY <2>1, <2>3, ExitModeFacts DEF ManagerOK
    <3> QED  BY <2>1, <2>3, <3>1, <3>2, QuietStep DEF MgrQuiet, wantVars
  <2>4. CASE /\ controller = "Starting" /\ controller' \in {"Running", "Failed"}
             /\ mgrPc' = "drain" /\ UNCHANGED <<mode, link, scanning, client>>
    <3>1. TypeOK'
      BY <2>1, <2>4 DEF TypeOK, ControllerState, MgrPc, pmVars, wantVars
    <3>2. ManagerOK'  BY <2>1, <2>4 DEF ManagerOK
    <3>3. cmdQueue = <<>>  BY <2>4 DEF QueueOK
    <3> QED  BY <2>1, <2>4, <3>1, <3>2, <3>3, ControllerMoves
  <2>5. CASE /\ controller \in {"Stopped", "Failed"} /\ mgrPc' = "drain"
             /\ UNCHANGED <<mode, link, scanning, client, controller>>
    <3>1. TypeOK'  BY <2>1, <2>5 DEF TypeOK, MgrPc, pmVars, wantVars
    <3>2. ManagerOK'  BY <2>1, <2>5 DEF ManagerOK
    <3> QED  BY <2>1, <2>5, <3>1, <3>2, QuietStep DEF MgrQuiet, wantVars
  <2> QED  BY <1>4, <2>2, <2>3, <2>4, <2>5 DEF MgrControl
<1>5. CASE MgrDeinit
  <2>1. TypeOK'
    BY <1>5 DEF MgrDeinit, MgrKeeps, TypeOK, MgrPc, ControllerState, pmVars, wantVars
  <2>2. ManagerOK'
    BY <1>5 DEF MgrDeinit, ManagerOK
  <2>3. cmdQueue = <<>> /\ controller = "Stopping"
    BY <1>5 DEF MgrDeinit, ManagerOK, QueueOK
  <2> QED  BY <1>5, <2>1, <2>2, <2>3, ControllerMoves DEF MgrDeinit, MgrKeeps
<1>6. CASE MgrSelect
  <2>1. TypeOK'
    BY <1>6 DEF MgrSelect, SelectMode, MgrKeeps, TypeOK, MgrPc, Mode, pmVars,
                wantVars, ctlVars
  <2>2. ManagerOK'
    BY <1>6 DEF MgrSelect, ManagerOK, ctlVars
  <2> QED  BY <1>6, <2>1, <2>2, QuietStep
    DEF MgrSelect, MgrKeeps, MgrQuiet, wantVars, ctlVars
<1>7. CASE MgrSwitchMode
  <2>1. scanning' \in BOOLEAN /\ client' \in BOOLEAN /\ link' \in Link
    <3>1. CASE desired = mode
      BY <1>7, <3>1 DEF MgrSwitchMode, TypeOK
    <3>2. CASE desired # mode /\ desired = "DiagScan"
      BY <1>7, <3>2 DEF MgrSwitchMode, Link
    <3>3. CASE desired # mode /\ desired # "DiagScan"
      BY <1>7, <3>3, ExitModeFacts DEF MgrSwitchMode
    <3> QED  BY <3>1, <3>2, <3>3
  <2>2. TypeOK'
    BY <1>7, <2>1 DEF MgrSwitchMode, MgrKeeps, TypeOK, MgrPc, pmVars, wantVars, ctlVars
  <2>3. ManagerOK'
    BY <1>7, ExitModeFacts DEF MgrSwitchMode, ManagerOK, TypeOK, Mode, ctlVars
  <2> QED  BY <1>7, <2>2, <2>3, QuietStep
    DEF MgrSwitchMode, MgrKeeps, MgrQuiet, wantVars, ctlVars
<1>8. CASE MgrRun
  <2>1. TypeOK'
    BY <1>8, RunFacts DEF MgrRun, MgrKeeps, TypeOK, MgrPc, pmVars, wantVars, ctlVars
  <2> QED  BY <1>8, <2>1, RunFacts, QuietStep
    DEF MgrRun, MgrKeeps, MgrQuiet, wantVars, ctlVars
<1>9. CASE ScanElapses
  <2>1. TypeOK'
    BY <1>9 DEF ScanElapses, TypeOK, pmVars, wantVars, ctlVars
  <2> QED  BY <1>9, <2>1
    DEF ScanElapses, PowerOK, QueueOK, ManagerOK, StrayOK, SettledOK,
        SettledStatusHolds, WaitOK, Requesting, pmVars, wantVars, ctlVars
<1>10. CASE MgrClearLease
  <2>1. TypeOK'
    BY <1>10 DEF MgrClearLease, TypeOK, MgrPc, Lease, pmVars, ctlVars
  <2>2. ManagerOK'
    BY <1>10 DEF MgrClearLease, ManagerOK, ctlVars
  <2> QED  BY <1>10, <2>1, <2>2, QuietStep DEF MgrClearLease, MgrQuiet, ctlVars
<1> QED  BY <1>1, <1>2, <1>3, <1>4, <1>5, <1>6, <1>7, <1>8, <1>9, <1>10 DEF MgrNext

\* The invariant is inductive.
LEMMA StepIInv == IInv /\ [Next]_vars => IInv'
<1> SUFFICES ASSUME IInv, [Next]_vars PROVE IInv'  OBVIOUS
<1>1. CASE PmNext  BY <1>1, PmStep
<1>2. CASE \/ UpdateStartup \/ NotifyUserActivity \/ DimScreen \/ Tick
           \/ \E p \in Policies : SetScaleRadioPolicy(p)
           \/ \E a \in {"StopController", "StartController"} : AppRequest(a)
  BY <1>2, UserStep
<1>3. CASE Enable \/ Disable \/ StartDiagScan \/ StopDiagScan \/ LeaseLapses
  BY <1>3, DemandStep
    DEF Enable, Disable, StartDiagScan, StopDiagScan, LeaseLapses, Lease, IInv, TypeOK
<1>4. CASE MgrNext \/ ScanElapses  BY <1>4, MgrStep
<1>5. CASE UNCHANGED vars
  BY <1>5 DEF vars, IInv, TypeOK, PowerOK, QueueOK, ManagerOK, StrayOK, SettledOK,
              SettledStatusHolds, WaitOK, Requesting, pmVars, mgrVars, ctlVars, wantVars
<1> QED  BY <1>1, <1>2, <1>3, <1>4, <1>5 DEF Next

\* The inductive invariant holds in every reachable state, for any timeout, any
\* policies and any number of events.
THEOREM Invariance == Spec => []IInv
  BY InitIInv, StepIInv, PTL DEF Spec

-----------------------------------------------------------------------------
(* The properties. *)

\* The variables of PowerManager and BleScaleService keep their types.
THEOREM TypeCorrectness == Spec => []TypeOK
<1>1. IInv => TypeOK  BY DEF IInv
<1> QED  BY <1>1, Invariance, PTL

\* processControllerTransition() never deinitialises NimBLE under a running mode,
\* and no mode is entered before the controller runs again.
THEOREM RadioReleased == Spec => []RadioReleasedBeforeDeinit
<1>1. IInv => RadioReleasedBeforeDeinit
  BY DEF IInv, ManagerOK, RadioReleasedBeforeDeinit
<1> QED  BY <1>1, Invariance, PTL

\* ScaleRadioStateMachine's state and its ControllerTransition agree whenever
\* update() has returned.
THEOREM WaitMatches == Spec => []WaitMatchesState
<1>1. IInv => WaitMatchesState
  BY DEF IInv, PowerOK, WaitOK, WaitMatchesState
<1> QED  BY <1>1, Invariance, PTL

\* _controllerRequestPending keeps the command queue at one controller command.
THEOREM OneRequest == Spec => []RequestFlagGuardsQueue
<1>1. IInv => RequestFlagGuardsQueue
  <2> SUFFICES ASSUME IInv PROVE RequestFlagGuardsQueue  OBVIOUS
  <2>1. Len(cmdQueue) <= 1
    <3>1. /\ Len(<<>>) = 0
          /\ Len(<<"StopController">>) = 1 /\ Len(<<"StartController">>) = 1
      OBVIOUS
    <3>2. cmdQueue \in {<<>>, <<"StopController">>, <<"StartController">>}
      BY DEF IInv, QueueOK
    <3> QED  BY <3>1, <3>2
  <2> QED  BY <2>1 DEF IInv, QueueOK, RequestFlagGuardsQueue
<1> QED  BY <1>1, Invariance, PTL

\* No controller command outlives the machine's wait for it while the manager
\* takes commands promptly.
THEOREM NoStray == Spec => []NoStrayRequest
<1>1. IInv => NoStrayRequest
  <2> SUFFICES ASSUME IInv, cmdQueue # <<>>
               PROVE  /\ Head(cmdQueue) = "StopController" <=>
                           cmdQueue = <<"StopController">>
                      /\ StrayOK
    BY DEF NoStrayRequest, StrayOK
  <2> QED  BY DEF IInv, QueueOK
<1> QED  BY <1>1, Invariance, PTL

\* An ExternalControl handover leaves no suspension and no pending transition.
THEOREM Handover == Spec => []HandoverStrandsNothing
<1>1. IInv => HandoverStrandsNothing
  <2> SUFFICES ASSUME IInv, machine.policy = "ExternalControl"
               PROVE  machine.wait = "Inactive"
    BY DEF IInv, PowerOK, HandoverStrandsNothing
  <2>1. pmPc \in {"idle", "update", "apply"}
    BY DEF IInv, PowerOK, TypeOK, PmPc
  <2> QED  BY <2>1 DEF IInv, PowerOK, WaitOK
<1> QED  BY <1>1, Invariance, PTL

\* _radioStatus.settled stays true of the controller until the machine acts.
THEOREM SettledStatus == Spec => []SettledStatusHolds
<1>1. IInv => SettledStatusHolds  BY DEF IInv
<1> QED  BY <1>1, Invariance, PTL

\* expireDiagScanLease() never clears a lease that was renewed in time.
THEOREM LeaseRenewal == Spec => RenewedLeaseSurvives
<1>1. [Next]_vars => (lease = "Live" /\ lease' = "None" => mgrPc' = mgrPc)
  <2> SUFFICES ASSUME [Next]_vars, lease = "Live", lease' = "None", mgrPc' # mgrPc
               PROVE  FALSE
    OBVIOUS
  <2>1. ~PmNext
    BY DEF PmNext, PmObserve, PmUpdate, PmRequest, PmResolve, PmApply, wantVars
  <2>2. ~MgrNext
    BY DEF MgrNext, MgrDrain, MgrClearRequest, MgrExpireLease, MgrClearLease,
           MgrControl, MgrDeinit, MgrSelect, MgrSwitchMode, MgrRun, MgrKeeps, wantVars
  <2>3. ~(UpdateStartup \/ NotifyUserActivity \/ DimScreen \/ Tick \/ ScanElapses)
    BY DEF UpdateStartup, NotifyUserActivity, DimScreen, Tick, ScanElapses, wantVars
  <2>4. /\ \A p \in Policies : ~SetScaleRadioPolicy(p)
        /\ \A a \in {"StopController", "StartController"} : ~AppRequest(a)
    BY DEF SetScaleRadioPolicy, AppRequest, wantVars
  <2>5. ~(Enable \/ Disable \/ StartDiagScan \/ StopDiagScan \/ LeaseLapses)
    BY DEF Enable, Disable, StartDiagScan, StopDiagScan, LeaseLapses, Want, mgrVars
  <2>6. ~UNCHANGED vars
    BY DEF vars, wantVars
  <2> QED  BY <2>1, <2>2, <2>3, <2>4, <2>5, <2>6 DEF Next
<1> QED  BY <1>1, PTL DEF Spec, RenewedLeaseSurvives

=============================================================================
