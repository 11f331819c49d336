------------------------ MODULE NetworkServicesProofs ------------------------
(***************************************************************************)
(* Proofs about the network services: that the manager, its host and the   *)
(* servers implement the radio service that module WifiScreens is built    *)
(* on, and that the manager and the driver agree when the events have been *)
(* worked off; for any networks, faults, events, requests and restarts.    *)
(***************************************************************************)
EXTENDS NetworkServices, TLAPS

------------------------------------------------------------------------------
(* What the operations of the manager come to.                             *)

Nvs == [configured : BOOLEAN, mode : Mode, ssid : Ssids \cup {None}, pass : Passes \cup {None}]
SlotValues == Requests \cup {Req(None)}

LEMMA RequestFields ==
  ASSUME NEW r \in SlotValues
  PROVE  /\ r.terminal = FALSE /\ r.action \in Action /\ r.persist \in BOOLEAN
         /\ r.action = "connect" => r.cred \in Creds
<1>1. CASE r \in Asking({"connect"}, {FALSE}, Creds) BY <1>1 DEF Asking, Action
<1>2. CASE r \in Asking({"stop", "retry"}, BOOLEAN, {NoCred}) BY <1>2 DEF Asking, Action
<1>3. CASE r \in Asking({"reset", "startAp"}, {FALSE}, {NoCred}) BY <1>3 DEF Asking, Action
<1>4. CASE r = Req(None) BY <1>4 DEF Req, Action, None
<1> QED BY <1>1, <1>2, <1>3, <1>4 DEF SlotValues, Requests

LEMMA StaStarts ==
  ASSUME nvs \in Nvs, NEW p \in BOOLEAN, NEW c \in [ssid : Ssids, pass : Passes \cup {None}],
         StartSta(c, p)
  PROVE  /\ mode' = "sta" /\ state' = "connecting" /\ fallbackAp' = FALSE
         /\ nvs' \in Nvs
         /\ nvs'.configured \in {nvs.configured, TRUE} /\ nvs'.ssid \in {nvs.ssid, c.ssid}
         /\ SwitchTo("sta")
<1>1. /\ mode' = "sta" /\ state' = "connecting" /\ fallbackAp' = FALSE /\ SwitchTo("sta")
  BY DEF StartSta
<1>2. CASE ~p
  BY <1>1, <1>2 DEF StartSta
<1>3. CASE p
  <2>1. PICK okS \in BOOLEAN, okP \in BOOLEAN, okC \in BOOLEAN, okM \in BOOLEAN :
          nvs' = SavedNvs(c, okS, okP, okC, okM)
    BY <1>3 DEF StartSta
  <2>2. MarkConfigured(nvs, okC) \in Nvs /\ MarkConfigured(nvs, okC).ssid = nvs.ssid
        /\ MarkConfigured(nvs, okC).configured \in {nvs.configured, TRUE}
    BY DEF MarkConfigured, Nvs
  <2>3. "sta" \in Mode BY DEF Mode
  <2>4. /\ nvs' \in Nvs
        /\ nvs'.configured \in {nvs.configured, TRUE} /\ nvs'.ssid \in {nvs.ssid, c.ssid}
    BY <2>1, <2>2, <2>3 DEF SavedNvs, Nvs
  <2> QED BY <1>1, <2>4
<1> QED BY <1>2, <1>3

LEMMA ApStarts ==
  ASSUME nvs \in Nvs, NEW read, NEW p \in BOOLEAN, NEW fb \in BOOLEAN, StartApAfter(read, p, fb)
  PROVE  /\ \/ mode' = "ap" /\ state' = "up" /\ fallbackAp' = fb
            \/ mode' = "off" /\ state' = "off" /\ fallbackAp' = FALSE
         /\ nvs' \in Nvs /\ nvs'.configured = nvs.configured /\ nvs'.ssid = nvs.ssid
         /\ SwitchTo("ap")
<1>1. "ap" \in Mode BY DEF Mode
<1> QED BY <1>1 DEF StartApAfter, Nvs

LEMMA Stops ==
  ASSUME nvs \in Nvs, NEW p \in BOOLEAN, Stop(p)
  PROVE  /\ mode' = "off" /\ state' = "off" /\ fallbackAp' = FALSE
         /\ nvs' \in Nvs /\ nvs'.configured = nvs.configured /\ nvs'.ssid = nvs.ssid
         /\ \E on \in {"off", driver.on} : SwitchTo(on)
<1>1. "off" \in Mode BY DEF Mode
<1> QED BY <1>1 DEF Stop, SwitchOff, Nvs

LEMMA Resets ==
  ASSUME nvs \in Nvs, ResetAllConfig
  PROVE  /\ mode' = "off" /\ state' = "off" /\ fallbackAp' = FALSE
         /\ nvs' \in {nvs, EmptyNvs} /\ nvs' \in Nvs
         /\ \E on \in {"off", driver.on} : SwitchTo(on)
<1>1. EmptyNvs \in Nvs BY DEF EmptyNvs, Nvs, Mode
<1> QED BY <1>1 DEF ResetAllConfig, SwitchOff

------------------------------------------------------------------------------
(* The host between the slot and the manager.                              *)

(* A request is held from the moment the slot is emptied until it is       *)
(* carried out, and the radio is off until the program has booted.         *)
HostInv ==
  /\ nvs \in Nvs /\ pending \in SlotValues /\ req \in SlotValues
  /\ mainPc \in {"stopHttp", "apply"} <=> req.action # None
  /\ mainPc = "boot" => mode = "off" /\ state = "off" /\ fallbackAp = FALSE

LEMMA HostInvInit == Init => HostInv
<1>1. Req(None).action = None /\ Req(None) \in SlotValues BY DEF Req, SlotValues
<1>2. EmptyNvs \in Nvs BY DEF EmptyNvs, Nvs, Mode
<1>3. ASSUME NEW c \in Creds
      PROVE  [configured |-> TRUE, mode |-> "sta", ssid |-> c.ssid, pass |-> c.pass] \in Nvs
  BY DEF Nvs, Mode, Creds
<1> QED BY <1>1, <1>2, <1>3 DEF Init, WifiInit, HostInv

LEMMA TakenSlot ==
  ASSUME HostInv, TakeSlot
  PROVE  pending' = Req(None)
<1>1. pending.terminal = FALSE BY RequestFields DEF HostInv
<1> QED BY <1>1 DEF TakeSlot, Req

LEMMA Posted ==
  ASSUME HostInv, NEW r \in Requests, Post(r)
  PROVE  /\ pending' \in SlotValues
         /\ pending'.action = IF pending.action = "reset" THEN "reset" ELSE r.action
<1>1. pending.terminal = FALSE BY RequestFields DEF HostInv
<1> QED BY <1>1 DEF HostInv, Post, Locked, SlotValues

(* The requests as the service sees them.                                  *)
LEMMA Applied ==
  ASSUME HostInv, Apply
  PROVE  /\ pending' = pending /\ req' = Req(None)
         /\ nvs' \in Nvs /\ Radio!CarryOut
         /\ \/ \E on \in {"sta", "ap", "off", driver.on} : SwitchTo(on)
            \/ UNCHANGED <<driver, events, mode, state>>
         /\ \/ mode' = "sta" /\ state' = "connecting" 
            \/ mode' = "ap" /\ state' = "up" /\ SwitchTo("ap")
            \/ mode' = "off" /\ state' = "off"
            \/ UNCHANGED <<driver, events, mode, state>>
<1> USE DEF HostInv
<1>1. /\ mainPc = "apply" /\ pending' = pending /\ req' = Req(None) /\ req.action # None
  BY DEF Apply
<1>2. req.action \in Action \ {None} /\ req.persist \in BOOLEAN BY <1>1, RequestFields
<1>3. Req(None).action = None BY DEF Req
<1>4. CASE req.action = "connect"
  <2>1. StartSta(req.cred, TRUE) /\ req.cred \in Creds BY <1>4, RequestFields DEF Apply
  <2>2. req.cred \in [ssid : Ssids, pass : Passes \cup {None}] /\ req.cred.ssid # None
    BY <2>1, WifiAssumption DEF Creds, None
  <2>3. /\ mode' = "sta" /\ state' = "connecting" /\ fallbackAp' = FALSE
        /\ nvs' \in Nvs
        /\ nvs'.configured \in {nvs.configured, TRUE} /\ nvs'.ssid \in {nvs.ssid, req.cred.ssid}
        /\ SwitchTo("sta")
    BY <2>1, <2>2, StaStarts
  <2>4. Radio!CarryOut
    BY <1>1, <1>3, <1>4, <2>2, <2>3
       DEF Radio!CarryOut, Radio!StationStarts, Radio!Becomes, Radio!Idle, None
  <2> QED BY <1>1, <2>3, <2>4
<1>5. CASE req.action = "reset"
  <2>1. ResetAllConfig BY <1>5 DEF Apply
  <2>2. /\ mode' = "off" /\ state' = "off" /\ fallbackAp' = FALSE
        /\ nvs' \in {nvs, EmptyNvs} /\ nvs' \in Nvs
        /\ \E on \in {"off", driver.on} : SwitchTo(on)
    BY <2>1, Resets
  <2>3. Radio!WipeConfig
    <3>1. CASE nvs' = nvs BY <3>1 DEF Radio!WipeConfig, Nvs
    <3>2. CASE nvs' = EmptyNvs BY <3>2 DEF Radio!WipeConfig, EmptyNvs
    <3> QED BY <2>2, <3>1, <3>2
  <2>4. Radio!CarryOut
    BY <1>1, <1>3, <1>5, <2>2, <2>3 DEF Radio!CarryOut, Radio!Becomes, Radio!Idle, None
  <2> QED BY <1>1, <2>2, <2>4
<1>6. CASE req.action = "startAp"
  <2>1. PICK p \in BOOLEAN : StartAp(p, FALSE)
    <3>1. IsConfigured \in BOOLEAN BY DEF IsConfigured, Nvs
    <3>2. StartAp(~IsConfigured, FALSE) BY <1>6 DEF Apply
    <3> QED BY <3>1, <3>2
  <2>2. /\ \/ mode' = "ap" /\ state' = "up" /\ fallbackAp' = FALSE
           \/ mode' = "off" /\ state' = "off" /\ fallbackAp' = FALSE
        /\ nvs' \in Nvs /\ nvs'.configured = nvs.configured /\ nvs'.ssid = nvs.ssid
        /\ SwitchTo("ap")
    BY <2>1, ApStarts DEF StartAp
  <2>3. Radio!CarryOut
    BY <1>1, <1>3, <1>6, <2>2 DEF Radio!CarryOut, Radio!Becomes, Radio!Idle, None
  <2> QED BY <1>1, <2>2, <2>3
<1>7. CASE req.action = "stop"
  <2>1. Stop(req.persist) BY <1>7 DEF Apply
  <2>2. /\ mode' = "off" /\ state' = "off" /\ fallbackAp' = FALSE
        /\ nvs' \in Nvs /\ nvs'.configured = nvs.configured /\ nvs'.ssid = nvs.ssid
        /\ \E on \in {"off", driver.on} : SwitchTo(on)
    BY <1>2, <2>1, Stops
  <2>3. Radio!CarryOut
    BY <1>1, <1>3, <1>7, <2>2 DEF Radio!CarryOut, Radio!Becomes, Radio!Idle, None
  <2> QED BY <1>1, <2>2, <2>3
<1>8. CASE req.action = "retry"
  <2>1. RetrySta(req.persist) BY <1>8 DEF Apply
  <2>2. CASE NothingStarts
    <3>1. UNCHANGED <<sessVars, nvs, driver, events>> BY <2>2 DEF NothingStarts
    <3>2. Radio!CarryOut
      BY <1>1, <1>3, <1>8, <3>1 DEF Radio!CarryOut, Radio!Idle, None, sessVars
    <3> QED BY <1>1, <3>1, <3>2 DEF sessVars
  <2>3. CASE nvs.ssid # None /\ StartSta([ssid |-> nvs.ssid, pass |-> nvs.pass], req.persist)
    <3> DEFINE c == [ssid |-> nvs.ssid, pass |-> nvs.pass]
    <3>1. StartSta(c, req.persist) BY <2>3
    <3>2. c \in [ssid : Ssids, pass : Passes \cup {None}] /\ c.ssid = nvs.ssid
      BY <2>3 DEF Nvs
    <3> HIDE DEF c
    <3>3. /\ mode' = "sta" /\ state' = "connecting" /\ fallbackAp' = FALSE
          /\ nvs' \in Nvs
          /\ nvs'.configured \in {nvs.configured, TRUE} /\ nvs'.ssid \in {nvs.ssid, c.ssid}
          /\ SwitchTo("sta")
      BY <1>2, <3>1, <3>2, StaStarts
    <3>4. Radio!CarryOut
      BY <1>1, <1>3, <1>8, <2>3, <3>2, <3>3
         DEF Radio!CarryOut, Radio!StationStarts, Radio!Becomes, Radio!Idle, None
    <3> QED BY <1>1, <3>3, <3>4
  <2> QED BY <2>1, <2>2, <2>3 DEF RetrySta
<1> QED BY <1>2, <1>4, <1>5, <1>6, <1>7, <1>8 DEF Action

RadioStep == [Radio!RadioNext]_(Radio!radioVars)

LEMMA Standing ==
  ASSUME HostInv, UNCHANGED <<mode, state, fallbackAp, pending, nvs, req>>,
         mainPc' \in {"stopHttp", "apply"} <=> mainPc \in {"stopHttp", "apply"},
         mainPc' = "boot" => mainPc = "boot"
  PROVE  HostInv' /\ RadioStep
BY DEF HostInv, RadioStep, Radio!radioVars

LEMMA BootStep == HostInv /\ Boot => HostInv' /\ RadioStep
<1> SUFFICES ASSUME HostInv, Boot PROVE HostInv' /\ RadioStep OBVIOUS
<1>1. /\ mainPc = "boot" /\ mainPc' = "idle" /\ UNCHANGED <<pending, req>> /\ BeginIfPersisted
      /\ mode = "off" /\ state = "off" /\ fallbackAp = FALSE /\ nvs \in Nvs /\ req.action = None
  BY DEF Boot, HostInv
<1>2. CASE NothingStarts
  BY <1>1, <1>2, Standing DEF NothingStarts, sessVars
<1>3. CASE nvs.configured /\ nvs.ssid # None /\ mode' = "sta" /\ state' = "connecting"
           /\ UNCHANGED <<nvs, fallbackAp>>
  <2>1. mode' = "sta" /\ state' = "connecting" /\ UNCHANGED <<nvs, fallbackAp>> BY <1>3
  <2>2. Radio!BootRadio
    BY <1>1, <1>3, <2>1 DEF Radio!BootRadio, Radio!Becomes, Radio!Idle, None
  <2>3. HostInv' BY <1>1, <2>1 DEF HostInv
  <2> QED BY <2>2, <2>3 DEF RadioStep, Radio!RadioNext
<1>4. ASSUME nvs.configured, NEW read, StartApAfter(read, TRUE, FALSE)
      PROVE  HostInv' /\ RadioStep
  <2>1. /\ \/ mode' = "ap" /\ state' = "up" /\ fallbackAp' = FALSE
           \/ mode' = "off" /\ state' = "off" /\ fallbackAp' = FALSE
        /\ nvs' \in Nvs /\ nvs'.configured = nvs.configured /\ nvs'.ssid = nvs.ssid
    BY <1>1, <1>4, ApStarts
  <2>2. Radio!BootRadio
    BY <1>1, <1>4, <2>1 DEF Radio!BootRadio, Radio!Becomes, Radio!Idle, None
  <2>3. HostInv' BY <1>1, <2>1 DEF HostInv
  <2> QED BY <2>2, <2>3 DEF RadioStep, Radio!RadioNext
<1> QED BY <1>1, <1>2, <1>3, <1>4 DEF BeginIfPersisted

LEMMA TakeStep == HostInv /\ TakePending => HostInv' /\ RadioStep
<1> SUFFICES ASSUME HostInv, TakePending PROVE HostInv' /\ RadioStep OBVIOUS
<1>1. /\ mainPc = "idle" /\ pending' = Req(None) /\ UNCHANGED <<mode, state, fallbackAp, nvs>>
      /\ req.action = None /\ pending \in SlotValues /\ Req(None) \in SlotValues
      /\ Req(None).action = None
  BY TakenSlot DEF TakePending, sessVars, HostInv, SlotValues, Req
<1>2. CASE mainPc' = "timeout" /\ UNCHANGED req /\ pending.action = None
  BY <1>1, <1>2 DEF HostInv, RadioStep, Radio!radioVars
<1>3. CASE /\ mainPc' = "timeout" /\ UNCHANGED req
           /\ pending.action = "connect"
           /\ \E readable \in BOOLEAN : StaSessionMatches(pending.cred, readable)
  <2>1. state = "connected" /\ nvs.ssid # None
    <3>1. pending.cred \in Creds BY <1>1, <1>3, RequestFields
    <3> QED BY <1>3, <3>1, WifiAssumption DEF StaSessionMatches, Creds, None
  <2>2. Radio!TakeRadio
    BY <1>1, <1>3, <2>1 DEF Radio!TakeRadio, Radio!Idle, None
  <2>3. HostInv' BY <1>1, <1>3 DEF HostInv
  <2> QED BY <2>2, <2>3 DEF RadioStep, Radio!RadioNext
<1>4. CASE mainPc' = "stopHttp" /\ req' = pending /\ pending.action # None
  <2>1. Radio!TakeRadio
    BY <1>1, <1>4 DEF Radio!TakeRadio, Radio!Idle, None
  <2>2. HostInv' BY <1>1, <1>4 DEF HostInv
  <2> QED BY <2>1, <2>2 DEF RadioStep, Radio!RadioNext
<1> QED BY <1>2, <1>3, <1>4 DEF TakePending

LEMMA ApplyStep == HostInv /\ Apply => HostInv' /\ RadioStep
<1> SUFFICES ASSUME HostInv, Apply PROVE HostInv' /\ RadioStep OBVIOUS
<1>1. mainPc' = "timeout" BY DEF Apply
<1>2. Req(None).action = None /\ Req(None) \in SlotValues BY DEF Req, SlotValues
<1>3. HostInv' BY <1>1, <1>2, Applied DEF HostInv
<1> QED BY <1>3, Applied DEF RadioStep, Radio!RadioNext

LEMMA TimeoutStep == HostInv /\ CheckTimeout => HostInv' /\ RadioStep
<1> SUFFICES ASSUME HostInv, CheckTimeout PROVE HostInv' /\ RadioStep OBVIOUS
<1>1. /\ mainPc = "timeout" /\ mainPc' = "sync" /\ UNCHANGED <<pending, req>>
      /\ req.action = None /\ nvs \in Nvs
  BY DEF CheckTimeout, HostInv
<1>2. CASE ~TimedOut
  BY <1>1, <1>2, Standing DEF CheckTimeout, sessVars
<1>3. CASE TimedOut
  <2>1. StartAp(FALSE, TRUE) /\ nvs' = nvs BY <1>3 DEF CheckTimeout, StartAp, StartApAfter
  <2>2. /\ \/ mode' = "ap" /\ state' = "up" /\ fallbackAp' = TRUE
           \/ mode' = "off" /\ state' = "off" /\ fallbackAp' = FALSE
    BY <1>1, <2>1, ApStarts DEF StartAp
  <2>3. Radio!FallBack
    BY <1>1, <1>3, <2>1, <2>2 DEF TimedOut, Radio!FallBack, Radio!Becomes, Radio!Idle, None
  <2>4. HostInv' BY <1>1, <2>1 DEF HostInv
  <2> QED BY <2>3, <2>4 DEF RadioStep, Radio!RadioNext
<1> QED BY <1>2, <1>3

LEMMA EraseStep == HostInv /\ StopForDataErase => HostInv' /\ RadioStep
<1> SUFFICES ASSUME HostInv, StopForDataErase PROVE HostInv' /\ RadioStep OBVIOUS
<1>1. CASE mainPc = "idle"
  BY <1>1, Standing DEF StopForDataErase, sessVars
<1>2. CASE mainPc = "erase"
  <2>1. /\ mainPc' = "erased" /\ Stop(FALSE) /\ UNCHANGED <<pending, req>> /\ nvs' = nvs
        /\ req.action = None /\ nvs \in Nvs
    BY <1>2 DEF StopForDataErase, Stop, HostInv
  <2>2. mode' = "off" /\ state' = "off" /\ fallbackAp' = FALSE BY <2>1, Stops
  <2>3. Radio!StopForErase
    BY <2>1, <2>2 DEF Radio!StopForErase, Radio!Becomes, Radio!Idle, None
  <2>4. HostInv' BY <2>1 DEF HostInv
  <2> QED BY <2>3, <2>4 DEF RadioStep, Radio!RadioNext
<1> QED BY <1>1, <1>2 DEF StopForDataErase

LEMMA PostStep ==
  ASSUME HostInv, NEW r \in Requests, Post(r), mainPc' = mainPc,
         UNCHANGED <<mode, state, fallbackAp, nvs, req>>
  PROVE  HostInv' /\ RadioStep
<1>1. r.action \in Radio!Actions
  BY DEF Requests, Asking, Radio!Actions
<1>2. Radio!PostRadio(r.action) BY Posted DEF Radio!PostRadio
<1>3. HostInv' BY Posted DEF HostInv
<1> QED BY <1>1, <1>2, <1>3 DEF RadioStep, Radio!RadioNext

LEMMA ScreenStep == HostInv /\ ScreenRequests => HostInv' /\ RadioStep
<1> SUFFICES ASSUME HostInv, ScreenRequests PROVE HostInv' /\ RadioStep OBVIOUS
<1>1. mainPc = "idle" /\ mainPc' = mainPc /\ UNCHANGED req /\ req.action = None /\ nvs \in Nvs
  BY DEF ScreenRequests, HostInv
<1>2. CASE \E r \in Requests : Post(r) /\ UNCHANGED <<sessVars, nvs>>
  BY <1>1, <1>2, PostStep DEF sessVars
<1>3. CASE NothingStarts /\ UNCHANGED pending
  BY <1>1, <1>3, Standing DEF NothingStarts, sessVars
<1>4. CASE /\ nvs.ssid # None /\ StartSta([ssid |-> nvs.ssid, pass |-> nvs.pass], TRUE)
           /\ UNCHANGED pending
  <2> DEFINE c == [ssid |-> nvs.ssid, pass |-> nvs.pass]
  <2>1. StartSta(c, TRUE) BY <1>4
  <2>2. c \in [ssid : Ssids, pass : Passes \cup {None}] /\ c.ssid = nvs.ssid
    BY <1>1, <1>4 DEF Nvs
  <2> HIDE DEF c
  <2>3. /\ mode' = "sta" /\ state' = "connecting" /\ fallbackAp' = FALSE
        /\ nvs' \in Nvs /\ nvs'.configured \in {nvs.configured, TRUE} /\ nvs'.ssid = nvs.ssid
    BY <1>1, <2>1, <2>2, StaStarts
  <2>4. Radio!RetryDirectly
    BY <1>1, <1>4, <2>3
       DEF Radio!RetryDirectly, Radio!StationStarts, Radio!Becomes, Radio!Idle, None
  <2>5. HostInv' BY <1>1, <1>4, <2>3 DEF HostInv
  <2> QED BY <2>4, <2>5 DEF RadioStep, Radio!RadioNext
<1> QED BY <1>2, <1>3, <1>4 DEF ScreenRequests, RetrySta

LEMMA HandlerStep == HostInv /\ HandlePost => HostInv' /\ RadioStep
<1> SUFFICES ASSUME HostInv, HandlePost PROVE HostInv' /\ RadioStep OBVIOUS
<1>1. UNCHANGED <<mode, state, fallbackAp, req, mainPc>> /\ nvs \in Nvs
  BY DEF HandlePost, sessVars, hostVars, HostInv
<1>2. CASE \E r \in Requests : Post(r) /\ UNCHANGED nvs
  BY <1>1, <1>2, PostStep
<1>3. CASE \E ok \in BOOLEAN : nvs' = MarkConfigured(nvs, ok) /\ UNCHANGED pending
  <2>1. /\ nvs' \in Nvs /\ nvs'.ssid = nvs.ssid
        /\ nvs'.configured = TRUE \/ nvs' = nvs
    <3>1. PICK ok \in BOOLEAN : nvs' = MarkConfigured(nvs, ok) BY <1>3
    <3>2. CASE ok BY <1>1, <3>1, <3>2 DEF MarkConfigured, Nvs
    <3>3. CASE ~ok BY <1>1, <3>1, <3>3 DEF MarkConfigured, Nvs
    <3> QED BY <3>2, <3>3
  <2>2. HostInv' BY <1>1, <1>3, <2>1 DEF HostInv
  <2>3. CASE nvs' = nvs BY <1>1, <1>3, <2>3, Standing
  <2>4. CASE nvs'.configured = TRUE
    <3>1. Radio!MarkRadioConfigured BY <1>1, <1>3, <2>1, <2>4 DEF Radio!MarkRadioConfigured
    <3> QED BY <2>2, <3>1 DEF RadioStep, Radio!RadioNext
  <2> QED BY <2>1, <2>3, <2>4
<1> QED BY <1>2, <1>3 DEF HandlePost

LEMMA EventStep == HostInv /\ HandleEvent /\ UNCHANGED hostVars => HostInv' /\ RadioStep
<1> SUFFICES ASSUME HostInv, HandleEvent, UNCHANGED hostVars PROVE HostInv' /\ RadioStep
  OBVIOUS
<1>1. UNCHANGED <<mode, fallbackAp, pending, nvs, req, mainPc>>
  BY DEF HandleEvent, hostVars
<1>2. \/ state' = state
      \/ mode = "sta" /\ state' \in {"connecting", "connected"}
      \/ mode = "ap" /\ state' \in {"up", "off"}
  BY DEF HandleEvent, GotIp, Disconnected
<1>3. CASE state' = state BY <1>1, <1>3, Standing
<1>4. CASE /\ mode # "off"
           /\ \/ mode = "sta" /\ state' \in {"connecting", "connected"}
              \/ mode = "ap" /\ state' \in {"up", "off"}
  <2>1. Radio!Report BY <1>1, <1>4 DEF Radio!Report
  <2>2. HostInv' BY <1>1, <1>4 DEF HostInv
  <2> QED BY <2>1, <2>2 DEF RadioStep, Radio!RadioNext
<1> QED BY <1>2, <1>3, <1>4

LEMMA RestartStep == HostInv /\ Restart => HostInv' /\ RadioStep
<1> SUFFICES ASSUME HostInv, Restart PROVE HostInv' /\ RadioStep OBVIOUS
<1>1. /\ mode' = "off" /\ state' = "off" /\ fallbackAp' = FALSE
      /\ pending' = Req(None) /\ req' = Req(None) /\ mainPc' = "boot"
      /\ nvs' \in {nvs, EmptyNvs}
  BY DEF Restart, PowerUp
<1>2. Req(None).action = None /\ Req(None) \in SlotValues BY DEF Req, SlotValues
<1>3. EmptyNvs \in Nvs /\ EmptyNvs.configured = FALSE /\ EmptyNvs.ssid = None
  BY DEF EmptyNvs, Nvs, Mode
<1>4. HostInv' BY <1>1, <1>2, <1>3 DEF HostInv
<1>5. Radio!WipeConfig
  <2>1. CASE nvs' = nvs BY <2>1 DEF Radio!WipeConfig, HostInv, Nvs
  <2>2. CASE nvs' = EmptyNvs BY <1>3, <2>2 DEF Radio!WipeConfig
  <2> QED BY <1>1, <2>1, <2>2
<1>6. Radio!PowerCycle
  BY <1>1, <1>2, <1>5 DEF Radio!PowerCycle, Radio!Becomes, Radio!Idle, None
<1> QED BY <1>4, <1>6 DEF RadioStep, Radio!RadioNext

LEMMA HostStep == HostInv /\ [Next]_vars => HostInv' /\ RadioStep
<1> SUFFICES ASSUME HostInv, [Next]_vars PROVE HostInv' /\ RadioStep OBVIOUS
<1>1. CASE HttpStopped
  BY <1>1, Standing DEF HttpStopped, wifiVars, sessVars
<1>2. CASE SyncServers
  BY <1>2, Standing DEF SyncServers, sessVars
<1>3. CASE \E t \in Tasks : AskConfigured(t) \/ FillCache(t)
  BY <1>3, Standing DEF AskConfigured, FillCache, wifiVars, sessVars
<1>4. CASE HandleOther \/ ServerTask \/ Environment \/ RegistryChanges
  BY <1>4, Standing
     DEF HandleOther, ServerTask, Environment, RegistryChanges, wifiVars, sessVars, hostVars
<1>5. CASE (LinkChanges \/ ControllerStarts) /\ UNCHANGED hostVars
  BY <1>5, Standing DEF LinkChanges, ControllerStarts, sessVars, hostVars
<1>6. CASE Expire \/ UNCHANGED vars
  BY <1>6, Standing DEF Expire, vars, wifiVars, sessVars, hostVars
<1> QED BY <1>1, <1>2, <1>3, <1>4, <1>5, <1>6, BootStep, TakeStep, ApplyStep, TimeoutStep,
           EraseStep, ScreenStep, HandlerStep, EventStep, RestartStep
        DEF Next, MainPass

LEMMA RadioInits == Init => Radio!RadioInit
<1>1. Req(None).action = None BY DEF Req
<1>2. ASSUME NEW c \in Creds PROVE c.ssid # None
  BY WifiAssumption DEF Creds, None
<1> SUFFICES ASSUME Init PROVE Radio!RadioInit OBVIOUS
<1>3. /\ pending = Req(None) /\ req = Req(None) /\ mode = "off" /\ state = "off"
      /\ fallbackAp = FALSE
  BY DEF Init, WifiInit
<1>4. (nvs.configured = FALSE /\ nvs.ssid = None) \/ (nvs.configured = TRUE /\ nvs.ssid # None)
  <2>1. CASE nvs = EmptyNvs BY <2>1 DEF EmptyNvs
  <2>2. CASE \E c \in Creds : nvs = [configured |-> TRUE, mode |-> "sta",
                                    ssid |-> c.ssid, pass |-> c.pass]
    BY <1>2, <2>2
  <2> QED BY <2>1, <2>2 DEF Init, WifiInit
<1>5. nvs.configured \in BOOLEAN /\ (nvs.ssid # None) = nvs.configured
  BY <1>4
<1> QED BY <1>1, <1>3, <1>5 DEF Radio!RadioInit, Radio!Idle, None

(* The manager's slot, its host's passes and the driver's events are the   *)
(* radio service: requests are taken and carried out one at a time, a      *)
(* reset yields to nothing, and the state moves only as they say           *)
(* (_post, _processPending, update, _onWifiEvent).                         *)
THEOREM RadioServiceImplemented == Spec => ImplementsRadio
<1>1. HostInv /\ [Next]_vars => HostInv' BY HostStep
<1>2. HostInv /\ [Next]_vars => [Radio!RadioNext]_(Radio!radioVars)
  BY HostStep DEF RadioStep
<1> QED BY <1>1, <1>2, HostInvInit, RadioInits, PTL DEF Spec, ImplementsRadio, Radio!RadioSpec

------------------------------------------------------------------------------
(* The driver's events on their way to the manager.                        *)

EventRecord == [ev : Event, why : Reason, stale : BOOLEAN]

Has(q, b) == \E j \in DOMAIN q : q[j].ev = b

(* Every event a in the queue is undone by an event b behind it.           *)
Undone(q, a, b) == \A i \in DOMAIN q : q[i].ev = a => \E j \in DOMAIN q : j > i /\ q[j].ev = b

LEMMA JoinedQueues ==
  ASSUME NEW q \in Seq(EventRecord), NEW l \in Seq(EventRecord), NEW a, NEW b,
         Undone(l, a, b), Undone(q, a, b) \/ Has(l, b)
  PROVE  q \o l \in Seq(EventRecord) /\ Undone(q \o l, a, b)
<1> DEFINE w == q \o l
<1>1. /\ w \in Seq(EventRecord) /\ Len(w) = Len(q) + Len(l) /\ DOMAIN w = 1..(Len(q) + Len(l))
      /\ Len(q) \in Nat /\ Len(l) \in Nat /\ DOMAIN q = 1..Len(q) /\ DOMAIN l = 1..Len(l)
      /\ \A i \in 1..Len(q) : w[i] = q[i]
      /\ \A i \in 1..Len(l) : w[Len(q) + i] = l[i]
  OBVIOUS
<1> HIDE DEF w
<1>2. ASSUME NEW i \in DOMAIN w, w[i].ev = a
      PROVE  \E j \in DOMAIN w : j > i /\ w[j].ev = b
  <2>1. CASE i > Len(q)
    <3>1. i - Len(q) \in DOMAIN l /\ l[i - Len(q)] = w[i]
      <4>1. i - Len(q) \in 1..Len(l) /\ Len(q) + (i - Len(q)) = i BY <1>1, <2>1
      <4> QED BY <1>1, <4>1
    <3>2. PICK j \in DOMAIN l : j > i - Len(q) /\ l[j].ev = b BY <1>2, <3>1 DEF Undone
    <3>3. Len(q) + j \in DOMAIN w /\ Len(q) + j > i /\ w[Len(q) + j] = l[j] BY <1>1, <2>1, <3>2
    <3> QED BY <3>2, <3>3
  <2>2. CASE i <= Len(q)
    <3>1. i \in DOMAIN q /\ q[i] = w[i] BY <1>1, <2>2
    <3>2. CASE Undone(q, a, b)
      <4>1. PICK j \in DOMAIN q : j > i /\ q[j].ev = b BY <1>2, <3>1, <3>2 DEF Undone
      <4> QED BY <1>1, <4>1
    <3>3. CASE Has(l, b)
      <4>1. PICK j \in DOMAIN l : l[j].ev = b BY <3>3 DEF Has
      <4>2. Len(q) + j \in DOMAIN w /\ Len(q) + j > i /\ w[Len(q) + j] = l[j] BY <1>1, <2>2, <4>1
      <4> QED BY <4>1, <4>2
    <3> QED BY <3>2, <3>3
  <2> QED BY <1>1, <2>1, <2>2
<1>3. Undone(w, a, b) BY <1>2 DEF Undone
<1> QED BY <1>1, <1>3 DEF w

LEMMA JoinedHas ==
  ASSUME NEW q \in Seq(EventRecord), NEW l \in Seq(EventRecord), NEW b, Has(q, b) \/ Has(l, b)
  PROVE  Has(q \o l, b)
<1> DEFINE w == q \o l
<1>1. /\ DOMAIN w = 1..(Len(q) + Len(l)) /\ Len(q) \in Nat /\ Len(l) \in Nat
      /\ DOMAIN q = 1..Len(q) /\ DOMAIN l = 1..Len(l)
      /\ \A i \in 1..Len(q) : w[i] = q[i]
      /\ \A i \in 1..Len(l) : w[Len(q) + i] = l[i]
  OBVIOUS
<1> HIDE DEF w
<1>2. CASE Has(q, b)
  <2>1. PICK j \in DOMAIN q : q[j].ev = b BY <1>2 DEF Has
  <2>2. j \in DOMAIN w /\ w[j] = q[j] BY <1>1, <2>1
  <2> QED BY <2>1, <2>2 DEF Has, w
<1>3. CASE Has(l, b)
  <2>1. PICK j \in DOMAIN l : l[j].ev = b BY <1>3 DEF Has
  <2>2. Len(q) + j \in DOMAIN w /\ w[Len(q) + j] = l[j] BY <1>1, <2>1
  <2> QED BY <2>1, <2>2 DEF Has, w
<1> QED BY <1>2, <1>3

LEMMA StaleQueue ==
  ASSUME NEW q \in Seq(EventRecord), NEW a, NEW b, Undone(q, a, b)
  PROVE  Stale(q) \in Seq(EventRecord) /\ Undone(Stale(q), a, b)
<1>1. /\ Stale(q) \in Seq(EventRecord) /\ DOMAIN Stale(q) = DOMAIN q
      /\ \A i \in DOMAIN q : Stale(q)[i].ev = q[i].ev
  <2>1. \A i \in DOMAIN q : /\ [q[i] EXCEPT !.stale = TRUE] \in EventRecord
                            /\ [q[i] EXCEPT !.stale = TRUE].ev = q[i].ev
    <3>1. ASSUME NEW e \in EventRecord
          PROVE  [e EXCEPT !.stale = TRUE] \in EventRecord /\ [e EXCEPT !.stale = TRUE].ev = e.ev
      BY DEF EventRecord
    <3>2. \A i \in DOMAIN q : q[i] \in EventRecord OBVIOUS
    <3> QED BY <3>1, <3>2
  <2>2. Stale(q) = [i \in 1..Len(q) |-> [q[i] EXCEPT !.stale = TRUE]] BY DEF Stale
  <2> QED BY <2>1, <2>2
<1> QED BY <1>1 DEF Undone

LEMMA RestOfQueue ==
  ASSUME NEW q \in Seq(EventRecord), q # <<>>
  PROVE  /\ Tail(q) \in Seq(EventRecord) /\ Head(q) \in EventRecord
         /\ \A a, b : Undone(q, a, b) =>
              Undone(Tail(q), a, b) /\ (Head(q).ev = a => Has(Tail(q), b) )
         /\ \A b : Has(q, b) /\ Head(q).ev # b => Has(Tail(q), b)
<1> DEFINE t == Tail(q)
<1>1. /\ t \in Seq(EventRecord) /\ Head(q) = q[1] /\ Head(q) \in EventRecord
      /\ Len(q) \in Nat \ {0} /\ DOMAIN q = 1..Len(q) /\ DOMAIN t = 1..(Len(q) - 1)
      /\ \A i \in 1..(Len(q) - 1) : t[i] = q[i + 1]
  OBVIOUS
<1> HIDE DEF t
<1>2. ASSUME NEW b, NEW j \in DOMAIN q, j > 1, q[j].ev = b
      PROVE  j - 1 \in DOMAIN t /\ t[j - 1].ev = b
  <2>1. j - 1 \in 1..(Len(q) - 1) /\ (j - 1) + 1 = j BY <1>1, <1>2
  <2> QED BY <1>1, <1>2, <2>1
<1>3. ASSUME NEW a, NEW b, Undone(q, a, b)
      PROVE  Undone(t, a, b) /\ (Head(q).ev = a => Has(t, b))
  <2>1. ASSUME NEW i \in DOMAIN t, t[i].ev = a
        PROVE  \E j \in DOMAIN t : j > i /\ t[j].ev = b
    <3>1. i + 1 \in DOMAIN q /\ q[i + 1].ev = a BY <1>1, <2>1
    <3>2. PICK j \in DOMAIN q : j > i + 1 /\ q[j].ev = b BY <1>3, <3>1 DEF Undone
    <3>3. j - 1 \in DOMAIN t /\ t[j - 1].ev = b BY <1>1, <1>2, <3>2
    <3> QED BY <1>1, <3>2, <3>3
  <2>2. ASSUME Head(q).ev = a PROVE Has(t, b)
    <3>1. PICK j \in DOMAIN q : j > 1 /\ q[j].ev = b BY <1>1, <1>3, <2>2 DEF Undone
    <3> QED BY <1>2, <3>1 DEF Has
  <2> QED BY <2>1, <2>2 DEF Undone
<1>4. ASSUME NEW b, Has(q, b), Head(q).ev # b PROVE Has(t, b)
  <2>1. PICK j \in DOMAIN q : q[j].ev = b BY <1>4 DEF Has
  <2>2. j > 1 BY <1>1, <1>4, <2>1
  <2> QED BY <1>2, <2>1, <2>2 DEF Has
<1> QED BY <1>1, <1>3, <1>4 DEF t

LinkTypes ==
  /\ driver \in [on : Mode, link : {"down", "assoc", "ip"}] /\ events \in Seq(EventRecord)
  /\ driver.on # "sta" => driver.link = "down"

(* An address that the station no longer has is followed by the news of    *)
(* its loss, and an access point that is up by the news of its start.      *)
NewsFollows ==
  /\ driver.link # "ip" => Undone(events, "gotIp", "down")
  /\ driver.on = "ap" => Undone(events, "apStop", "apStart")

(* What the manager says and the driver does not is news still queued.     *)
MatchesAfterNews ==
  /\ mode = "off" => state = "off"
  /\ mode = "ap" => state = "up" \/ driver.on # "ap" \/ Has(events, "apStart")
  /\ mode = "sta" /\ state = "connected" => driver.link = "ip" \/ Has(events, "down")

QueueInv == LinkTypes /\ NewsFollows /\ MatchesAfterNews

LEMMA QueueInvInit == Init => QueueInv
BY DEF Init, WifiInit, QueueInv, LinkTypes, NewsFollows, MatchesAfterNews, Undone, Mode

LEMMA OneEvent ==
  ASSUME NEW e \in Event, NEW r \in Reason
  PROVE  /\ <<Ev(e, r)>> \in Seq(EventRecord) /\ Len(<<Ev(e, r)>>) = 1 /\ <<Ev(e, r)>>[1].ev = e
         /\ \A a, b : a # e => Undone(<<Ev(e, r)>>, a, b)
         /\ Has(<<Ev(e, r)>>, e)
<1>1. Ev(e, r) \in EventRecord /\ Ev(e, r).ev = e BY DEF Ev, EventRecord
<1>2. DOMAIN <<Ev(e, r)>> = {1} /\ <<Ev(e, r)>>[1] = Ev(e, r) OBVIOUS
<1> QED BY <1>1, <1>2 DEF Undone, Has

LEMMA NoEvents ==
  <<>> \in Seq(EventRecord) /\ \A a, b : Undone(<<>>, a, b)
BY DEF Undone

(* Switching the driver to a mode, or to the same again.                   *)
LEMMA Switched ==
  ASSUME LinkTypes, NewsFollows, NEW on \in Mode, SwitchTo(on)
  PROVE  LinkTypes' /\ NewsFollows'
<1> DEFINE left == IF on = driver.on /\ on = "ap" THEN <<>> ELSE Leaving
           started == IF on = "ap" /\ driver.on # "ap" THEN <<Ev("apStart", None)>> ELSE <<>>
<1>1. driver' = [on |-> on, link |-> "down"] /\ events' = Stale(events \o left) \o started
  BY DEF SwitchTo
<1>2. /\ "apStart" \in Event /\ "apStop" \in Event /\ "down" \in Event
      /\ "generic" \in Reason /\ None \in Reason
  BY DEF Event, Reason
<1>3. /\ left \in Seq(EventRecord)
      /\ Undone(left, "gotIp", "down")
      /\ driver.link = "ip" => Has(left, "down")
      /\ on = "ap" /\ driver.on = "ap" => left = <<>>
  <2>1. CASE on = driver.on /\ on = "ap" BY <2>1, NoEvents DEF LinkTypes
  <2>2. CASE ~(on = driver.on /\ on = "ap")
    <3>1. left = Leaving BY <2>2
    <3>2. CASE driver.on = "sta" /\ driver.link # "down"
      <4>1. Leaving = <<Ev("down", "generic")>> BY <3>2 DEF Leaving
      <4> QED BY <1>2, <2>2, <3>1, <4>1, OneEvent
    <3>3. CASE driver.on = "ap"
      <4>1. Leaving = <<Ev("apStop", None)>> BY <3>3 DEF Leaving
      <4> QED BY <1>2, <2>2, <3>1, <3>3, <4>1, OneEvent DEF LinkTypes
    <3>4. CASE driver.on # "ap" /\ ~(driver.on = "sta" /\ driver.link # "down")
      <4>1. Leaving = <<>> BY <3>4 DEF Leaving
      <4> QED BY <2>2, <3>1, <3>4, <4>1, NoEvents DEF LinkTypes
    <3> QED BY <3>2, <3>3, <3>4
  <2> QED BY <2>1, <2>2
<1>4. /\ started \in Seq(EventRecord) /\ Undone(started, "gotIp", "down")
      /\ Undone(started, "apStop", "apStart")
      /\ on = "ap" /\ driver.on # "ap" => Has(started, "apStart")
      /\ on = "ap" /\ driver.on = "ap" => started = <<>>
  BY <1>2, OneEvent, NoEvents
<1> HIDE DEF left, started
<1>5. events \o left \in Seq(EventRecord) /\ Undone(events \o left, "gotIp", "down")
  BY <1>3, JoinedQueues DEF LinkTypes, NewsFollows
<1>6. Stale(events \o left) \in Seq(EventRecord) /\ Undone(Stale(events \o left), "gotIp", "down")
  BY <1>5, StaleQueue
<1>7. events' \in Seq(EventRecord) /\ Undone(events', "gotIp", "down")
  BY <1>1, <1>4, <1>6, JoinedQueues
<1>8. on = "ap" => Undone(events', "apStop", "apStart")
  <2>1. CASE on = "ap" /\ driver.on # "ap"
    BY <1>1, <1>4, <1>6, <2>1, JoinedQueues
  <2>2. CASE on = "ap" /\ driver.on = "ap"
    <3>1. left = <<>> /\ Undone(events, "apStop", "apStart") /\ events \in Seq(EventRecord)
      BY <1>3, <2>2 DEF NewsFollows, LinkTypes
    <3>2. Undone(events \o left, "apStop", "apStart") BY <3>1
    <3>3. Undone(Stale(events \o left), "apStop", "apStart") BY <1>5, <3>2, StaleQueue
    <3> QED BY <1>1, <1>4, <1>6, <3>3, JoinedQueues
  <2> QED BY <2>1, <2>2
<1> QED BY <1>1, <1>7, <1>8 DEF LinkTypes, NewsFollows

LEMMA SwitchedQueue ==
  ASSUME QueueInv, NEW on \in Mode, SwitchTo(on),
         \/ mode' = "sta" /\ state' = "connecting"
         \/ mode' = "ap" /\ state' = "up"
         \/ mode' = "off" /\ state' = "off"
  PROVE  QueueInv'
BY Switched DEF QueueInv, MatchesAfterNews

LEMMA QueueStands ==
  ASSUME QueueInv, UNCHANGED <<mode, state, driver, events>>
  PROVE  QueueInv'
BY DEF QueueInv, LinkTypes, NewsFollows, MatchesAfterNews

LEMMA QueueOfEvent == QueueInv /\ HandleEvent => QueueInv'
<1> SUFFICES ASSUME QueueInv, HandleEvent PROVE QueueInv' OBVIOUS
<1>1. /\ events # <<>> /\ events' = Tail(events) /\ UNCHANGED <<mode, driver>>
      /\ events \in Seq(EventRecord)
  BY DEF HandleEvent, QueueInv, LinkTypes
<1>2. /\ events' \in Seq(EventRecord) /\ Head(events) \in EventRecord
      /\ \A a, b : Undone(events, a, b) =>
           Undone(events', a, b) /\ (Head(events).ev = a => Has(events', b))
      /\ \A b : Has(events, b) /\ Head(events).ev # b => Has(events', b)
  BY <1>1, RestOfQueue
<1>3. LinkTypes' /\ NewsFollows' BY <1>1, <1>2 DEF QueueInv, LinkTypes, NewsFollows
<1>4. /\ mode = "off" => state' = state
      /\ mode = "ap" => \/ state' = state /\ Head(events).ev # "apStart"
                        \/ state' = "up"
                        \/ Head(events).ev = "apStop"
      /\ mode = "sta" => \/ state' = state /\ Head(events).ev # "down"
                         \/ state' = "connecting"
                         \/ Head(events).ev = "gotIp"
  BY <1>2 DEF HandleEvent, GotIp, Disconnected, EventRecord, Event
<1>5. MatchesAfterNews'
  BY <1>1, <1>2, <1>4 DEF QueueInv, NewsFollows, MatchesAfterNews
<1> QED BY <1>3, <1>5 DEF QueueInv

LEMMA QueueOfLink == QueueInv /\ LinkChanges => QueueInv'
<1> SUFFICES ASSUME QueueInv, LinkChanges PROVE QueueInv' OBVIOUS
<1>1. PICK e \in {"assoc", "gotIp", "down"}, r \in Reason :
        /\ driver.on = "sta"
        /\ e = "assoc" => driver.link = "down"
        /\ driver' = [driver EXCEPT !.link = IF e = "gotIp" THEN "ip" ELSE e]
        /\ events' = Append(events, Ev(e, r))
  BY DEF LinkChanges
<1>2. UNCHANGED <<mode, state>> BY DEF LinkChanges, sessVars
<1>3. events \in Seq(EventRecord) /\ events' = events \o <<Ev(e, r)>> /\ e \in Event
  BY <1>1 DEF QueueInv, LinkTypes, Event
<1>4. /\ <<Ev(e, r)>> \in Seq(EventRecord) /\ Has(<<Ev(e, r)>>, e)
      /\ \A a, b : a # e => Undone(<<Ev(e, r)>>, a, b)
  BY <1>3, OneEvent
<1>5. driver'.on = "sta" /\ driver'.link = (IF e = "gotIp" THEN "ip" ELSE e)
      /\ driver' \in [on : Mode, link : {"down", "assoc", "ip"}]
  BY <1>1 DEF QueueInv, LinkTypes
<1>6. events' \in Seq(EventRecord)
  BY <1>3, <1>4
<1>7. NewsFollows'
  <2>1. CASE e = "gotIp" BY <1>5, <2>1 DEF NewsFollows
  <2>2. CASE e # "gotIp"
    <3>1. Undone(events, "gotIp", "down") \/ Has(<<Ev(e, r)>>, "down")
      BY <1>1, <1>4, <2>2 DEF QueueInv, NewsFollows
    <3> QED BY <1>3, <1>4, <1>5, <2>2, <3>1, JoinedQueues DEF NewsFollows
  <2> QED BY <2>1, <2>2
<1>8. Has(events, "down") \/ e = "down" => Has(events', "down")
  BY <1>3, <1>4, JoinedHas
<1>9. MatchesAfterNews'
  BY <1>1, <1>2, <1>5, <1>8 DEF QueueInv, MatchesAfterNews
<1> QED BY <1>5, <1>6, <1>7, <1>9 DEF QueueInv, LinkTypes

LEMMA QueueStep == HostInv /\ QueueInv /\ [Next]_vars => QueueInv'
<1> SUFFICES ASSUME HostInv, QueueInv, [Next]_vars PROVE QueueInv' OBVIOUS
<1>1. /\ "sta" \in Mode /\ "ap" \in Mode /\ "off" \in Mode
      /\ driver.on \in Mode /\ nvs \in Nvs
  BY DEF Mode, QueueInv, LinkTypes, HostInv
<1>2. CASE Boot
  <2>1. CASE NothingStarts BY <1>2, <2>1, QueueStands DEF Boot, NothingStarts, sessVars
  <2>2. CASE SwitchTo("sta") /\ mode' = "sta" /\ state' = "connecting"
    BY <1>1, <2>2, SwitchedQueue
  <2>3. ASSUME NEW read, StartApAfter(read, TRUE, FALSE) PROVE QueueInv'
    BY <1>1, <2>3, ApStarts, SwitchedQueue
  <2> QED BY <1>2, <2>1, <2>2, <2>3 DEF Boot, BeginIfPersisted
<1>3. CASE Apply
  BY <1>1, <1>3, Applied, QueueStands, SwitchedQueue
<1>4. CASE CheckTimeout
  <2>1. CASE TimedOut
    BY <1>1, <1>4, <2>1, ApStarts, SwitchedQueue DEF CheckTimeout, StartAp
  <2>2. CASE ~TimedOut
    <3>1. ConditionBluetooth /\ UNCHANGED <<mode, state, events>>
      BY <1>4, <2>2 DEF CheckTimeout, sessVars
    <3>2. \/ driver' = driver
          \/ driver.on = "off" /\ driver' = [driver EXCEPT !.on = "sta"]
      BY <3>1 DEF ConditionBluetooth
    <3>3. CASE driver.on = "off" /\ driver' = [driver EXCEPT !.on = "sta"]
      <4>1. driver'.on = "sta" /\ driver'.link = driver.link
            /\ driver' \in [on : Mode, link : {"down", "assoc", "ip"}]
        BY <1>1, <3>3 DEF QueueInv, LinkTypes
      <4> QED BY <3>1, <3>3, <4>1 DEF QueueInv, LinkTypes, NewsFollows, MatchesAfterNews
    <3> QED BY <3>1, <3>2, <3>3, QueueStands
  <2> QED BY <2>1, <2>2
<1>5. CASE StopForDataErase
  BY <1>1, <1>5, Stops, QueueStands, SwitchedQueue DEF StopForDataErase, sessVars
<1>6. CASE ScreenRequests
  <2>1. CASE UNCHANGED <<sessVars, driver, events>>
    BY <2>1, QueueStands DEF sessVars
  <2>2. CASE StartSta([ssid |-> nvs.ssid, pass |-> nvs.pass], TRUE)
    <3>1. mode' = "sta" /\ state' = "connecting" /\ SwitchTo("sta") BY <2>2 DEF StartSta
    <3> QED BY <1>1, <3>1, SwitchedQueue
  <2> QED BY <1>6, <2>1, <2>2 DEF ScreenRequests, RetrySta, NothingStarts
<1>7. CASE Restart
  <2>1. mode' = "off" /\ state' = "off" /\ driver' = [on |-> "off", link |-> "down"]
        /\ events' = <<>>
    BY <1>7 DEF Restart, PowerUp
  <2> QED BY <1>1, <2>1, NoEvents DEF QueueInv, LinkTypes, NewsFollows, MatchesAfterNews
<1>8. CASE \/ TakePending \/ HttpStopped \/ SyncServers \/ HandlePost \/ HandleOther \/ ServerTask
           \/ Environment \/ RegistryChanges \/ ControllerStarts \/ Expire \/ UNCHANGED vars
           \/ \E t \in Tasks : AskConfigured(t) \/ FillCache(t)
  BY <1>8, QueueStands
     DEF TakePending, HttpStopped, SyncServers, HandlePost, HandleOther, ServerTask, Environment,
         RegistryChanges, ControllerStarts, Expire, AskConfigured, FillCache, vars, wifiVars,
         sessVars
<1> QED BY <1>2, <1>3, <1>4, <1>5, <1>6, <1>7, <1>8, QueueOfEvent, QueueOfLink DEF Next, MainPass

(* When the events have been worked off between two passes, the manager's  *)
(* mode and state are the driver's, whatever requests, drops, failed       *)
(* writes and switches came before (update, _onWifiEvent).                 *)
THEOREM RadioMatchesDriver == Spec => []RadioMatches
<1>1. Init => HostInv /\ QueueInv BY HostInvInit, QueueInvInit
<1>2. HostInv /\ QueueInv /\ [Next]_vars => HostInv' /\ QueueInv' BY HostStep, QueueStep
<1>3. QueueInv => RadioMatches
  BY DEF QueueInv, MatchesAfterNews, RadioMatches, Quiet, Has
<1> QED BY <1>1, <1>2, <1>3, PTL DEF Spec

==============================================================================
