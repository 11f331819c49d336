--------------------------- MODULE NetworkServices ---------------------------
(***************************************************************************)
(* NetworkServicesHost: the main loop's network pass, which composes the    *)
(* radio (WifiManager) and the web server (HttpServer).  A pass takes the   *)
(* pending request, stops the servers before it touches the radio, applies  *)
(* the request, checks the connect timeout and then starts or stops the     *)
(* servers after what the radio has become.  The event task and the server  *)
(* task run between any two of its steps.                                   *)
(*                                                                         *)
(* The event stream's server is a flag here; module SseServer has it whole. *)
(***************************************************************************)
EXTENDS WifiManager, HttpServer

VARIABLES
  mainPc,
  req,        \* the request being applied
  sseUp,      \* SseServer::_shouldRun
  erasing,    \* _stoppedForReboot
  asking,     \* an isConfigured() that has read flash but not filled the cache
  choice      \* ghost: the mode the user chose last

hostVars == <<mainPc, req, sseUp, erasing, asking, choice>>
vars     == <<wifiVars, httpVars, hostVars, faults>>

Tasks == {"main", "http"}

TypeOK ==
  /\ WifiTypeOK /\ HttpTypeOK /\ faults \in 0..MaxFaults
  /\ mainPc \in {"boot", "idle", "stopHttp", "apply", "timeout", "sync", "syncStop", "erase", "erased"}
  /\ req \in Requests \cup {Req(None)}
  /\ sseUp \in BOOLEAN /\ erasing \in BOOLEAN
  /\ asking \in [Tasks -> {None, "yes", "no"}]
  /\ choice \in Mode

Init ==
  /\ WifiInit /\ HttpInit /\ faults = 0
  /\ mainPc = "boot" /\ req = Req(None) /\ sseUp = FALSE /\ erasing = FALSE
  /\ asking = [t \in Tasks |-> None]
  /\ choice = nvs.mode

WifiReachable == state \in {"connected", "up"}

-----------------------------------------------------------------------------
(* The main task *)

Boot ==
  /\ mainPc = "boot" /\ BeginIfPersisted
  /\ mainPc' = "idle"
  /\ UNCHANGED <<pending, fuel, httpVars, req, sseUp, erasing, asking, choice>>

\* The head of _processPending: nothing pending, a resubmission of the live
\* session, or a change, for which both servers are stopped first.
TakePending ==
  /\ mainPc = "idle" /\ asking["main"] = None
  /\ TakeSlot
  /\ \E readable \in BOOLEAN :
     LET noop == \/ pending.action = None
                 \/ pending.action = "connect" /\ StaSessionMatches(pending.cred, readable)
     IN /\ Ok(readable) /\ Count({readable})
        /\ pending.action # "connect" => readable
        /\ IF noop THEN mainPc' = "timeout" /\ UNCHANGED <<req, sseUp, httpShould>>
           ELSE /\ mainPc' = "stopHttp" /\ req' = pending /\ sseUp' = FALSE
                /\ HttpStopPosted
  /\ UNCHANGED <<sessVars, linkVars, confCache, nvs, bt, driver, events,
                 fuel, httpExited, dirty, routes, marking, httpPc, bound, backoff,
                 erasing, asking, choice>>

\* stop() returns when the server task is gone.
HttpStopped ==
  /\ httpExited
  /\ \/ mainPc = "stopHttp" /\ mainPc' = "apply"
     \/ mainPc = "syncStop" /\ mainPc' = "idle"
  /\ UNCHANGED <<faults, wifiVars, httpVars, req, sseUp, erasing, asking, choice>>

\* The mode the user is left with after a reboot, if every write works: an
\* access point is transient unless nothing was configured before.
Chosen ==
  CASE req.action = "connect" -> "sta"
    [] req.action = "reset"   -> "off"
    [] req.action = "startAp" -> IF IsConfigured THEN choice ELSE "ap"
    [] req.action = "stop"    -> IF req.persist THEN "off" ELSE choice
    [] OTHER -> IF req.persist /\ nvs.ssid # None THEN "sta" ELSE choice

\* The switch of _processPending. isConfigured() fills its cache on the way.
Apply ==
  /\ mainPc = "apply"
  /\ CASE req.action = "connect" -> StartSta(req.cred, TRUE)
       [] req.action = "reset"   -> ResetAllConfig
       [] req.action = "startAp" -> StartAp(~IsConfigured, FALSE) /\ confCache' = FilledCache
       [] req.action = "stop"    -> Stop(req.persist)
       [] OTHER                  -> RetrySta(req.persist)
  /\ choice' = Chosen /\ mainPc' = "timeout" /\ req' = Req(None)
  /\ UNCHANGED <<pending, fuel, httpVars, sseUp, erasing, asking>>

\* The rest of WifiManager::update().
CheckTimeout ==
  /\ mainPc = "timeout" /\ mainPc' = "sync"
  /\ IF TimedOut THEN StartAp(FALSE, TRUE) /\ UNCHANGED confCache
     ELSE /\ ConditionBluetooth
          /\ UNCHANGED <<sessVars, linkVars, confCache, nvs, events>>
  /\ UNCHANGED <<pending, fuel, httpVars, req, sseUp, erasing, asking, choice>>

\* syncServers. A pass has gone by since the timer was armed.
SyncServers ==
  /\ mainPc = "sync"
  /\ timer' = IF timer = "fresh" THEN "running" ELSE timer
  /\ sseUp' = WifiReachable
  /\ IF WifiReachable /\ ~httpShould THEN HttpBegin /\ mainPc' = "idle"
     ELSE /\ IF ~WifiReachable /\ httpShould THEN mainPc' = "syncStop" /\ HttpStopPosted
             ELSE mainPc' = "idle" /\ UNCHANGED httpShould
          /\ UNCHANGED <<httpExited, dirty, routes, marking, httpPc, bound, backoff,
                         faults>>
  /\ UNCHANGED <<sessVars, suppressed, associated, why, gotIp, pending, confCache,
                 nvs, bt, driver, events, fuel, req, erasing, asking, choice>>

\* stopForDataErase: update() does nothing from then on; the device restarts.
StopForDataErase ==
  \/ /\ mainPc = "idle" /\ asking["main"] = None /\ Burn
     /\ mainPc' = "erase" /\ erasing' = TRUE /\ sseUp' = FALSE /\ HttpStopPosted
     /\ UNCHANGED <<sessVars, linkVars, pending, confCache, nvs, bt, driver, events, faults,
                    httpExited, dirty, routes, marking, httpPc, bound, backoff, req, asking, choice>>
  \/ /\ mainPc = "erase" /\ httpExited /\ mainPc' = "erased"
     /\ Stop(FALSE)
     /\ UNCHANGED <<pending, fuel, httpVars, req, sseUp, erasing, asking, choice>>

\* Screens post requests. "Wi-Fi on" of the status screen's menu, which may have
\* been opened a while ago, with the radio off, retries the station itself.
ScreenRequests ==
  /\ mainPc = "idle" /\ asking["main"] = None /\ Burn
  /\ \/ /\ \E r \in Requests : r.action \in {"startAp", "stop", "retry"} /\ Post(r)
        /\ UNCHANGED <<sessVars, linkVars, confCache, nvs, bt, driver, events,
                       faults, choice>>
     \/ /\ nvs.ssid # None
        /\ RetrySta(TRUE) /\ choice' = "sta"
        /\ UNCHANGED pending
  /\ UNCHANGED <<httpVars, mainPc, req, sseUp, erasing, asking>>

-----------------------------------------------------------------------------
(* isConfigured() by the screens and by GET /sys/wifi/status: flash is read,  *)
(* then the cache is filled with what was read.                              *)

MayAsk(t) == IF t = "main" THEN mainPc = "idle" ELSE httpPc = "handler"

AskConfigured(t) ==
  /\ MayAsk(t) /\ asking[t] = None /\ confCache = "unknown"
  /\ asking' = [asking EXCEPT ![t] = ConfiguredCached]
  /\ UNCHANGED <<faults, wifiVars, httpVars, mainPc, req, sseUp, erasing, choice>>

FillCache(t) ==
  /\ asking[t] # None
  /\ confCache' = asking[t]
  /\ asking' = [asking EXCEPT ![t] = None]
  /\ UNCHANGED <<sessVars, linkVars, pending, nvs, bt, driver, events,
                 faults, fuel, httpVars, mainPc, req, sseUp, erasing, choice>>

-----------------------------------------------------------------------------
(* The server task's handlers *)

\* POST /sys/wifi/sta and /sys/wifi/forget, and the first pairing, whose
\* callback marks the device configured.
HandlePost ==
  /\ httpPc = "handler" /\ asking["http"] = None /\ Burn
  /\ \/ /\ \E r \in Requests : r.action \in {"connect", "reset"} /\ Post(r)
        /\ UNCHANGED <<nvs, confCache, faults>>
     \/ /\ \E ok \in BOOLEAN :
             /\ Ok(ok) /\ Count({ok})
             /\ nvs' = MarkConfigured(nvs, ok) /\ confCache' = MarkedCache(ok)
        /\ UNCHANGED pending
  /\ FinishRequest
  /\ UNCHANGED <<sessVars, linkVars, bt, driver, events, hostVars>>

HandleOther ==
  /\ asking["http"] = None /\ FinishRequest
  /\ UNCHANGED <<faults, wifiVars, hostVars>>

-----------------------------------------------------------------------------
\* The 15 s of the attempt pass; not before the pass that armed the timer ends.
Expire ==
  /\ timer = "running" /\ state = "connecting"
  /\ events = <<>>   \* the event task is not held up for 15 s
  /\ timer' = "expired"
  /\ UNCHANGED <<sessVars, suppressed, associated, why, gotIp, pending, confCache,
                 nvs, bt, driver, events, faults, fuel, httpVars, hostVars>>

\* Power is lost, or the erase ends in a restart: flash is what remains.
Restart ==
  /\ mainPc # "boot" /\ fuel > 0
  /\ PowerUp
  /\ nvs' \in {nvs} \cup (IF mainPc = "erased" THEN {EmptyNvs} ELSE {})
  /\ choice' = IF nvs' = nvs THEN choice ELSE "off"
  /\ fuel' = fuel - 1
  /\ httpShould' = FALSE /\ httpExited' = TRUE /\ dirty' = TRUE /\ routes' = 1
  /\ marking' = FALSE /\ httpPc' = "none" /\ bound' = 0 /\ backoff' = FALSE
  /\ mainPc' = "boot" /\ req' = Req(None) /\ sseUp' = FALSE /\ erasing' = FALSE
  /\ asking' = [t \in Tasks |-> None]
  /\ UNCHANGED faults

MainPass == Boot \/ TakePending \/ HttpStopped \/ Apply \/ CheckTimeout \/ SyncServers

ServerTask  == HttpTask /\ UNCHANGED <<wifiVars, hostVars>>
Environment == (MarkDirty \/ TakeRequest) /\ UNCHANGED <<wifiVars, hostVars>>
RegistryChanges ==
  /\ ChangeRoutes /\ Burn
  /\ UNCHANGED <<sessVars, linkVars, pending, confCache, nvs, bt, driver, events,
                 faults, hostVars>>

Next ==
  \/ MainPass \/ StopForDataErase \/ ScreenRequests
  \/ \E t \in Tasks : AskConfigured(t) \/ FillCache(t)
  \/ HandlePost \/ HandleOther
  \/ ServerTask \/ Environment \/ RegistryChanges
  \/ (HandleEvent \/ LinkChanges \/ ControllerStarts)
       /\ UNCHANGED <<httpVars, hostVars>>
  \/ Expire \/ Restart

Spec == Init /\ [][Next]_vars

\* The loop and the tasks are scheduled, handlers and registrars go on, time
\* passes.
FairSpec ==
  /\ Spec
  /\ WF_vars(MainPass) /\ WF_vars(mainPc = "erase" /\ StopForDataErase)
  /\ WF_vars(\E t \in Tasks : FillCache(t))
  /\ WF_vars(HandleOther) /\ WF_vars(ServerTask)
  /\ WF_vars(MarkDirty /\ UNCHANGED <<wifiVars, hostVars>>)
  /\ WF_vars(HandleEvent /\ UNCHANGED <<httpVars, hostVars>>) /\ WF_vars(Expire)

-----------------------------------------------------------------------------
\* The main loop never changes the radio under a live server: for a request,
\* the timeout or the erase, it finds the server task gone.
RadioChangesWithServersDown ==
  [][driver'.on # driver.on /\ mainPc \in {"apply", "timeout", "erase"} /\ mainPc' # "boot" => httpExited /\ ~sseUp]_vars

\* When the event queue has been worked off and the main loop is between
\* passes, what the manager says of the radio is what the driver does.
Quiet == mainPc = "idle" /\ events = <<>>
RadioMatches ==
  Quiet => /\ mode = "off" => state = "off"
           /\ mode = "ap"  => state = "up" \/ driver.on # "ap"
           /\ mode = "sta" => (state = "connected" => driver.link = "ip")

\* The cached answer to "is the device configured?" is the flash's.
CacheAgrees == confCache = "unknown" \/ faults > 0 \/ (confCache = "yes") = nvs.configured

\* A restart brings back the mode the user chose last, whatever fallback or
\* set-up session was on in between (writes that failed apart).
BootHonoursChoice ==
  [][mainPc = "boot" /\ mainPc' # "boot" /\ faults' = 0 /\ nvs.configured => mode' = choice]_vars

\* A reset that was accepted is carried out: no later request takes its place.
ResetHappens ==
  (pending.action = "reset") ~> (nvs = EmptyNvs \/ faults > 0 \/ mainPc \in {"boot", "erased"})

\* An attempt that may fall back is decided: it gets its address or the
\* device comes up as access point.
AttemptDecided ==
  (mode = "sta" /\ state = "connecting" /\ ~suppressed) ~>
    (state # "connecting" \/ mode # "sta" \/ suppressed \/ erasing)

\* stop() returns: the task it waits for leaves its loop.
HttpStopReturns == (mainPc \in {"stopHttp", "syncStop", "erase"}) ~> (httpExited)

\* The manager, its host and the servers implement the radio service.
Radio == INSTANCE RadioService WITH
  slot <- pending.action, doing <- req.action, radioMode <- mode, radio <- state,
  fallback <- fallbackAp, configured <- nvs.configured, creds <- nvs.ssid # None
ImplementsRadio == Radio!RadioSpec

\* An address of an earlier attempt does not count for this one.
StaleIpIsInert == mode = "sta" /\ suppressed => gotIp
=============================================================================
